---------------------------- MODULE ResourceProofs ----------------------------
(***************************************************************************)
(* Proofs about the tables that point elsewhere in the file and about what *)
(* is made of the resources: the TLS and the debug directory, version      *)
(* information, icons, the digest of the file, and the tree of resources   *)
(* itself.  At the end are the results about all parsers: their types, and *)
(* the rank that each of their steps lowers.                               *)
(***************************************************************************)
EXTENDS SymbolProofs, FiniteSetTheorems

-------------------------------------------------------------------------------
(* The TLS directory.                                                      *)

\* The inductive invariant: the callbacks fit behind the start of their table, and
\* there are none before it is reached.
TlsInv ==
    /\ pc \in {"directory", "callbacks", "done"}
    /\ item \in {4, 8} /\ left \in Nat /\ count \in Nat
    /\ item * count <= left
    /\ pc = "directory" => count = 0
    /\ kept = <<>> \/ (kept = <<count>> /\ pc = "done")

TlsOK == directory = "tls" => TlsInv

\* TlsInv holds throughout the function.
LEMMA TlsAlways == Spec => []TlsOK
  <1>1. Init => TlsOK
    <2> SUFFICES ASSUME TLS!Init PROVE TlsInv
      BY DEF Init, TlsOK
    <2> QED
      BY TlsAssumption DEF TLS!Init, TlsInv
  <1>2. TlsOK /\ [Next]_vars => TlsOK'
    <2> SUFFICES ASSUME TlsOK, [Next]_vars, directory' = "tls"
                 PROVE  TlsInv'
      BY DEF TlsOK
    <2>1. TlsInv /\ (TLS!Step \/ UNCHANGED vars)
      BY OneParser DEF TlsOK
    <2>2. CASE TLS!ReadDirectory
      BY <2>1, <2>2, TlsAssumption DEF TlsInv, TLS!ReadDirectory
    <2>3. CASE TLS!DirectoryFails
      BY <2>1, <2>3 DEF TlsInv, TLS!DirectoryFails
    <2>4. CASE TLS!ReadCallback
      BY <2>1, <2>4 DEF TlsInv, TLS!ReadCallback
    <2>5. CASE TLS!EndCallbacks
      BY <2>1, <2>5 DEF TlsInv, TLS!EndCallbacks
    <2>6. CASE UNCHANGED vars
      BY <2>1, <2>6 DEF TlsInv, vars, tableVars
    <2> QED
      BY <2>1, <2>2, <2>3, <2>4, <2>5, <2>6 DEF TLS!Step
  <1> QED
    BY <1>1, <1>2, PTL DEF Spec

-------------------------------------------------------------------------------
(* Icons.                                                                  *)

\* Icons that follow each other, the first one not before place, the last one up
\* to end.
Chained(s, place, end) ==
    /\ \A k \in DOMAIN s : s[k].offset >= place
    /\ \A k \in 1..(Len(s) - 1) : s[k].offset + s[k].size = s[k + 1].offset
    /\ s # <<>> => s[Len(s)].offset + s[Len(s)].size = end

\* The inductive invariant: the header is made before the first icon, with as many
\* entries as the directory has, and what is returned is never shorter.
IconInv ==
    /\ pc \in {"group", "entries", "build", "done", "failed"}
    /\ item \in [type : {1, 2}, count : Nat]
    /\ count \in Nat /\ left \in Nat /\ read \in BOOLEAN
    /\ kept \in Seq([offset : Nat, size : Nat])
    /\ count <= item.count /\ Len(kept) <= item.count
    /\ pc \in {"group", "entries"} => kept = <<>>
    /\ kept # <<>> \/ pc = "build" => count = item.count
    /\ pc = "build" /\ ~read => left >= Icon!HeaderSize(item.count)
    /\ pc = "group" => count = 0
    /\ ~read => Chained(kept, Icon!HeaderSize(item.count), left)

IconOK == directory = "icons" => IconInv

\* An icon that is appended where the last one ends.
LEMMA ChainedAppend ==
    ASSUME NEW s \in Seq([offset : Nat, size : Nat]), NEW place \in Nat,
           NEW end \in Nat, NEW b \in Nat, end >= place, Chained(s, place, end)
    PROVE  Chained(Append(s, [offset |-> end, size |-> b]), place, end + b)
  <1> DEFINE new == [offset |-> end, size |-> b]
             t   == Append(s, new)
  <1>1. PICK n \in Nat : n = Len(s)
    OBVIOUS
  <1>2. new \in [offset : Nat, size : Nat] /\ new.offset = end /\ new.size = b
    OBVIOUS
  <1> HIDE DEF new
  <1>3. /\ Len(t) = n + 1 /\ DOMAIN t = 1..(n + 1) /\ t[n + 1] = new
        /\ \A k \in 1..n : t[k] = s[k]
    BY <1>1, <1>2
  <1>4. DOMAIN s = 1..n /\ (n > 0 => s # <<>>)
    BY <1>1
  <1>5. t # <<>>
    BY <1>3
  <1> HIDE DEF t
  <1>6. \A k \in DOMAIN t : t[k].offset >= place
    <2>1. \A k \in 1..(n + 1) : k \in 1..n \/ k = n + 1
      OBVIOUS
    <2>2. \A k \in 1..n : t[k].offset >= place
      BY <1>3, <1>4 DEF Chained
    <2> QED
      BY <1>2, <1>3, <2>1, <2>2
  <1>7. \A k \in 1..(Len(t) - 1) : t[k].offset + t[k].size = t[k + 1].offset
    <2>1. Len(t) - 1 = n
      BY <1>3
    <2>2. ASSUME NEW k \in 1..n PROVE t[k].offset + t[k].size = t[k + 1].offset
      <3>1. CASE k = n
        <4>1. s # <<>> /\ s[n].offset + s[n].size = end
          BY <1>1, <1>4, <3>1 DEF Chained
        <4> QED
          BY <1>2, <1>3, <3>1, <4>1
      <3>2. CASE k # n
        <4>1. k \in 1..(n - 1) /\ k + 1 \in 1..n
          BY <3>2
        <4>2. s[k].offset + s[k].size = s[k + 1].offset
          BY <1>1, <4>1 DEF Chained
        <4> QED
          BY <1>3, <4>1, <4>2
      <3> QED
        BY <3>1, <3>2
    <2> QED
      BY <2>1, <2>2
  <1>8. t[Len(t)].offset + t[Len(t)].size = end + b
    BY <1>2, <1>3
  <1>9. Chained(t, place, end + b)
    BY <1>6, <1>7, <1>8 DEF Chained
  <1> QED
    BY <1>9 DEF t, new

\* The size of the header is a number.
LEMMA IconHeader ==
    ASSUME NEW n \in Nat
    PROVE  Icon!HeaderSize(n) \in Nat /\ Icon!HeaderSize(n) = 6 + 16 * n
  BY DEF Icon!HeaderSize, Icon!DirHeaderSize, Icon!IconEntrySize

\* A step that appends no icon keeps IconInv.
LEMMA IconNoIcon ==
    ASSUME IconInv,
           Icon!ReadGroup \/ Icon!ReadEntry \/ Icon!StartIcon \/ Icon!Fail \/ Icon!EndIcon
    PROVE  IconInv'
  <1>1. item.count \in Nat /\ Icon!HeaderSize(item.count) \in Nat
    BY IconHeader DEF IconInv
  <1>2. CASE Icon!ReadGroup
    <2>1. /\ pc = "group" /\ pc' = "entries" /\ UNCHANGED <<count, left, kept, read>>
          /\ item' \in [type : {1, 2}, count : Nat]
      BY <1>2, IconAssumption DEF Icon!ReadGroup
    <2>2. item'.count \in Nat /\ kept = <<>> /\ Len(kept) = 0 /\ DOMAIN kept = {} /\ count = 0
      BY <2>1 DEF IconInv
    <2>3. \A p, e : Chained(<<>>, p, e)
      BY DEF Chained
    <2> QED
      BY <2>1, <2>2, <2>3 DEF IconInv
  <1>3. CASE Icon!ReadEntry
    <2>1. /\ pc = "entries" /\ count < item.count /\ count' = count + 1
          /\ UNCHANGED <<pc, item, left, kept, read>>
      BY <1>3 DEF Icon!ReadEntry
    <2>2. count' \in Nat /\ count' <= item.count
      BY <1>1, <2>1 DEF IconInv
    <2> QED
      BY <2>1, <2>2 DEF IconInv
  <1>4. CASE Icon!StartIcon
    <2>1. /\ pc = "entries" /\ count = item.count /\ left' = Icon!HeaderSize(item.count)
          /\ pc' = "build" /\ UNCHANGED <<item, count, kept, read>>
      BY <1>4 DEF Icon!StartIcon
    <2>2. kept = <<>>
      BY <2>1 DEF IconInv
    <2>3. \A p, e : Chained(<<>>, p, e)
      BY DEF Chained
    <2> QED
      BY <1>1, <2>1, <2>2, <2>3 DEF IconInv
  <1>5. CASE Icon!Fail
    BY <1>5 DEF Icon!Fail, IconInv
  <1>6. CASE Icon!EndIcon
    BY <1>6 DEF Icon!EndIcon, IconInv
  <1> QED
    BY <1>2, <1>3, <1>4, <1>5, <1>6

\* An icon is appended.
LEMMA IconAppend ==
    ASSUME IconInv, Icon!AppendIcon
    PROVE  IconInv'
  <1>1. /\ pc = "build" /\ Len(kept) < item.count
        /\ UNCHANGED <<pc, item, count, read>>
    BY DEF Icon!AppendIcon
  <1>2. PICK b \in IconSizes :
           /\ item.type = 2 => b > 4
           /\ kept' = Append(kept, [offset |-> left, size |-> Icon!Appended(b)])
           /\ left' = left + Icon!Appended(b)
    BY DEF Icon!AppendIcon
  <1>3. Icon!Appended(b) \in Nat
    BY <1>2, IconAssumption DEF IconInv, Icon!Appended
  <1>4. PICK z \in Nat : z = Icon!Appended(b)
    BY <1>3
  <1>5. PICK l \in Nat, n \in Nat, h \in Nat :
            l = left /\ n = item.count /\ h = Icon!HeaderSize(item.count)
    BY IconHeader DEF IconInv
  <1>6. kept' = Append(kept, [offset |-> l, size |-> z]) /\ left' = l + z
    BY <1>2, <1>4, <1>5
  <1>7. kept \in Seq([offset : Nat, size : Nat]) /\ Len(kept) \in Nat
    BY DEF IconInv
  <1>8. kept' \in Seq([offset : Nat, size : Nat]) /\ Len(kept') = Len(kept) + 1
    BY <1>6, <1>7
  <1>9. Len(kept') <= item.count
    BY <1>1, <1>5, <1>7, <1>8
  <1>10. ASSUME ~read PROVE Chained(kept', h, l + z) /\ l + z >= h
    <2>1. l >= h /\ Chained(kept, h, l)
      BY <1>1, <1>5, <1>10 DEF IconInv
    <2> QED
      BY <1>6, <1>7, <2>1, ChainedAppend
  <1>11. left' \in Nat
    BY <1>6
  <1> QED
    BY <1>1, <1>5, <1>6, <1>8, <1>9, <1>10, <1>11 DEF IconInv

\* A cursor is rejected.
LEMMA IconReject ==
    ASSUME IconInv, Icon!RejectCursor
    PROVE  IconInv'
  <1>1. /\ pc = "build" /\ Len(kept) < item.count
        /\ UNCHANGED <<pc, item, count>> /\ left' = 0 /\ read'
        /\ kept' = Append(kept, [offset |-> left, size |-> 0])
    BY DEF Icon!RejectCursor
  <1>2. /\ left \in Nat /\ item.count \in Nat
        /\ kept \in Seq([offset : Nat, size : Nat]) /\ Len(kept) \in Nat
    BY DEF IconInv
  <1>3. kept' \in Seq([offset : Nat, size : Nat]) /\ Len(kept') = Len(kept) + 1
    BY <1>1, <1>2
  <1>4. Len(kept') <= item.count
    BY <1>1, <1>2, <1>3
  <1>5. read' \in BOOLEAN
    BY DEF Icon!RejectCursor
  <1> QED
    BY <1>1, <1>3, <1>4, <1>5 DEF IconInv

\* IconInv holds throughout the function.
LEMMA IconAlways == Spec => []IconOK
  <1>1. Init => IconOK
    <2> SUFFICES ASSUME Icon!Init PROVE IconInv
      BY DEF Init, IconOK
    <2>1. \A p, e : Chained(<<>>, p, e)
      BY DEF Chained
    <2>2. pc = "group" /\ count = 0 /\ left = 0 /\ kept = <<>> /\ read \in BOOLEAN /\ Len(kept) = 0
      BY DEF Icon!Init
    <2>3. item \in [type : {1, 2}, count : Nat] /\ item.count = 0
      BY DEF Icon!Init
    <2> QED
      BY <2>1, <2>2, <2>3 DEF IconInv
  <1>2. IconOK /\ [Next]_vars => IconOK'
    <2> SUFFICES ASSUME IconOK, [Next]_vars, directory' = "icons"
                 PROVE  IconInv'
      BY DEF IconOK
    <2>1. IconInv /\ (Icon!Step \/ UNCHANGED vars)
      BY OneParser DEF IconOK
    <2>2. CASE Icon!Step
      BY <2>1, <2>2, IconNoIcon, IconAppend, IconReject DEF Icon!Step
    <2>3. CASE UNCHANGED vars
      BY <2>1, <2>3 DEF IconInv, vars, tableVars, richVars
    <2> QED
      BY <2>1, <2>2, <2>3
  <1> QED
    BY <1>1, <1>2, PTL DEF Spec

\* For every number and all sizes of the icons, every entry of the .ico file has the
\* offset of its icon, behind the header that has room for all entries, unless a cursor
\* was rejected (reconstruct_icon, resources.cpp:643-716).
THEOREM IconsAlwaysInPlace == Spec => []IconsAreInPlace
  <1>1. IconOK => IconsAreInPlace
    <2> SUFFICES ASSUME IconInv PROVE Icon!IconsAreInPlace
      BY DEF IconOK, IconsAreInPlace
    <2>1. item.count \in Nat
      BY DEF IconInv
    <2>2. Icon!HeaderSize(item.count) = Icon!DirHeaderSize + Icon!IconEntrySize * item.count
      BY <2>1 DEF Icon!HeaderSize, Icon!DirHeaderSize, Icon!IconEntrySize
    <2> QED
      BY <2>2 DEF IconInv, Chained, Icon!IconsAreInPlace
  <1> QED
    BY <1>1, IconAlways, PTL
-------------------------------------------------------------------------------
(* The digest of the file.                                                 *)

\* A range of the file.
Part(a, b) == [first |-> a, end |-> b]

\* What is hashed up to the Checksum, from there to the entry of the SECURITY
\* directory, and behind that up to e.
UpToChecksum == <<Part(0, lfanew + 88)>>
UpToSecurity == <<Part(0, lfanew + 88), Part(lfanew + 92, Dig!HeaderEnd - 8)>>
UpTo(e) == <<Part(0, lfanew + 88), Part(lfanew + 92, Dig!HeaderEnd - 8), Part(Dig!HeaderEnd, e)>>

DigTypes ==
    /\ pc \in {"start", "security", "compare", "rest", "done"}
    /\ lfanew \in Nat /\ item \in Nat /\ cursor \in Nat /\ remaining \in Nat
    /\ read \in BOOLEAN /\ count \in {0, 1}

\* What has been hashed is known at every place of the function, and the bytes that
\* remain are those between the cursor and the certificate.
DigParts ==
    /\ pc = "start" => kept = <<>> /\ cursor = 0 /\ count = 0
    /\ pc = "security" => kept = UpToChecksum /\ cursor = lfanew + 92
    /\ pc = "compare" => kept = UpToSecurity /\ cursor = Dig!HeaderEnd
    /\ pc = "rest" =>
           /\ cursor + remaining = item
           /\ \/ kept = UpToSecurity /\ cursor = Dig!HeaderEnd
              \/ kept = UpTo(cursor) /\ cursor > Dig!HeaderEnd
    /\ pc = "done" =>
           /\ count # 0 => item < Dig!HeaderEnd
           /\ \/ kept = <<>>
              \/ kept = UpToSecurity /\ item < Dig!HeaderEnd
              \/ kept = UpToSecurity /\ cursor = Dig!HeaderEnd /\ cursor + remaining = item
              \/ kept = UpTo(cursor) /\ cursor > Dig!HeaderEnd /\ cursor + remaining = item

DigInv == DigTypes /\ DigParts

DigOK == directory = "digest" => DigInv

\* Where the directories up to SECURITY end.
LEMMA DigHeaderEnd ==
    ASSUME lfanew \in Nat, read \in BOOLEAN
    PROVE  /\ Dig!HeaderEnd \in Nat
           /\ read => Dig!HeaderEnd = lfanew + 176
           /\ ~read => Dig!HeaderEnd = lfanew + 160
  BY DEF Dig!HeaderEnd, Dig!OptionalHeader

\* Bytes that are read where the last range ends make it longer.
LEMMA DigLonger ==
    ASSUME NEW a, NEW b, NEW f, NEW e, NEW n, NEW s, s = <<a, b, Part(f, e)>>
    PROVE  [s EXCEPT ![3].end = n] = <<a, b, Part(f, n)>>
  <1>1. s = [k \in 1..3 |-> IF k = 1 THEN a ELSE IF k = 2 THEN b ELSE Part(f, e)]
    OBVIOUS
  <1>2. [Part(f, e) EXCEPT !.end = n] = Part(f, n)
    BY DEF Part
  <1>3. s[3] = Part(f, e) /\ DOMAIN s = 1..3
    OBVIOUS
  <1>4. [s EXCEPT ![3].end = n] = [s EXCEPT ![3] = Part(f, n)]
    BY <1>2, <1>3
  <1> QED
    BY <1>3, <1>4

\* Sequences of two and of three.
LEMMA DigAppend ==
    ASSUME NEW a, NEW b, NEW c
    PROVE  Append(<<a>>, b) = <<a, b>> /\ Append(<<a, b>>, c) = <<a, b, c>>
  <1>1. <<a>> \in Seq({a, b, c}) /\ <<a, b>> \in Seq({a, b, c}) /\ <<a, b, c>> \in Seq({a, b, c})
    OBVIOUS
  <1>2. Append(<<a>>, b) \in Seq({a, b, c}) /\ Len(Append(<<a>>, b)) = 2
        /\ Append(<<a>>, b)[1] = a /\ Append(<<a>>, b)[2] = b
    BY <1>1
  <1>3. Append(<<a, b>>, c) \in Seq({a, b, c}) /\ Len(Append(<<a, b>>, c)) = 3
        /\ Append(<<a, b>>, c)[1] = a /\ Append(<<a, b>>, c)[2] = b /\ Append(<<a, b>>, c)[3] = c
    BY <1>1
  <1>4. Append(<<a>>, b) = <<a, b>>
    <2> DEFINE s == Append(<<a>>, b)
               r == <<a, b>>
    <2>1. r \in Seq({a, b, c}) /\ Len(r) = 2 /\ r[1] = a /\ r[2] = b
      OBVIOUS
    <2>2. s \in Seq({a, b, c}) /\ Len(s) = 2 /\ s[1] = a /\ s[2] = b
      BY <1>2
    <2> HIDE DEF s, r
    <2>3. \A i \in 1..2 : s[i] = r[i]
      <3>1. \A i \in 1..2 : i = 1 \/ i = 2
        OBVIOUS
      <3> QED
        BY <2>1, <2>2, <3>1
    <2>4. s = r
      BY <2>1, <2>2, <2>3, SeqEqual
    <2> QED
      BY <2>4 DEF s, r
  <1>5. Append(<<a, b>>, c) = <<a, b, c>>
    <2> DEFINE s == Append(<<a, b>>, c)
               r == <<a, b, c>>
    <2>1. r \in Seq({a, b, c}) /\ Len(r) = 3 /\ r[1] = a /\ r[2] = b /\ r[3] = c
      OBVIOUS
    <2>2. s \in Seq({a, b, c}) /\ Len(s) = 3 /\ s[1] = a /\ s[2] = b /\ s[3] = c
      BY <1>3
    <2> HIDE DEF s, r
    <2>3. \A i \in 1..3 : s[i] = r[i]
      <3>1. \A i \in 1..3 : i = 1 \/ i = 2 \/ i = 3
        OBVIOUS
      <3> QED
        BY <2>1, <2>2, <3>1
    <2>4. s = r
      BY <2>1, <2>2, <2>3, SeqEqual
    <2> QED
      BY <2>4 DEF s, r
  <1> QED
    BY <1>4, <1>5

\* The steps up to the entry of the SECURITY directory.
LEMMA DigHeaders ==
    ASSUME DigInv, Dig!Unsupported \/ Dig!HashToChecksum \/ Dig!HashToSecurity
    PROVE  DigInv'
  <1>1. PICK l \in Nat : l = lfanew
    BY DEF DigInv, DigTypes
  <1>2. CASE Dig!Unsupported
    BY <1>2 DEF DigInv, DigTypes, DigParts, Dig!Unsupported
  <1>3. CASE Dig!HashToChecksum
    <2>1. /\ pc = "start" /\ pc' = "security" /\ count' = 1
          /\ UNCHANGED <<lfanew, read, item, remaining>>
      BY <1>3 DEF Dig!HashToChecksum
    <2>2. kept = <<>> /\ cursor = 0
      BY <2>1 DEF DigInv, DigParts
    <2>3. Dig!OptionalHeader + 64 = l + 88
      BY <1>1 DEF Dig!OptionalHeader
    <2>4. /\ kept' = Append(<<>>, [first |-> 0, end |-> 0 + (l + 88)])
          /\ cursor' = 0 + (l + 88) + 4
      BY <1>3, <2>2, <2>3 DEF Dig!HashToChecksum, Dig!Add
    <2>5. kept' = <<Part(0, l + 88)>> /\ cursor' = l + 92
      BY <2>4 DEF Part
    <2> QED
      BY <1>1, <2>1, <2>5 DEF DigInv, DigTypes, DigParts, UpToChecksum
  <1>4. CASE Dig!HashToSecurity
    <2>1. /\ pc = "security" /\ pc' = "compare"
          /\ UNCHANGED <<lfanew, read, item, remaining, count>>
      BY <1>4 DEF Dig!HashToSecurity
    <2>2. kept = <<Part(0, l + 88)>> /\ cursor = l + 92
      BY <1>1, <2>1 DEF DigInv, DigParts, UpToChecksum
    <2>3. kept # <<>> /\ Len(kept) = 1 /\ kept[1].end # cursor
      BY <2>2 DEF Part
    <2>4. PICK z \in Nat : z = 60 + (IF read THEN 16 ELSE 0)
      BY DEF DigInv, DigTypes
    <2>5. kept' = Append(kept, Part(l + 92, l + 92 + z)) /\ cursor' = l + 92 + z + 8
      BY <1>4, <2>2, <2>3, <2>4 DEF Dig!HashToSecurity, Dig!Add, Part
    <2>6. PICK h \in Nat : h = Dig!HeaderEnd /\ h = l + 92 + z + 8
      BY <1>1, <2>4, DigHeaderEnd DEF DigInv, DigTypes
    <2>7. kept' = <<Part(0, l + 88), Part(l + 92, h - 8)>> /\ cursor' = h
      <3>1. l + 92 + z = h - 8
        BY <2>6
      <3>2. kept' = Append(<<Part(0, l + 88)>>, Part(l + 92, h - 8))
        BY <2>2, <2>5, <3>1
      <3> QED
        BY <2>5, <2>6, <3>2, DigAppend
    <2>8. (Dig!HeaderEnd)' = Dig!HeaderEnd
      BY <2>1 DEF Dig!HeaderEnd, Dig!OptionalHeader
    <2> QED
      BY <1>1, <2>1, <2>6, <2>7, <2>8 DEF DigInv, DigTypes, DigParts, UpToSecurity
  <1> QED
    BY <1>2, <1>3, <1>4

\* The certificate is in the header, or behind it.
LEMMA DigCompare ==
    ASSUME DigInv, Dig!CertificateInHeader \/ Dig!StartRest
    PROVE  DigInv'
  <1>1. PICK h \in Nat, c \in Nat, i \in Nat : h = Dig!HeaderEnd /\ c = cursor /\ i = item
    BY DigHeaderEnd DEF DigInv, DigTypes
  <1>2. pc = "compare" /\ UNCHANGED <<lfanew, read, item, cursor, kept, count>>
    BY DEF Dig!CertificateInHeader, Dig!StartRest
  <1>3. kept = UpToSecurity /\ c = h
    BY <1>1, <1>2 DEF DigInv, DigParts
  <1>4. (Dig!HeaderEnd)' = Dig!HeaderEnd /\ UpToSecurity' = UpToSecurity
    BY <1>2 DEF Dig!HeaderEnd, Dig!OptionalHeader, UpToSecurity
  <1>5. CASE Dig!CertificateInHeader
    <2>1. pc' = "done" /\ i < h /\ UNCHANGED remaining
      BY <1>1, <1>3, <1>5 DEF Dig!CertificateInHeader
    <2> QED
      BY <1>1, <1>2, <1>3, <1>4, <2>1 DEF DigInv, DigTypes, DigParts
  <1>6. CASE Dig!StartRest
    <2>1. pc' = "rest" /\ i >= c /\ remaining' = i - c
      BY <1>1, <1>6 DEF Dig!StartRest
    <2>2. remaining' \in Nat /\ c + remaining' = i
      BY <2>1
    <2> QED
      BY <1>1, <1>2, <1>3, <1>4, <2>1, <2>2 DEF DigInv, DigTypes, DigParts
  <1> QED
    BY <1>5, <1>6

\* A part of the rest is hashed.
LEMMA DigChunk ==
    ASSUME DigInv, Dig!HashChunk
    PROVE  DigInv'
  <1>1. PICK h \in Nat, c \in Nat, i \in Nat, r \in Nat, l \in Nat :
            /\ h = Dig!HeaderEnd /\ c = cursor /\ i = item /\ r = remaining /\ l = lfanew
    BY DigHeaderEnd DEF DigInv, DigTypes
  <1>2. pc = "rest" /\ UNCHANGED <<pc, lfanew, read, item, count>>
    BY DEF Dig!HashChunk
  <1>3. c + r = i
    BY <1>1, <1>2 DEF DigInv, DigParts
  <1>4. PICK n \in 1..(IF r < Chunk THEN r ELSE Chunk) :
           kept' = Dig!Add(n) /\ cursor' = c + n /\ remaining' = r - n
    BY <1>1 DEF Dig!HashChunk
  <1>5. n \in Nat /\ n > 0 /\ n <= r
    BY <1>4, DigestAssumption
  <1>6. /\ cursor' \in Nat /\ remaining' \in Nat /\ cursor' = c + n
        /\ cursor' + remaining' = i
    BY <1>3, <1>4, <1>5
  <1>7. (Dig!HeaderEnd)' = Dig!HeaderEnd
    BY <1>2 DEF Dig!HeaderEnd, Dig!OptionalHeader
  <1>8. kept' = <<Part(0, l + 88), Part(l + 92, h - 8), Part(h, c + n)>> /\ c + n > h
    <2>1. CASE kept = UpToSecurity /\ c = h
      <3>1. kept = <<Part(0, l + 88), Part(l + 92, h - 8)>>
        BY <1>1, <2>1 DEF UpToSecurity
      <3>2. kept # <<>> /\ Len(kept) = 2 /\ kept[2] = Part(l + 92, h - 8)
        BY <3>1
      <3>3. kept[2].end # cursor
        BY <1>1, <2>1, <3>2 DEF Part
      <3>4. kept' = Append(kept, Part(c, c + n))
        BY <1>1, <1>4, <3>2, <3>3 DEF Dig!Add, Part
      <3>5. kept' = Append(<<Part(0, l + 88), Part(l + 92, h - 8)>>, Part(h, c + n))
        BY <2>1, <3>1, <3>4
      <3> QED
        <4>1. Append(<<Part(0, l + 88), Part(l + 92, h - 8)>>, Part(h, c + n))
                = <<Part(0, l + 88), Part(l + 92, h - 8), Part(h, c + n)>>
          BY DigAppend, ZenonT(40)
        <4>2. c + n > h
          BY <1>5, <2>1
        <4> QED
          BY <3>5, <4>1, <4>2
    <2>2. CASE kept = UpTo(cursor) /\ c > h
      <3>1. kept = <<Part(0, l + 88), Part(l + 92, h - 8), Part(h, c)>>
        BY <1>1, <2>2 DEF UpTo
      <3>2. kept # <<>> /\ Len(kept) = 3 /\ kept[3] = Part(h, c)
        BY <3>1
      <3>3. kept[3].end = cursor
        BY <1>1, <3>2 DEF Part
      <3>4. kept' = [kept EXCEPT ![3].end = c + n]
        BY <1>1, <1>4, <3>2, <3>3 DEF Dig!Add
      <3> QED
        BY <1>5, <2>2, <3>1, <3>4, DigLonger
    <2> QED
      BY <1>1, <1>2, <2>1, <2>2 DEF DigInv, DigParts
  <1>9. (UpTo(cursor))' = <<Part(0, l + 88), Part(l + 92, h - 8), Part(h, c + n)>>
    BY <1>1, <1>2, <1>6, <1>7 DEF UpTo
  <1>10. DigTypes'
    BY <1>2, <1>6 DEF DigInv, DigTypes
  <1> QED
    BY <1>1, <1>2, <1>6, <1>7, <1>8, <1>9, <1>10 DEF DigInv, DigParts

\* The handle is closed.
LEMMA DigClose ==
    ASSUME DigInv, Dig!ReadFails \/ Dig!EndRest
    PROVE  DigInv'
  <1>1. /\ pc = "rest" /\ pc' = "done" /\ count' = 0
        /\ UNCHANGED <<lfanew, read, item, cursor, remaining, kept>>
    BY DEF Dig!ReadFails, Dig!EndRest
  <1>2. /\ (Dig!HeaderEnd)' = Dig!HeaderEnd /\ UpToSecurity' = UpToSecurity
        /\ (UpTo(cursor))' = UpTo(cursor)
    BY <1>1 DEF Dig!HeaderEnd, Dig!OptionalHeader, UpToSecurity, UpTo
  <1> QED
    BY <1>1, <1>2 DEF DigInv, DigTypes, DigParts

\* The ranges up to e, the ranges that hold a byte, and the bytes that are to be hashed.
DigShape(s, l, h, e) ==
    \/ s = <<Part(0, l + 88), Part(l + 92, h - 8)>> /\ e = h
    \/ s = <<Part(0, l + 88), Part(l + 92, h - 8), Part(h, e)>>
Holding(s, b) == {k \in DOMAIN s : b \in s[k].first..(s[k].end - 1)}
ToHash(b, l, h, e) == b < e /\ b \notin (l + 88)..(l + 91) \cup (h - 8)..(h - 1)

\* The ranges cover what is to be hashed, every byte once.
LEMMA DigCovered ==
    ASSUME NEW l \in Nat, NEW h \in Nat, h = l + 160 \/ h = l + 176,
           NEW e \in Nat, e >= h, NEW b \in Nat, NEW s, DigShape(s, l, h, e)
    PROVE  Cardinality(Holding(s, b)) = IF ToHash(b, l, h, e) THEN 1 ELSE 0
  <1>1. /\ 1 \in DOMAIN s /\ 2 \in DOMAIN s
        /\ DOMAIN s \subseteq {1, 2, 3} /\ (3 \notin DOMAIN s => e = h)
        /\ s[1] = Part(0, l + 88) /\ s[2] = Part(l + 92, h - 8)
        /\ 3 \in DOMAIN s => s[3] = Part(h, e)
    BY DEF DigShape
  <1>2. \A x, y : Part(x, y).first = x /\ Part(x, y).end = y
    BY DEF Part
  <1>3. /\ 1 \in Holding(s, b) <=> b \in 0..(l + 88 - 1)
        /\ 2 \in Holding(s, b) <=> b \in (l + 92)..(h - 8 - 1)
        /\ 3 \in Holding(s, b) <=> 3 \in DOMAIN s /\ b \in h..(e - 1)
    <2>1. \A k : k \in Holding(s, b) <=> k \in DOMAIN s /\ b \in s[k].first..(s[k].end - 1)
      BY Zenon DEF Holding
    <2>2. s[1].first = 0 /\ s[1].end = l + 88 /\ s[2].first = l + 92 /\ s[2].end = h - 8
      BY <1>1, <1>2
    <2>3. 3 \in DOMAIN s => s[3].first = h /\ s[3].end = e
      BY <1>1, <1>2
    <2> QED
      BY <1>1, <2>1, <2>2, <2>3
  <1>4. PICK K : K = Holding(s, b) /\ K \subseteq {1, 2, 3}
    <2>1. Holding(s, b) \subseteq {1, 2, 3}
      BY <1>1, Zenon DEF Holding
    <2> QED
      BY <2>1
  <1>5. Cardinality({}) = 0 /\ \A x : Cardinality({x}) = 1
    BY FS_EmptySet, FS_Singleton
  <1>6. CASE b < l + 88
    <2>1. 1 \in K /\ 2 \notin K /\ 3 \notin K
      BY <1>3, <1>4, <1>6
    <2>2. K = {1}
      BY <1>4, <2>1, Zenon
    <2>3. ToHash(b, l, h, e)
      BY <1>6 DEF ToHash
    <2> QED
      BY <1>4, <1>5, <2>2, <2>3, Zenon
  <1>7. CASE b >= l + 88 /\ b < l + 92
    <2>1. 1 \notin K /\ 2 \notin K /\ 3 \notin K
      BY <1>3, <1>4, <1>7
    <2>2. K = {}
      BY <1>4, <2>1
    <2>3. ~ToHash(b, l, h, e)
      BY <1>7 DEF ToHash
    <2> QED
      BY <1>4, <1>5, <2>2, <2>3, Zenon
  <1>8. CASE b >= l + 92 /\ b < h - 8
    <2>1. 1 \notin K /\ 2 \in K /\ 3 \notin K
      BY <1>3, <1>4, <1>8
    <2>2. K = {2}
      BY <1>4, <2>1, Zenon
    <2>3. ToHash(b, l, h, e)
      BY <1>8 DEF ToHash
    <2> QED
      BY <1>4, <1>5, <2>2, <2>3, Zenon
  <1>9. CASE b >= h - 8 /\ b < h
    <2>1. 1 \notin K /\ 2 \notin K /\ 3 \notin K
      BY <1>3, <1>4, <1>9
    <2>2. K = {}
      BY <1>4, <2>1
    <2>3. ~ToHash(b, l, h, e)
      BY <1>9 DEF ToHash
    <2> QED
      BY <1>4, <1>5, <2>2, <2>3, Zenon
  <1>10. CASE b >= h /\ b < e
    <2>1. 1 \notin K /\ 2 \notin K /\ 3 \in K
      BY <1>1, <1>3, <1>4, <1>10
    <2>2. K = {3}
      BY <1>4, <2>1, Zenon
    <2>3. ToHash(b, l, h, e)
      BY <1>10 DEF ToHash
    <2> QED
      BY <1>4, <1>5, <2>2, <2>3, Zenon
  <1>11. CASE b >= e
    <2>1. 1 \notin K /\ 2 \notin K /\ 3 \notin K
      BY <1>3, <1>4, <1>11
    <2>2. K = {}
      BY <1>4, <2>1
    <2>3. ~ToHash(b, l, h, e)
      BY <1>11 DEF ToHash
    <2> QED
      BY <1>4, <1>5, <2>2, <2>3, Zenon
  <1> QED
    BY <1>6, <1>7, <1>8, <1>9, <1>10, <1>11

\* DigInv holds throughout the function.
LEMMA DigAlways == Spec => []DigOK
  <1>1. Init => DigOK
    <2> SUFFICES ASSUME Dig!Init PROVE DigInv
      BY DEF Init, DigOK
    <2> QED
      BY HeaderAssumption, DigestAssumption DEF Dig!Init, DigInv, DigTypes, DigParts
  <1>2. DigOK /\ [Next]_vars => DigOK'
    <2> SUFFICES ASSUME DigOK, [Next]_vars, directory' = "digest"
                 PROVE  DigInv'
      BY DEF DigOK
    <2>1. DigInv /\ (Dig!Step \/ UNCHANGED vars)
      BY OneParser DEF DigOK
    <2>2. CASE Dig!Step
      BY <2>1, <2>2, DigHeaders, DigCompare, DigChunk, DigClose DEF Dig!Step
    <2>3. CASE UNCHANGED vars
      <3>1. UNCHANGED <<pc, lfanew, read, item, cursor, remaining, kept, count>>
        BY <2>3 DEF vars, tableVars, richVars
      <3>2. /\ (Dig!HeaderEnd)' = Dig!HeaderEnd /\ UpToSecurity' = UpToSecurity
            /\ (UpTo(cursor))' = UpTo(cursor) /\ UpToChecksum' = UpToChecksum
        BY <3>1 DEF Dig!HeaderEnd, Dig!OptionalHeader, UpToSecurity, UpTo, UpToChecksum
      <3> QED
        BY <2>1, <3>1, <3>2 DEF DigInv, DigTypes, DigParts
    <2> QED
      BY <2>1, <2>2, <2>3
  <1> QED
    BY <1>1, <1>2, PTL DEF Spec

\* Wherever the headers and the certificate are and however the reads are cut, the
\* authenticode digest is that of every byte before the certificate, each of them once
\* and in order, but for the Checksum and the entry of the SECURITY directory; and the
\* file is closed unless the certificate is in the headers (get_authenticode_hash,
\* pe_authenticode_digest.cpp:41-84).
THEOREM DigestIsWhole == Spec => []DigestCoversFile
  <1>1. DigOK => DigestCoversFile
    <2> SUFFICES ASSUME DigInv PROVE Dig!DigestCoversFile
      BY DEF DigOK, DigestCoversFile
    <2>1. PICK l \in Nat, h \in Nat, c \in Nat, i \in Nat, r \in Nat :
              l = lfanew /\ h = Dig!HeaderEnd /\ c = cursor /\ i = item /\ r = remaining
      BY DigHeaderEnd DEF DigInv, DigTypes
    <2>2. h = l + 160 \/ h = l + 176
      BY <2>1, DigHeaderEnd DEF DigInv, DigTypes
    <2>3. Dig!Excluded = (l + 88)..(l + 91) \cup (h - 8)..(h - 1)
      <3>1. CASE read
        BY <2>1, <3>1, DigHeaderEnd DEF Dig!Excluded, Dig!OptionalHeader, DigInv, DigTypes
      <3>2. CASE ~read
        BY <2>1, <3>2, DigHeaderEnd DEF Dig!Excluded, Dig!OptionalHeader, DigInv, DigTypes
      <3> QED
        BY <3>1, <3>2
    <2>4. pc = "done" /\ remaining = 0 /\ kept # <<>> /\ item >= Dig!HeaderEnd =>
              \A b \in 0..(kept[Len(kept)].end + item) :
                  Cardinality({k \in DOMAIN kept : b \in kept[k].first..(kept[k].end - 1)})
                      = IF b < item /\ b \notin Dig!Excluded THEN 1 ELSE 0
      <3>0. HAVE pc = "done" /\ remaining = 0 /\ kept # <<>> /\ item >= Dig!HeaderEnd
      <3>t. TAKE b \in 0..(kept[Len(kept)].end + item)
      <3>1. i >= h /\ r = 0
        BY <2>1, <3>0
      <3>2. \/ kept = UpToSecurity /\ c = h /\ c + r = i
            \/ kept = UpTo(cursor) /\ c > h /\ c + r = i
        BY <2>1, <3>0, <3>1 DEF DigInv, DigParts
      <3>3. DigShape(kept, l, h, i)
        BY <2>1, <3>1, <3>2 DEF DigShape, UpTo, UpToSecurity
      <3>4. b \in Nat
        OBVIOUS
      <3>5. Cardinality(Holding(kept, b)) = IF ToHash(b, l, h, i) THEN 1 ELSE 0
        BY <2>2, <3>1, <3>3, <3>4, DigCovered
      <3>6. ToHash(b, l, h, i) <=> b < item /\ b \notin Dig!Excluded
        BY <2>1, <2>3 DEF ToHash
      <3> QED
        BY <3>5, <3>6, Zenon DEF Holding
    <2>5. \A k \in 1..(Len(kept) - 1) : kept[k].end < kept[k + 1].first
      <3>1. \A x, y : Part(x, y).first = x /\ Part(x, y).end = y
        BY DEF Part
      <3>2. \/ kept = <<>>
            \/ kept = <<Part(0, l + 88)>>
            \/ kept = <<Part(0, l + 88), Part(l + 92, h - 8)>>
            \/ kept = <<Part(0, l + 88), Part(l + 92, h - 8), Part(h, c)>>
        BY <2>1 DEF DigInv, DigTypes, DigParts, UpTo, UpToSecurity, UpToChecksum
      <3>3. CASE kept = <<>> \/ kept = <<Part(0, l + 88)>>
        BY <3>3
      <3>4. CASE kept = <<Part(0, l + 88), Part(l + 92, h - 8)>>
        BY <3>1, <3>4
      <3>5. CASE kept = <<Part(0, l + 88), Part(l + 92, h - 8), Part(h, c)>>
        BY <2>2, <3>1, <3>5
      <3> QED
        BY <3>2, <3>3, <3>4, <3>5
    <2>6. pc = "done" /\ count # 0 => item < Dig!HeaderEnd
      BY DEF DigInv, DigParts
    <2>7. \A S : Dig!Cardinality(S) = Cardinality(S)
      BY DEF Dig!Cardinality, Cardinality
    <2> QED
      BY <2>4, <2>5, <2>6, <2>7, Zenon DEF Dig!DigestCoversFile
  <1> QED
    BY <1>1, DigAlways, PTL
-------------------------------------------------------------------------------
(* The debug directory.                                                    *)

\* A name that is being read.
DebugName == [width : {1, 2}, length : Nat, max : 0..(Wrap - 1), bytes : Nat]

\* The Length of the structure leaves room for a character at least.
HasRoom(n) == n.length > 12 + n.width - 1

DebugTypes ==
    /\ pc \in {"entry", "codeview", "misc", "name", "done", "failed"}
    /\ table \in Nat /\ cursor \in Nat /\ count \in Nat /\ left \in Nat
    /\ item \in DebugName
    /\ left <= DebugEnd /\ count <= table \div 28

\* The inductive invariant: while a structure is read, saved_offset is the place of
\* the next entry; and the bytes of a name and those the limit leaves are together
\* those that its Length gives to it.
DebugParts ==
    /\ pc = "entry" => cursor = 28 * count
    /\ pc \in {"codeview", "misc", "name"} => left = 28 * (count + 1) /\ count + 1 <= table \div 28
    /\ pc \in {"codeview", "misc"} => item.length = 0 /\ item.bytes = 0
    /\ pc = "name" =>
           /\ item.bytes <= cursor
           /\ HasRoom(item) => item.bytes + item.max = item.length - 12 /\ item.max >= item.width
    /\ HasRoom(item) => item.bytes <= item.length - 12
    /\ item.bytes <= DebugEnd

DebugInv == DebugTypes /\ DebugParts

DebugOK == directory = "debug" => DebugInv

\* The name of an entry that has none.
LEMMA DebugNoName ==
    /\ Debug!NoName \in DebugName /\ ~HasRoom(Debug!NoName)
    /\ Debug!NoName.bytes = 0 /\ Debug!NoName.length = 0
  BY WrapAssumption DEF Debug!NoName, DebugName, HasRoom

\* The limit of a name: the difference, unless it is negative.
LEMMA DebugLimit ==
    ASSUME NEW length \in 0..(Wrap - 1)
    PROVE  /\ Debug!MaxBytes(length) \in 0..(Wrap - 1)
           /\ length > 12 => Debug!MaxBytes(length) = length - 12
  <1>1. Debug!MaxBytes(length) = (length - 12) % Wrap
    BY DEF Debug!MaxBytes, Debug!MiscSize
  <1>2. \A x \in Int : x % Wrap \in 0..(Wrap - 1)
    BY WrapAssumption
  <1>3. length > 12 => length - 12 \in 0..(Wrap - 1)
    BY WrapAssumption
  <1> QED
    BY <1>1, <1>2, <1>3, NoWrap

\* One more character of a name.
OneMore(n) == [n EXCEPT !.bytes = @ + n.width, !.max = Debug!Left(n)]

\* A character takes its width from what the limit leaves.
LEMMA DebugCharacter ==
    ASSUME NEW n \in DebugName, NEW t, t = OneMore(n)
    PROVE  /\ t \in DebugName /\ t.bytes = n.bytes + n.width
           /\ t.width = n.width /\ t.length = n.length
           /\ (HasRoom(t) <=> HasRoom(n))
           /\ n.max >= n.width => t.max = n.max - n.width
           /\ n.max >= n.width /\ ~Debug!LimitReached(n) => n.max - n.width >= n.width
  <1>1. PICK w \in {1, 2}, l \in Nat, m \in 0..(Wrap - 1), b \in Nat :
            n = [width |-> w, length |-> l, max |-> m, bytes |-> b]
    BY DEF DebugName
  <1>2. n.width = w /\ n.length = l /\ n.max = m /\ n.bytes = b
    BY <1>1
  <1>3. \A x \in Int : x % Wrap \in 0..(Wrap - 1)
    BY WrapAssumption
  <1>4. PICK z \in 0..(Wrap - 1) : z = Debug!Left(n)
    <2>1. m - w \in Int /\ 0 \in 0..(Wrap - 1)
      BY WrapAssumption
    <2>2. (m - w) % Wrap \in 0..(Wrap - 1)
      BY <1>3, <2>1
    <2>3. Debug!Left(n) = IF m = 0 THEN 0 ELSE (m - w) % Wrap
      BY <1>2 DEF Debug!Left
    <2> QED
      BY <2>1, <2>2, <2>3
  <1>5. m >= w => z = m - w
    <2> SUFFICES ASSUME m >= w PROVE z = m - w
      OBVIOUS
    <2>1. m - w \in 0..(Wrap - 1) /\ m # 0
      BY WrapAssumption
    <2> QED
      BY <1>2, <1>4, <2>1, NoWrap DEF Debug!Left
  <1>6. t = [width |-> w, length |-> l, max |-> z, bytes |-> b + w]
    <2>1. t = [n EXCEPT !.bytes = b + w, !.max = z]
      BY <1>2, <1>4 DEF OneMore
    <2> QED
      BY <1>1, <2>1
  <1>7. t \in DebugName /\ t.bytes = b + w /\ t.width = w /\ t.length = l /\ t.max = z
    BY <1>6 DEF DebugName
  <1>8. m >= w /\ ~Debug!LimitReached(n) => m - w >= w
    <2> SUFFICES ASSUME m >= w, ~Debug!LimitReached(n) PROVE m - w >= w
      OBVIOUS
    <2>1. m # 0 /\ z = m - w
      BY <1>5
    <2>2. w = 1 => z # 0
      BY <1>2, <1>4, <2>1 DEF Debug!LimitReached
    <2>3. w = 2 => ~(z <= 1)
      BY <1>2, <1>4, <2>1 DEF Debug!LimitReached
    <2> QED
      BY <2>1, <2>2, <2>3
  <1> QED
    BY <1>2, <1>5, <1>7, <1>8 DEF HasRoom

\* The next entry of the directory.
LEMMA DebugReadEntry ==
    ASSUME DebugInv, Debug!ReadEntry
    PROVE  DebugInv'
  <1>1. PICK c \in Nat, k \in Nat, q \in Nat :
            c = cursor /\ k = count /\ q = table \div 28
    BY DEF DebugInv, DebugTypes
  <1>2. /\ pc = "entry" /\ k < q /\ c + 28 <= DebugEnd /\ c = 28 * k
        /\ left' = c + 28 /\ item' = Debug!NoName /\ UNCHANGED table
    BY <1>1 DEF Debug!ReadEntry, Debug!Readable, Debug!EntrySize, DebugInv, DebugParts
  <1>3. /\ left' \in Nat /\ left' <= DebugEnd /\ left' = 28 * (k + 1)
        /\ (table \div 28)' = q /\ k + 1 <= q
    BY <1>1, <1>2
  <1>4. /\ item' \in DebugName /\ ~HasRoom(item') /\ item'.bytes = 0 /\ item'.length = 0
        /\ DebugEnd \in Nat
    BY <1>2, DebugNoName, DebugAssumption
  <1>5. CASE /\ \E p \in DebugPointers : cursor' = p
             /\ pc' \in {"codeview", "misc"} /\ UNCHANGED count
    <2>1. cursor' \in Nat
      BY <1>5, DebugAssumption
    <2>2. DebugTypes'
      BY <1>1, <1>2, <1>3, <1>4, <1>5, <2>1 DEF DebugInv, DebugTypes
    <2> QED
      BY <1>1, <1>3, <1>4, <1>5, <2>2 DEF DebugInv, DebugParts
  <1>6. CASE cursor' = left' /\ count' = count + 1 /\ UNCHANGED pc
    <2>1. cursor' \in Nat /\ count' = k + 1 /\ count' \in Nat /\ count' <= q /\ cursor' = 28 * count'
      BY <1>1, <1>3, <1>6
    <2>2. DebugTypes'
      BY <1>1, <1>2, <1>3, <1>4, <1>6, <2>1 DEF DebugInv, DebugTypes
    <2> QED
      BY <1>2, <1>4, <1>6, <2>1, <2>2 DEF DebugInv, DebugParts
  <1> QED
    BY <1>5, <1>6 DEF Debug!ReadEntry

\* The function returns.
LEMMA DebugReturn ==
    ASSUME DebugInv,
           Debug!EntryFails \/ Debug!PdbFails \/ Debug!MiscFails \/ Debug!EndDirectory
    PROVE  DebugInv'
  <1>1. UNCHANGED <<table, count, left, item>> /\ pc' \in {"done", "failed"}
    BY DEF Debug!EntryFails, Debug!PdbFails, Debug!MiscFails, Debug!EndDirectory
  <1>2. Debug!Exhausted \in Nat /\ cursor + Debug!PdbSize \in Nat /\ cursor \in Nat
    BY DebugAssumption DEF DebugInv, DebugTypes, Debug!Exhausted, Debug!PdbSize
  <1>3. cursor' \in Nat
    BY <1>2 DEF Debug!EntryFails, Debug!PdbFails, Debug!MiscFails, Debug!EndDirectory
  <1> QED
    BY <1>1, <1>3 DEF DebugInv, DebugTypes, DebugParts

\* The structure of a CodeView entry.
LEMMA DebugReadPdb ==
    ASSUME DebugInv, Debug!ReadPdb
    PROVE  DebugInv'
  <1>1. /\ pc = "codeview" /\ pc' = "name" /\ UNCHANGED <<table, count, left, item>>
        /\ cursor' = cursor + 24
    BY DEF Debug!ReadPdb, Debug!PdbSize
  <1>2. cursor' \in Nat
    BY <1>1 DEF DebugInv, DebugTypes
  <1>3. item.length = 0 /\ item.bytes = 0 /\ item.width \in {1, 2}
    BY <1>1 DEF DebugInv, DebugTypes, DebugParts, DebugName
  <1>4. ~HasRoom(item) /\ item.bytes <= cursor'
    BY <1>2, <1>3 DEF HasRoom
  <1> QED
    BY <1>1, <1>2, <1>4 DEF DebugInv, DebugTypes, DebugParts

\* The structure of a MISC entry.
LEMMA DebugReadMisc ==
    ASSUME DebugInv, Debug!ReadMisc
    PROVE  DebugInv'
  <1>1. PICK c \in Nat, k \in Nat, q \in Nat, s \in Nat :
            c = cursor /\ k = count /\ q = table \div 28 /\ s = left
    BY DEF DebugInv, DebugTypes
  <1>2. pc = "misc" /\ UNCHANGED <<table, left>> /\ s = 28 * (k + 1) /\ k + 1 <= q
    BY <1>1 DEF Debug!ReadMisc, DebugInv, DebugParts
  <1>3. PICK length \in DebugLengths :
           \/ /\ \E w \in {1, 2} :
                     item' = [width |-> w, length |-> length,
                              max |-> Debug!MaxBytes(length), bytes |-> 0]
              /\ cursor' = cursor + 12 /\ pc' = "name" /\ UNCHANGED count
           \/ /\ cursor' = left /\ count' = count + 1 /\ pc' = "entry" /\ UNCHANGED item
    BY DEF Debug!ReadMisc, Debug!MiscSize
  <1>4. length \in 0..(Wrap - 1) /\ DebugEnd \in Nat
    BY DebugAssumption
  <1>5. CASE /\ cursor' = left /\ count' = count + 1 /\ pc' = "entry" /\ UNCHANGED item
    <2>1. cursor' = s /\ count' = k + 1
      BY <1>1, <1>5
    <2>2. cursor' \in Nat /\ count' \in Nat /\ count' <= q /\ cursor' = 28 * count'
      BY <1>2, <2>1
    <2> QED
      BY <1>1, <1>2, <1>5, <2>2 DEF DebugInv, DebugTypes, DebugParts
  <1>6. ASSUME NEW w \in {1, 2},
               item' = [width |-> w, length |-> length, max |-> Debug!MaxBytes(length), bytes |-> 0],
               cursor' = cursor + 12, pc' = "name", UNCHANGED count
        PROVE  DebugInv'
    <2>1. PICK m \in 0..(Wrap - 1) : m = Debug!MaxBytes(length) /\ (length > 12 => m = length - 12)
      BY <1>4, DebugLimit
    <2>2. /\ item' = [width |-> w, length |-> length, max |-> m, bytes |-> 0]
          /\ cursor' = c + 12 /\ cursor' \in Nat
      BY <1>1, <1>6, <2>1
    <2>3. /\ item' \in DebugName /\ item'.bytes = 0 /\ item'.max = m
          /\ item'.width = w /\ item'.length = length
      BY <1>4, <2>2 DEF DebugName
    <2>4. HasRoom(item') => 0 + m = length - 12 /\ m >= w /\ 0 <= length - 12
      BY <1>4, <2>1, <2>3 DEF HasRoom
    <2>5. DebugTypes'
      BY <1>2, <1>6, <2>2, <2>3 DEF DebugInv, DebugTypes
    <2> QED
      BY <1>1, <1>2, <1>4, <1>6, <2>2, <2>3, <2>4, <2>5 DEF DebugInv, DebugParts
  <1> QED
    BY <1>3, <1>5, <1>6

\* What a character adds to the bytes of a name that has room for it.
LEMMA DebugCharacterFits ==
    ASSUME DebugInv, pc = "name", Debug!Readable(item.width), NEW t, t = OneMore(item)
    PROVE  /\ t \in DebugName /\ t.bytes <= DebugEnd /\ t.bytes <= cursor + item.width
           /\ HasRoom(t) => t.bytes <= t.length - 12 /\ t.bytes + t.max = t.length - 12
           /\ HasRoom(t) /\ ~Debug!LimitReached(item) => t.max >= t.width
  <1>1. PICK w \in {1, 2}, l \in Nat, m \in Nat, b \in Nat, c \in Nat :
            w = item.width /\ l = item.length /\ m = item.max /\ b = item.bytes /\ c = cursor
    BY WrapAssumption DEF DebugInv, DebugTypes, DebugName
  <1>2. b <= c /\ c + w <= DebugEnd /\ DebugEnd \in Nat
    BY <1>1, DebugAssumption DEF DebugInv, DebugParts, Debug!Readable
  <1>3. /\ t \in DebugName /\ t.bytes = b + w /\ t.width = w /\ t.length = l
        /\ (HasRoom(t) <=> HasRoom(item))
        /\ m >= w => t.max = m - w
        /\ m >= w /\ ~Debug!LimitReached(item) => m - w >= w
    BY <1>1, DebugCharacter DEF DebugInv, DebugTypes
  <1>4. HasRoom(item) => b + m = l - 12 /\ m >= w
    BY <1>1 DEF DebugInv, DebugParts
  <1>5. t.bytes <= DebugEnd /\ t.bytes <= c + w
    BY <1>2, <1>3
  <1>6. HasRoom(t) => b + w <= l - 12 /\ (b + w) + (m - w) = l - 12
    BY <1>3, <1>4
  <1> QED
    BY <1>1, <1>3, <1>4, <1>5, <1>6

\* A character, or the end of a name.
LEMMA DebugCharacters ==
    ASSUME DebugInv, Debug!ReadCharacter \/ Debug!EndName
    PROVE  DebugInv'
  <1>1. PICK c \in Nat, k \in Nat, q \in Nat, s \in Nat :
            c = cursor /\ k = count /\ q = table \div 28 /\ s = left
    BY DEF DebugInv, DebugTypes
  <1>2. pc = "name" /\ UNCHANGED <<table, left>> /\ s = 28 * (k + 1) /\ k + 1 <= q
    BY <1>1 DEF Debug!ReadCharacter, Debug!EndName, DebugInv, DebugParts
  <1>3. CASE Debug!ReadCharacter
    <2>1. /\ Debug!Readable(item.width) /\ ~Debug!LimitReached(item)
          /\ cursor' = cursor + item.width /\ UNCHANGED <<pc, count>>
      BY <1>3 DEF Debug!ReadCharacter
    <2>2. item' = OneMore(item)
      BY <1>3 DEF Debug!ReadCharacter, OneMore
    <2>3. /\ item' \in DebugName /\ item'.bytes <= DebugEnd /\ item'.bytes <= cursor'
          /\ HasRoom(item') => item'.bytes <= item'.length - 12 /\ item'.bytes + item'.max = item'.length - 12
          /\ HasRoom(item') => item'.max >= item'.width
      BY <1>2, <2>1, <2>2, DebugCharacterFits
    <2>4. cursor' \in Nat
      <3>1. item.width \in Nat
        BY DEF DebugInv, DebugTypes, DebugName
      <3> QED
        BY <1>1, <2>1, <3>1
    <2>5. DebugTypes'
      BY <1>2, <2>1, <2>3, <2>4 DEF DebugInv, DebugTypes
    <2> QED
      BY <1>1, <1>2, <2>1, <2>3, <2>5 DEF DebugInv, DebugParts
  <1>4. CASE Debug!EndName
    <2>1. cursor' = left /\ count' = count + 1 /\ pc' = "entry"
      BY <1>4 DEF Debug!EndName
    <2>2. cursor' \in Nat /\ count' \in Nat /\ count' <= q /\ cursor' = 28 * count'
      <3>1. cursor' = s /\ count' = k + 1
        BY <1>1, <2>1
      <3> QED
        BY <1>2, <3>1
    <2>3. \/ UNCHANGED item
          \/ Debug!Readable(item.width) /\ item' = OneMore(item)
      BY <1>4 DEF Debug!EndName, OneMore
    <2>4. /\ item' \in DebugName /\ item'.bytes <= DebugEnd
          /\ HasRoom(item') => item'.bytes <= item'.length - 12
      <3>1. CASE UNCHANGED item
        BY <3>1 DEF DebugInv, DebugTypes, DebugParts
      <3>2. CASE Debug!Readable(item.width) /\ item' = OneMore(item)
        BY <1>2, <3>2, DebugCharacterFits
      <3> QED
        BY <2>3, <3>1, <3>2
    <2>5. DebugTypes'
      BY <1>1, <1>2, <2>1, <2>2, <2>4 DEF DebugInv, DebugTypes
    <2> QED
      BY <2>1, <2>2, <2>4, <2>5 DEF DebugInv, DebugParts
  <1> QED
    BY <1>3, <1>4

\* DebugInv holds throughout the function.
LEMMA DebugAlways == Spec => []DebugOK
  <1>1. Init => DebugOK
    <2> SUFFICES ASSUME Debug!Init PROVE DebugInv
      BY DEF Init, DebugOK
    <2>1. pc = "entry" /\ cursor = 0 /\ count = 0 /\ left = 0 /\ item = Debug!NoName
      BY DEF Debug!Init
    <2>2. table \in Nat /\ DebugEnd \in Nat
      BY DebugAssumption DEF Debug!Init
    <2>3. 0 <= table \div 28
      BY <2>2
    <2> QED
      BY <2>1, <2>2, <2>3, DebugNoName DEF DebugInv, DebugTypes, DebugParts
  <1>2. DebugOK /\ [Next]_vars => DebugOK'
    <2> SUFFICES ASSUME DebugOK, [Next]_vars, directory' = "debug"
                 PROVE  DebugInv'
      BY DEF DebugOK
    <2>1. DebugInv /\ (Debug!Step \/ UNCHANGED vars)
      BY OneParser DEF DebugOK
    <2>2. CASE Debug!Step
      BY <2>1, <2>2, DebugReadEntry, DebugReturn, DebugReadPdb, DebugReadMisc, DebugCharacters
         DEF Debug!Step
    <2>3. CASE UNCHANGED vars
      <3>1. UNCHANGED <<pc, table, cursor, count, left, item>>
        BY <2>3 DEF vars, tableVars
      <3> QED
        BY <2>1, <3>1 DEF DebugInv, DebugTypes, DebugParts
    <2> QED
      BY <2>1, <2>2, <2>3
  <1> QED
    BY <1>1, <1>2, PTL DEF Spec

\* For every size of the debug directory and whatever its entries point to, each of them
\* is read from its place, and the name of a MISC entry is no longer than its Length says
\* if that leaves room for a character (_parse_debug, pe.cpp:443-498).
THEOREM DebugAlwaysInStep == Spec => []DebugInStep
  <1>1. DebugOK => DebugInStep
    <2> SUFFICES ASSUME DebugInv PROVE Debug!EntriesInStep /\ Debug!NameWithinLength
      BY DEF DebugOK, DebugInStep
    <2>1. Debug!EntriesInStep
      BY DEF DebugInv, DebugParts, Debug!EntriesInStep, Debug!EntrySize
    <2>2. Debug!NameWithinLength
      BY DEF DebugInv, DebugParts, HasRoom, Debug!NameWithinLength, Debug!MiscSize
    <2> QED
      BY <2>1, <2>2
  <1> QED
    BY <1>1, DebugAlways, PTL
-------------------------------------------------------------------------------
(* Version information.                                                    *)

VerTypes ==
    /\ pc \in {"version", "fixed", "info", "string_file_info", "table", "strings",
               "done", "failed"}
    /\ lfanew \in VersionStart /\ cursor \in Nat
    /\ table \in [start : Nat, length : Nat]
    /\ remaining \in 0..(LengthWrap - 1) /\ count \in 0..(LengthWrap - 1)
    /\ item \in 0..(LengthWrap - 1) \cup {-1}

\* The next structure can be read, and it is not at a multiple of 4.
Askew == cursor % 4 # 0 /\ cursor + 6 <= VersionEnd

\* The inductive invariant: nothing has been skipped before the VarFileInfo, and a
\* structure that is not at a multiple of 4 is one that cannot be read any more.
VerParts ==
    /\ pc \in {"version", "fixed", "info"} => count = 0
    /\ pc = "strings" /\ remaining > 0 => cursor + remaining = table.start + table.length
    /\ /\ pc \notin {"done", "failed"} /\ ~(pc = "strings" /\ remaining = 0)
       /\ lfanew % 4 = 0 /\ count % 4 = 0
       => ~Askew

VerInv == VerTypes /\ VerParts

VerOK == directory = "version" => VerInv

\* Multiples of 4.
LEMMA TwoFours ==
    ASSUME NEW a \in Nat, NEW b \in Nat, a % 4 = 0, b % 4 = 0
    PROVE  (a + b) % 4 = 0
  OBVIOUS

\* A structure and its padding, for a key that ends at an even place.
LEMMA Padded ==
    ASSUME NEW c \in Nat, c % 4 = 0, NEW k \in Nat, k % 2 = 0
    PROVE  (c + 6 + k + ((c + 6 + k) % 4)) % 4 = 0
  <1>1. PICK a \in Nat : c = 4 * a
    <2>1. c = 4 * (c \div 4) /\ c \div 4 \in Nat
      OBVIOUS
    <2> QED
      BY <2>1
  <1>2. PICK d \in Nat : k = 2 * d
    <2>1. k = 2 * (k \div 2) /\ k \div 2 \in Nat
      OBVIOUS
    <2> QED
      BY <2>1
  <1>3. c + 6 + k = 4 * a + 2 * d + 6
    BY <1>1, <1>2
  <1> QED
    BY <1>3

\* Where parse_version_info_header leaves the cursor.
LEMMA VerHeader ==
    ASSUME cursor \in Nat, NEW after \in Ver!HeaderEnds
    PROVE  /\ after \in Nat /\ after >= cursor /\ cursor + 6 <= VersionEnd
           /\ cursor % 4 = 0 => after % 4 = 0 \/ after + 6 > VersionEnd
  <1>1. PICK c \in Nat : c = cursor
    OBVIOUS
  <1>2. VersionEnd \in Nat
    BY VersionAssumption
  <1>3. /\ c + 6 <= VersionEnd
        /\ \E k \in KeyBytes :
              after = (IF c + 6 + k > VersionEnd THEN VersionEnd ELSE c + 6 + k)
                      + Ver!Padding(IF c + 6 + k > VersionEnd THEN VersionEnd ELSE c + 6 + k)
    BY <1>1, <1>2 DEF Ver!HeaderEnds, Ver!HeaderSize
  <1>4. PICK k \in Nat :
              /\ k % 2 = 0
              /\ after = (IF c + 6 + k > VersionEnd THEN VersionEnd ELSE c + 6 + k)
                      + Ver!Padding(IF c + 6 + k > VersionEnd THEN VersionEnd ELSE c + 6 + k)
    BY <1>3, VersionAssumption
  <1>5. PICK e \in Nat : /\ e = (IF c + 6 + k > VersionEnd THEN VersionEnd ELSE c + 6 + k)
                         /\ after = e + (e % 4)
    BY <1>2, <1>4 DEF Ver!Padding
  <1>6. e % 4 \in Nat /\ e >= c
    BY <1>2, <1>3, <1>5
  <1>7. after \in Nat /\ after >= c
    BY <1>5, <1>6
  <1>8. ASSUME c % 4 = 0 PROVE after % 4 = 0 \/ after + 6 > VersionEnd
    <2>1. CASE c + 6 + k > VersionEnd
      BY <1>2, <1>5, <1>6, <2>1
    <2>2. CASE ~(c + 6 + k > VersionEnd)
      <3>1. e = c + 6 + k
        BY <1>5, <2>2
      <3> QED
        BY <1>4, <1>5, <1>8, <3>1, Padded, ZenonT(40)
    <2> QED
      BY <2>1, <2>2
  <1> QED
    BY <1>1, <1>3, <1>7, <1>8

\* A length that is rounded is a multiple of 4, as 2^16 is one.
LEMMA RoundedUp ==
    ASSUME NEW l \in 0..(LengthWrap - 1)
    PROVE  Ver!Rounded(l) \in 0..(LengthWrap - 1) /\ Ver!Rounded(l) % 4 = 0
  <1>1. LengthWrap \in Nat /\ LengthWrap > 0 /\ LengthWrap % 4 = 0
    BY LengthAssumption
  <1>2. PICK v \in Nat : LengthWrap = 4 * v /\ v > 0
    <2>1. LengthWrap = 4 * (LengthWrap \div 4) /\ LengthWrap \div 4 \in Nat
      BY <1>1
    <2> QED
      BY <1>1, <2>1
  <1>3. PICK u \in Nat : u = l + ((4 - l) % 4)
    <2>1. l \in Nat /\ (4 - l) % 4 \in Nat
      BY <1>1
    <2> QED
      BY <2>1
  <1>4. PICK a \in Nat : u = 4 * a /\ u <= LengthWrap
    <2>1. u % 4 = 0
      BY <1>3
    <2>2. u = 4 * (u \div 4) /\ u \div 4 \in Nat
      BY <2>1
    <2>3. u < l + 4 /\ l < 4 * v
      BY <1>2, <1>3
    <2> QED
      BY <1>2, <2>2, <2>3
  <1>5. Ver!Rounded(l) = u % LengthWrap
    BY <1>3 DEF Ver!Rounded
  <1>6. CASE u < LengthWrap
    <2>1. u % LengthWrap = u
      BY <1>1, <1>6
    <2> QED
      BY <1>1, <1>4, <1>5, <1>6, <2>1
  <1>7. CASE u = LengthWrap
    <2>1. u % LengthWrap = 0
      BY <1>1, <1>7
    <2> QED
      BY <1>1, <1>5, <2>1
  <1>8. u < LengthWrap \/ u = LengthWrap
    BY <1>1, <1>4
  <1> QED
    BY <1>6, <1>7, <1>8

\* The cursor is moved behind a header, or behind the fixed information: what follows is
\* not askew if the header was not.
LEMMA VerHeaderRead ==
    ASSUME VerInv, Ver!ReadVersion \/ Ver!ReadFixedInfo \/ Ver!ReadStringFileInfo
    PROVE  VerInv'
  <1>1. /\ pc \in {"version", "fixed", "info", "string_file_info"}
        /\ pc' \in {"fixed", "info", "table"}
        /\ pc \notin {"version", "fixed"} => pc' = "table"
        /\ UNCHANGED <<lfanew, table, remaining, item, count>>
    BY DEF Ver!ReadVersion, Ver!ReadFixedInfo, Ver!ReadStringFileInfo
  <1>2. PICK c \in Nat : c = cursor
    BY DEF VerInv, VerTypes
  <1>3. VersionEnd \in Nat
    BY VersionAssumption
  <1>4. cursor' \in Ver!HeaderEnds \/ (cursor' = c + 52 /\ c + 52 <= VersionEnd)
    BY <1>2 DEF Ver!ReadVersion, Ver!ReadFixedInfo, Ver!ReadStringFileInfo, Ver!FixedInfoSize
  <1>5. PICK d \in Nat :
            /\ d = cursor' /\ c + 6 <= VersionEnd
            /\ c % 4 = 0 => d % 4 = 0 \/ d + 6 > VersionEnd
    <2>1. CASE cursor' \in Ver!HeaderEnds
      BY <1>2, <2>1, VerHeader
    <2>2. CASE cursor' = c + 52 /\ c + 52 <= VersionEnd
      <3>1. c % 4 = 0 => (c + 52) % 4 = 0
        OBVIOUS
      <3>2. c + 6 <= VersionEnd
        BY <1>3, <2>2
      <3> QED
        BY <2>2, <3>1, <3>2
    <2> QED
      BY <1>4, <2>1, <2>2
  <1>6. ~Askew => c % 4 = 0
    BY <1>2, <1>5 DEF Askew
  <1>7. Askew' => ~(d % 4 = 0 \/ d + 6 > VersionEnd)
    <2>1. Askew' => d % 4 # 0 /\ d + 6 <= VersionEnd
      BY <1>5 DEF Askew
    <2>2. d + 6 <= VersionEnd => ~(d + 6 > VersionEnd)
      BY <1>3
    <2> QED
      BY <2>1, <2>2
  <1>8. lfanew % 4 = 0 /\ count % 4 = 0 => ~Askew'
    <2>1. lfanew % 4 = 0 /\ count % 4 = 0 => ~Askew
      BY <1>1 DEF VerInv, VerParts
    <2>2. c % 4 = 0 => ~Askew'
      BY <1>5, <1>7
    <2> QED
      BY <1>6, <2>1, <2>2
  <1>9. pc' \in {"fixed", "info"} => count = 0
    BY <1>1 DEF VerInv, VerParts
  <1> QED
    BY <1>1, <1>5, <1>8, <1>9 DEF VerInv, VerTypes, VerParts

\* The VarFileInfo is skipped.
LEMMA VerSkip ==
    ASSUME VerInv, Ver!SkipVarFileInfo
    PROVE  VerInv'
  <1>1. /\ pc = "info" /\ pc' = "string_file_info"
        /\ UNCHANGED <<lfanew, table, remaining, item>>
    BY DEF Ver!SkipVarFileInfo
  <1>2. PICK c \in Nat : c = cursor
    BY DEF VerInv, VerTypes
  <1>3. PICK after \in Ver!HeaderEnds, l \in 0..(LengthWrap - 1) :
            cursor' = c + l /\ count' = l
    BY <1>2 DEF Ver!SkipVarFileInfo, Ver!Lengths
  <1>4. c + 6 <= VersionEnd
    BY <1>2, VerHeader
  <1>5. l \in Nat /\ LengthWrap \in Nat
    BY LengthAssumption
  <1>6. cursor' \in Nat
    BY <1>3, <1>5
  <1>7. lfanew % 4 = 0 => c % 4 = 0
    <2>1. count = 0
      BY <1>1 DEF VerInv, VerParts
    <2>2. count % 4 = 0
      BY <2>1
    <2> QED
      BY <1>1, <1>2, <1>4, <2>2 DEF VerInv, VerParts, Askew
  <1>8. c % 4 = 0 /\ l % 4 = 0 => (c + l) % 4 = 0
    BY <1>5
  <1>9. lfanew % 4 = 0 /\ count' % 4 = 0 => ~Askew'
    BY <1>3, <1>7, <1>8 DEF Askew
  <1> QED
    BY <1>1, <1>3, <1>6, <1>9 DEF VerInv, VerTypes, VerParts

\* The header of the string table.
LEMMA VerTableHeader ==
    ASSUME VerInv, Ver!ReadTableHeader
    PROVE  VerInv'
  <1>1. pc = "table" /\ pc' = "strings" /\ UNCHANGED <<lfanew, item, count>>
    BY DEF Ver!ReadTableHeader
  <1>2. PICK c \in Nat : c = cursor
    BY DEF VerInv, VerTypes
  <1>3. PICK after \in Ver!HeaderEnds, l \in 0..(LengthWrap - 1) :
            /\ l >= after - c /\ table' = [start |-> c, length |-> l]
            /\ remaining' = l - (after - c) /\ cursor' = after
    BY <1>2 DEF Ver!ReadTableHeader, Ver!Lengths
  <1>4. /\ after \in Nat /\ after >= c /\ c + 6 <= VersionEnd
        /\ c % 4 = 0 => after % 4 = 0 \/ after + 6 > VersionEnd
    BY <1>2, VerHeader
  <1>5. l \in Nat /\ LengthWrap \in Nat /\ VersionEnd \in Nat
    BY LengthAssumption, VersionAssumption
  <1>6. /\ remaining' \in 0..(LengthWrap - 1) /\ cursor' \in Nat
        /\ after + (l - (after - c)) = c + l
    BY <1>3, <1>4, <1>5
  <1>7. /\ table' \in [start : Nat, length : Nat]
        /\ cursor' + remaining' = table'.start + table'.length
    BY <1>3, <1>5, <1>6
  <1>8. lfanew % 4 = 0 /\ count % 4 = 0 => c % 4 = 0
    BY <1>1, <1>2, <1>4 DEF VerInv, VerParts, Askew
  <1>9. lfanew % 4 = 0 /\ count % 4 = 0 => ~Askew'
    BY <1>3, <1>4, <1>5, <1>8 DEF Askew
  <1> QED
    BY <1>1, <1>6, <1>7, <1>9 DEF VerInv, VerTypes, VerParts

\* A string.
LEMMA VerReadString ==
    ASSUME VerInv, Ver!ReadString
    PROVE  VerInv'
  <1>1. /\ pc = "strings" /\ remaining > 0 /\ Ver!HeaderEnds # {}
        /\ UNCHANGED <<pc, lfanew, table, count>>
    BY DEF Ver!ReadString
  <1>2. PICK c \in Nat, r \in Nat, s \in Nat, z \in Nat :
            c = cursor /\ r = remaining /\ s = table.start /\ z = table.length
    BY LengthAssumption DEF VerInv, VerTypes
  <1>3. c + 6 <= VersionEnd
    BY <1>1, <1>2, VerHeader
  <1>4. PICK l \in 0..(LengthWrap - 1) :
            /\ item' = Ver!Rounded(l)
            /\ IF item' < r THEN remaining' = r - item' /\ cursor' = c + item'
               ELSE remaining' = 0 /\ UNCHANGED cursor
    BY <1>2 DEF Ver!ReadString, Ver!Lengths
  <1>5. PICK u \in 0..(LengthWrap - 1) : u = item' /\ u % 4 = 0
    BY <1>4, RoundedUp
  <1>6. u \in Nat /\ LengthWrap \in Nat /\ r <= LengthWrap - 1
    BY <1>2, LengthAssumption DEF VerInv, VerTypes
  <1>7. c + r = s + z
    BY <1>1, <1>2 DEF VerInv, VerParts
  <1>8. lfanew % 4 = 0 /\ count % 4 = 0 => c % 4 = 0
    BY <1>1, <1>2, <1>3 DEF VerInv, VerParts, Askew
  <1>9. CASE u < r
    <2>1. remaining' = r - u /\ cursor' = c + u
      BY <1>4, <1>5, <1>9
    <2>2. /\ remaining' \in 0..(LengthWrap - 1) /\ cursor' \in Nat
          /\ cursor' + remaining' = s + z
      BY <1>6, <1>7, <1>9, <2>1
    <2>3. c % 4 = 0 => (c + u) % 4 = 0
      BY <1>5, <1>6, TwoFours
    <2>4. lfanew % 4 = 0 /\ count % 4 = 0 => ~Askew'
      BY <1>8, <2>1, <2>3 DEF Askew
    <2> QED
      BY <1>1, <1>2, <1>5, <2>2, <2>4 DEF VerInv, VerTypes, VerParts
  <1>10. CASE ~(u < r)
    <2>1. remaining' = 0 /\ UNCHANGED cursor
      BY <1>4, <1>5, <1>10
    <2>2. remaining' \in 0..(LengthWrap - 1) /\ ~(remaining' > 0)
      BY <1>6, <2>1
    <2>3. VerTypes'
      BY <1>1, <1>5, <2>1, <2>2 DEF VerInv, VerTypes
    <2>4. VerParts'
      BY <1>1, <2>1, <2>2 DEF VerParts
    <2> QED
      BY <2>3, <2>4 DEF VerInv
  <1> QED
    BY <1>9, <1>10

\* Nothing changes but where the function is.
LEMMA VerReturn ==
    ASSUME VerInv, Ver!Fail \/ Ver!EndStrings \/ Ver!ReadSameString
    PROVE  VerInv'
  <1>1. /\ UNCHANGED <<lfanew, cursor, table, remaining, item, count>>
        /\ pc' \in {"failed", "done"} \/ UNCHANGED pc
    BY DEF Ver!Fail, Ver!EndStrings, Ver!ReadSameString, Ver!vars
  <1> QED
    BY <1>1 DEF VerInv, VerTypes, VerParts, Askew

\* VerInv holds throughout the function.
LEMMA VerAlways == Spec => []VerOK
  <1>1. Init => VerOK
    <2> SUFFICES ASSUME Ver!Init PROVE VerInv
      BY DEF Init, VerOK
    <2>1. /\ pc = "version" /\ lfanew \in VersionStart /\ cursor = lfanew
          /\ table = [start |-> 0, length |-> 0]
          /\ remaining = 0 /\ item = -1 /\ count = 0
      BY DEF Ver!Init
    <2>2. cursor \in Nat /\ 0 \in 0..(LengthWrap - 1)
      BY <2>1, VersionAssumption, LengthAssumption
    <2> QED
      BY <2>1, <2>2 DEF VerInv, VerTypes, VerParts, Askew
  <1>2. VerOK /\ [Next]_vars => VerOK'
    <2> SUFFICES ASSUME VerOK, [Next]_vars, directory' = "version"
                 PROVE  VerInv'
      BY DEF VerOK
    <2>1. VerInv /\ (Ver!Step \/ UNCHANGED vars)
      BY OneParser DEF VerOK
    <2>2. CASE Ver!Step
      BY <2>1, <2>2, VerHeaderRead, VerSkip, VerTableHeader, VerReadString, VerReturn
         DEF Ver!Step
    <2>3. CASE UNCHANGED vars
      <3>1. UNCHANGED <<pc, lfanew, cursor, table, remaining, item, count>>
        BY <2>3 DEF vars, tableVars, richVars
      <3> QED
        BY <2>1, <3>1 DEF VerInv, VerTypes, VerParts, Askew
    <2> QED
      BY <2>1, <2>2, <2>3
  <1> QED
    BY <1>1, <1>2, PTL DEF Spec

\* For all lengths in a version resource and all its keys, bytes_remaining and the cursor
\* agree on the end of the string table, and every structure that is read starts at a
\* multiple of 4 if the resource does and the VarFileInfo, if one is skipped, is a multiple
\* of 4 long (Resource::interpret_as, resources.cpp:471-613).
THEOREM VersionStringsAlwaysInStep == Spec => []VersionStringsInStep
  <1>1. VerOK => VersionStringsInStep
    <2> SUFFICES ASSUME VerInv PROVE Ver!StringsInStep
      BY DEF VerOK, VersionStringsInStep
    <2>1. cursor \in Nat /\ VersionEnd \in Nat
      BY VersionAssumption DEF VerInv, VerTypes
    <2>2. ~Askew => cursor % 4 = 0 \/ cursor + 6 > VersionEnd
      BY <2>1 DEF Askew
    <2>3. cursor + 6 > VersionEnd => Ver!HeaderEnds = {}
      BY DEF Ver!HeaderEnds, Ver!HeaderSize
    <2> QED
      BY <2>2, <2>3 DEF VerInv, VerParts, Ver!StringsInStep
  <1> QED
    BY <1>1, VerAlways, PTL
-------------------------------------------------------------------------------
(* The resource directory.                                                 *)

\* The inductive invariant: offsets are those of blocks, a block holds what it may
\* hold, only what fits the file is in the list, and no place twice.
ResTypes ==
    /\ pc \in {"root", "walk", "raw", "done", "failed"}
    /\ cursor \in Nat
    /\ pc \in {"root", "walk"} => cursor <= Blocks + 1
    /\ header \in Seq(0..Blocks) /\ read \in Seq(0..Blocks) /\ item \in Seq(0..Blocks)
    /\ DOMAIN file \subseteq 0..Blocks /\ DOMAIN values \subseteq 0..Blocks
    /\ \A b \in DOMAIN file : file[b] \in Res!Directories
    /\ \A b \in DOMAIN values : values[b] \in Res!Data
    /\ kept \in Seq(Places)
    /\ table \in [open : Nat, refused : Nat]

ResParts ==
    /\ \A j, k \in DOMAIN kept : j # k => kept[j] # kept[k]
    /\ table.open = table.refused

ResInv == ResTypes /\ ResParts

ResOK == directory = "resources" => ResInv

\* A directory that is not broken has offsets of blocks.
LEMMA ResOffsets ==
    ASSUME NEW c \in Res!Directories, c # Res!Broken
    PROVE  c \in Seq(0..Blocks)
  <1>1. PICK n \in 0..MaxEntries : c \in [1..n -> 0..Blocks]
    BY DEF Res!Directories
  <1>2. n \in Nat
    BY ResourceAssumption
  <1> QED
    BY <1>1, <1>2, SeqDef, Zenon

\* What is learnt of a block.
LEMMA ResLearn ==
    ASSUME NEW f, NEW B, DOMAIN f \subseteq B, NEW S, \A x \in DOMAIN f : f[x] \in S,
           NEW b \in B, NEW c \in S
    PROVE  /\ DOMAIN Res!Learn(f, b, c) \subseteq B
           /\ \A x \in DOMAIN Res!Learn(f, b, c) : Res!Learn(f, b, c)[x] \in S
  BY DEF Res!Learn

\* A directory is read.
LEMMA ResReadDirectory ==
    ASSUME ResTypes, NEW b \in 0..(Blocks + 1), NEW c \in Res!Directories,
           Res!ReadDirectory(b, c)
    PROVE  /\ cursor' \in Nat /\ cursor' <= Blocks + 1
           /\ DOMAIN file' \subseteq 0..Blocks
           /\ \A x \in DOMAIN file' : file'[x] \in Res!Directories
  <1>1. Res!Unknown = Blocks + 1 /\ Blocks \in Nat
    BY ResourceAssumption DEF Res!Unknown
  <1>2. cursor' \in Nat /\ cursor' <= Blocks + 1
    BY <1>1 DEF Res!ReadDirectory
  <1>3. CASE b = Blocks + 1
    BY <1>1, <1>2, <1>3 DEF Res!ReadDirectory, ResTypes
  <1>4. CASE b # Blocks + 1
    <2>1. b \in 0..Blocks
      BY <1>1, <1>4
    <2>2. file' = Res!Learn(file, b, c)
      BY <1>1, <1>4 DEF Res!ReadDirectory
    <2>3. DOMAIN file \subseteq 0..Blocks /\ \A x \in DOMAIN file : file[x] \in Res!Directories
      BY DEF ResTypes
    <2> QED
      BY <1>2, <2>1, <2>2, <2>3, ResLearn
  <1> QED
    BY <1>3, <1>4

\* Where a directory is read.
LEMMA ResBlock ==
    ASSUME ResTypes, pc = "walk", NEW s \in Seq(0..Blocks), s # <<>>
    PROVE  Res!Block(Head(s)) \in 0..(Blocks + 1) /\ Tail(s) \in Seq(0..Blocks) /\ Head(s) \in 0..Blocks
  <1>1. Head(s) \in 0..Blocks /\ Tail(s) \in Seq(0..Blocks)
    BY HeadTailProperties
  <1>2. Blocks \in Nat /\ cursor \in Nat /\ cursor <= Blocks + 1
    BY ResourceAssumption DEF ResTypes
  <1> QED
    BY <1>1, <1>2 DEF Res!Block

\* The steps that read a directory.
LEMMA ResDirectories ==
    ASSUME ResInv, Res!ReadRoot \/ Res!ReadType \/ Res!ReadName
    PROVE  ResInv'
  <1>1. /\ UNCHANGED <<values, kept, table>> /\ pc \in {"root", "walk"}
        /\ pc' \in {"walk", "failed"}
    BY DEF Res!ReadRoot, Res!ReadType, Res!ReadName
  <1>2. <<>> \in Seq(0..Blocks)
    OBVIOUS
  <1>3. /\ cursor' \in Nat /\ cursor' <= Blocks + 1
        /\ DOMAIN file' \subseteq 0..Blocks
        /\ \A x \in DOMAIN file' : file'[x] \in Res!Directories
        /\ header' \in Seq(0..Blocks) /\ read' \in Seq(0..Blocks) /\ item' \in Seq(0..Blocks)
    <2>1. CASE Res!ReadRoot
      <3>1. PICK c \in Res!Directories :
               /\ Res!ReadDirectory(0, c)
               /\ IF c = Res!Broken THEN UNCHANGED header ELSE header' = c
        BY <2>1 DEF Res!ReadRoot
      <3>2. 0 \in 0..(Blocks + 1)
        BY ResourceAssumption
      <3>3. UNCHANGED <<read, item>>
        BY <2>1 DEF Res!ReadRoot
      <3>4. header' \in Seq(0..Blocks) /\ read \in Seq(0..Blocks) /\ item \in Seq(0..Blocks)
        BY <3>1, ResOffsets DEF ResInv, ResTypes
      <3> QED
        BY <3>1, <3>2, <3>3, <3>4, ResReadDirectory DEF ResInv
    <2>2. CASE Res!ReadType
      <3>1. PICK c \in Res!Directories :
               /\ Res!ReadDirectory(Res!Block(Head(header)), c)
               /\ read' = IF c = Res!Broken THEN <<>> ELSE c
        BY <2>2 DEF Res!ReadType
      <3>2. /\ UNCHANGED item /\ header' = Tail(header) /\ header # <<>> /\ pc = "walk"
            /\ header \in Seq(0..Blocks) /\ item \in Seq(0..Blocks)
        BY <2>2 DEF Res!ReadType, ResInv, ResTypes
      <3>3. Res!Block(Head(header)) \in 0..(Blocks + 1) /\ header' \in Seq(0..Blocks)
        BY <3>2, ResBlock DEF ResInv
      <3>4. read' \in Seq(0..Blocks)
        BY <1>2, <3>1, ResOffsets
      <3> QED
        BY <3>1, <3>2, <3>3, <3>4, ResReadDirectory DEF ResInv
    <2>3. CASE Res!ReadName
      <3>1. PICK c \in Res!Directories :
               /\ Res!ReadDirectory(Res!Block(Head(read)), c)
               /\ item' = IF c = Res!Broken THEN <<>> ELSE c
        BY <2>3 DEF Res!ReadName
      <3>2. /\ UNCHANGED header /\ read' = Tail(read) /\ read # <<>> /\ pc = "walk"
            /\ read \in Seq(0..Blocks) /\ header \in Seq(0..Blocks)
        BY <2>3 DEF Res!ReadName, ResInv, ResTypes
      <3>3. Res!Block(Head(read)) \in 0..(Blocks + 1) /\ read' \in Seq(0..Blocks)
        BY <3>2, ResBlock DEF ResInv
      <3>4. item' \in Seq(0..Blocks)
        BY <1>2, <3>1, ResOffsets
      <3> QED
        BY <3>1, <3>2, <3>3, <3>4, ResReadDirectory DEF ResInv
    <2> QED
      BY <2>1, <2>2, <2>3
  <1> QED
    BY <1>1, <1>3 DEF ResInv, ResTypes, ResParts

\* A data entry is read.
LEMMA ResReadDataEntry ==
    ASSUME ResInv, Res!ReadDataEntry
    PROVE  ResInv'
  <1>1. /\ pc = "walk" /\ item # <<>> /\ item' = Tail(item) /\ cursor' = Blocks + 1
        /\ UNCHANGED <<pc, file, header, read, table>>
    BY DEF Res!ReadDataEntry, Res!Unknown
  <1>2. PICK d \in Res!Contents(values, Head(item), Res!Data) :
           /\ values' = Res!Learn(values, Head(item), d)
           /\ kept' = IF Res!Kept(d) /\ d \notin Res!Range(kept) THEN Append(kept, d) ELSE kept
    BY DEF Res!ReadDataEntry
  <1>3. Head(item) \in 0..Blocks /\ item' \in Seq(0..Blocks)
    BY <1>1, ResBlock DEF ResInv, ResTypes
  <1>4. d \in Res!Data
    BY <1>2 DEF ResInv, ResTypes, Res!Contents
  <1>5. DOMAIN values' \subseteq 0..Blocks /\ \A b \in DOMAIN values' : values'[b] \in Res!Data
    <2>1. DOMAIN values \subseteq 0..Blocks /\ \A b \in DOMAIN values : values[b] \in Res!Data
      BY DEF ResInv, ResTypes
    <2> QED
      BY <1>2, <1>3, <1>4, <2>1, ResLearn
  <1>6. kept' \in Seq(Places) /\ \A j, k \in DOMAIN kept' : j # k => kept'[j] # kept'[k]
    <2>1. kept \in Seq(Places) /\ \A j, k \in DOMAIN kept : j # k => kept[j] # kept[k]
      BY DEF ResInv, ResTypes, ResParts
    <2>2. CASE Res!Kept(d) /\ d \notin Res!Range(kept)
      <3>1. d \in Places /\ \A k \in DOMAIN kept : kept[k] # d
        BY <2>2 DEF Res!Kept, Res!Range
      <3>2. PICK n \in Nat : n = Len(kept)
        BY <2>1
      <3>3. /\ kept' \in Seq(Places) /\ DOMAIN kept' = 1..(n + 1) /\ kept'[n + 1] = d
            /\ \A k \in 1..n : kept'[k] = kept[k]
        BY <1>2, <2>1, <2>2, <3>1, <3>2
      <3>4. DOMAIN kept = 1..n /\ \A k \in 1..(n + 1) : k \in 1..n \/ k = n + 1
        BY <2>1, <3>2
      <3> QED
        BY <2>1, <3>1, <3>3, <3>4
    <2>3. CASE ~(Res!Kept(d) /\ d \notin Res!Range(kept))
      BY <1>2, <2>1, <2>3
    <2> QED
      BY <2>2, <2>3
  <1>7. cursor' \in Nat /\ cursor' <= Blocks + 1
    BY <1>1, ResourceAssumption
  <1> QED
    BY <1>1, <1>3, <1>5, <1>6, <1>7 DEF ResInv, ResTypes, ResParts

\* A data entry fails, or the walk ends.
LEMMA ResWalkEnds ==
    ASSUME ResInv, Res!DataEntryFails \/ Res!EndWalk \/ Res!EndRawData
    PROVE  ResInv'
  <1>1. <<>> \in Seq(0..Blocks)
    OBVIOUS
  <1>2. CASE Res!DataEntryFails
    <2>1. /\ pc = "walk" /\ item # <<>> /\ item' = <<>> /\ read' = <<>> /\ header' = <<>>
          /\ values' = Res!Learn(values, Head(item), "cut_off")
          /\ UNCHANGED <<pc, cursor, file, kept, table>>
      BY <1>2 DEF Res!DataEntryFails
    <2>2. Head(item) \in 0..Blocks
      BY <2>1, ResBlock DEF ResInv, ResTypes
    <2>3. DOMAIN values \subseteq 0..Blocks /\ \A b \in DOMAIN values : values[b] \in Res!Data
      BY DEF ResInv, ResTypes
    <2>4. "cut_off" \in Res!Data
      BY DEF Res!Data
    <2>5. DOMAIN values' \subseteq 0..Blocks /\ \A b \in DOMAIN values' : values'[b] \in Res!Data
      BY <2>1, <2>2, <2>3, <2>4, ResLearn
    <2> QED
      BY <1>1, <2>1, <2>5 DEF ResInv, ResTypes, ResParts
  <1>3. CASE Res!EndWalk
    BY <1>3 DEF Res!EndWalk, ResInv, ResTypes, ResParts
  <1>4. CASE Res!EndRawData
    BY <1>4 DEF Res!EndRawData, ResInv, ResTypes, ResParts
  <1> QED
    BY <1>2, <1>3, <1>4

\* One more allocation that is refused.
OneRefused(s) == [s EXCEPT !.open = @ + 1, !.refused = @ + 1]

\* It is counted twice.
LEMMA ResRefused ==
    ASSUME NEW s \in [open : Nat, refused : Nat], s.open = s.refused, NEW t, t = OneRefused(s)
    PROVE  t \in [open : Nat, refused : Nat] /\ t.open = t.refused
  <1>1. PICK o \in Nat, r \in Nat : s = [open |-> o, refused |-> r]
    OBVIOUS
  <1>2. s.open = o /\ s.refused = r /\ o = r
    BY <1>1
  <1>3. t = [s EXCEPT !.open = o + 1, !.refused = r + 1]
    BY <1>2 DEF OneRefused
  <1>4. t = [open |-> o + 1, refused |-> r + 1]
    BY <1>1, <1>3
  <1>5. t \in [open : Nat, refused : Nat] /\ t.open = o + 1 /\ t.refused = r + 1
    BY <1>4
  <1> QED
    BY <1>2, <1>5

\* The bytes of a resource are read.
LEMMA ResGetRawData ==
    ASSUME ResInv, Res!GetRawData
    PROVE  ResInv'
  <1>1. /\ pc = "raw" /\ cursor < Len(kept) /\ cursor' = cursor + 1
        /\ UNCHANGED <<pc, file, values, header, read, item, kept>>
    BY DEF Res!GetRawData
  <1>2. PICK c \in Nat, n \in Nat : c = cursor /\ n = Len(kept) /\ c < n
    <2>1. kept \in Seq(Places) /\ cursor \in Nat
      BY DEF ResInv, ResTypes
    <2>2. Len(kept) \in Nat
      BY <2>1
    <2> QED
      BY <1>1, <2>1, <2>2
  <1>3. cursor' \in Nat /\ cursor' \in 1..n
    BY <1>1, <1>2
  <1>4. kept[cursor'] \in Places
    BY <1>2, <1>3, ElementOf DEF ResInv, ResTypes
  <1>5. kept[cursor'] # "unfit"
    BY <1>4, ResourceAssumption
  <1>6. table' = table \/ table' = [table EXCEPT !.open = @ + 1, !.refused = @ + 1]
    BY <1>5 DEF Res!GetRawData
  <1>7. table' \in [open : Nat, refused : Nat] /\ table'.open = table'.refused
    <2>1. table \in [open : Nat, refused : Nat] /\ table.open = table.refused
      BY DEF ResInv, ResTypes, ResParts
    <2>2. CASE table' = table
      BY <2>1, <2>2
    <2>3. CASE table' = OneRefused(table)
      BY <2>1, <2>3, ResRefused
    <2> QED
      BY <1>6, <2>2, <2>3 DEF OneRefused
  <1> QED
    BY <1>1, <1>3, <1>7 DEF ResInv, ResTypes, ResParts

\* ResInv holds throughout the function.
LEMMA ResAlways == Spec => []ResOK
  <1>1. Init => ResOK
    <2> SUFFICES ASSUME Res!Init PROVE ResInv
      BY DEF Init, ResOK
    <2>1. <<>> \in Seq(0..Blocks) /\ <<>> \in Seq(Places)
      OBVIOUS
    <2> QED
      BY <2>1, ResourceAssumption DEF Res!Init, ResInv, ResTypes, ResParts
  <1>2. ResOK /\ [Next]_vars => ResOK'
    <2> SUFFICES ASSUME ResOK, [Next]_vars, directory' = "resources"
                 PROVE  ResInv'
      BY DEF ResOK
    <2>1. ResInv /\ (Res!Step \/ UNCHANGED vars)
      BY OneParser DEF ResOK
    <2>2. CASE Res!Step
      BY <2>1, <2>2, ResDirectories, ResReadDataEntry, ResWalkEnds, ResGetRawData DEF Res!Step
    <2>3. CASE UNCHANGED vars
      <3>1. UNCHANGED <<pc, cursor, file, values, header, read, item, kept, table>>
        BY <2>3 DEF vars, tableVars, richVars
      <3> QED
        BY <2>1, <3>1 DEF ResInv, ResTypes, ResParts
    <2> QED
      BY <2>1, <2>2, <2>3
  <1> QED
    BY <1>1, <1>2, PTL DEF Spec

\* What the invariant says of the list.
LEMMA ResListed ==
    ASSUME ResInv
    PROVE  Res!ListedOnce /\ Res!FilesAreClosed
  <1>1. kept \in Seq(Places) /\ \A j, k \in DOMAIN kept : j # k => kept[j] # kept[k]
    BY DEF ResInv, ResTypes, ResParts
  <1>2. Res!Range(kept) \subseteq Places
    BY <1>1 DEF Res!Range
  <1> QED
    BY <1>1, <1>2 DEF Res!ListedOnce, Res!FilesAreClosed, ResInv, ResParts

\* For every resource directory, one whose entries lead in circles or into the middle of
\* others included, no place of the file is listed as a resource twice, nothing that does
\* not fit the file is listed, and for that reason get_raw_data leaves no file open unless
\* an allocation is refused (_parse_resources, resources.cpp:114-257, and
\* Resource::get_raw_data, resources.cpp:263-305).
THEOREM ResourcesAreListedOnce ==
    Spec => [](directory = "resources" => Res!ListedOnce /\ Res!FilesAreClosed)
  <1>1. ResOK => (directory = "resources" => Res!ListedOnce /\ Res!FilesAreClosed)
    <2> SUFFICES ASSUME ResOK, directory = "resources"
                 PROVE  Res!ListedOnce /\ Res!FilesAreClosed
      OBVIOUS
    <2>1. ResInv
      BY DEF ResOK
    <2> QED
      BY <2>1, ResListed
  <1> QED
    BY <1>1, ResAlways, PTL
-------------------------------------------------------------------------------
(* The resource directory: the list that the tree defines.                 *)

\* A function on the first numbers is a sequence.
LEMMA IsSequence ==
    ASSUME NEW S, NEW n \in Nat, NEW s \in [1..n -> S]
    PROVE  s \in Seq(S) /\ Len(s) = n
  <1>1. s \in Seq(S)
    BY SeqDef, Zenon
  <1>2. Len(s) \in Nat /\ 1..Len(s) = 1..n
    BY <1>1, LenProperties
  <1> QED
    BY <1>1, <1>2

\* What is joined to what.
LEMMA JoinedIs ==
    ASSUME NEW A, NEW s \in Seq(A), NEW t \in Seq(A)
    PROVE  /\ Joined(s, t) \in Seq(A) /\ Len(Joined(s, t)) = Len(s) + Len(t)
           /\ \A i \in 1..(Len(s) + Len(t)) :
                  Joined(s, t)[i] = IF i <= Len(s) THEN s[i] ELSE t[i - Len(s)]
           /\ Joined(s, <<>>) = s /\ Joined(<<>>, s) = s
  BY ConcatProperties, ConcatEmptySeq DEF Joined

LEMMA JoinedThrice ==
    ASSUME NEW A, NEW s \in Seq(A), NEW t \in Seq(A), NEW u \in Seq(A)
    PROVE  Joined(Joined(s, t), u) = Joined(s, Joined(t, u))
  BY ConcatAssociative DEF Joined

\* The pieces that the prefixes of a sequence are joined from determine them.
LEMMA PrefixesAgree ==
    ASSUME NEW A, NEW n \in Nat, NEW m \in Nat, n <= m, NEW s, NEW w, NEW f, NEW g,
           Prefixes(f, s, A, n), Prefixes(g, w, A, m), \A k \in 1..n : w[k] = s[k]
    PROVE  f[n] = g[n]
  <1> DEFINE S == {k \in Nat : k <= n => f[k] = g[k]}
  <1>1. 0 \in S
    BY DEF Prefixes
  <1>2. ASSUME NEW k \in S PROVE k + 1 \in S
    <2> SUFFICES ASSUME k + 1 <= n PROVE f[k + 1] = g[k + 1]
      OBVIOUS
    <2>1. k + 1 \in 1..n /\ k + 1 \in 1..m /\ (k + 1) - 1 = k /\ f[k] = g[k]
      OBVIOUS
    <2>2. f[k + 1] = Joined(f[k], s[k + 1])
      BY <2>1 DEF Prefixes
    <2>3. g[k + 1] = Joined(g[k], w[k + 1])
      BY <2>1 DEF Prefixes
    <2> QED
      BY <2>1, <2>2, <2>3
  <1> HIDE DEF S
  <1>3. S \in SUBSET Nat /\ \A k \in S : k + 1 \in S
    BY <1>2 DEF S
  <1>4. S = Nat
    BY <1>1, <1>3, Induction
  <1> QED
    BY <1>4 DEF S

\* A sequence of pieces that consists of two, of n and of m pieces.
TwoPieces(w, s, t, A, n, m) ==
    /\ \A k \in 1..n : w[k] = s[k]
    /\ \A k \in 1..m : w[n + k] = t[k]
    /\ \A k \in 1..m : t[k] \in Seq(A)

LEMMA PrefixesSplit ==
    ASSUME NEW A, NEW n \in Nat, NEW m \in Nat, NEW s, NEW t, NEW w, NEW f, NEW g, NEW h,
           Prefixes(f, s, A, n), Prefixes(g, t, A, m), Prefixes(h, w, A, n + m),
           TwoPieces(w, s, t, A, n, m)
    PROVE  h[n + m] = Joined(f[n], g[m])
  <1> USE DEF TwoPieces
  <1>1. f[n] \in Seq(A) /\ \A k \in 0..m : g[k] \in Seq(A)
    BY DEF Prefixes
  <1> DEFINE S == {k \in Nat : k <= m => h[n + k] = Joined(f[n], g[k])}
  <1>2. 0 \in S
    <2>1. f[n] = h[n]
      BY PrefixesAgree
    <2>2. g[0] = <<>> /\ n + 0 = n
      BY DEF Prefixes
    <2>3. Joined(f[n], <<>>) = f[n]
      BY <1>1, JoinedIs
    <2> QED
      BY <2>1, <2>2, <2>3
  <1>3. ASSUME NEW k \in S PROVE k + 1 \in S
    <2> SUFFICES ASSUME k + 1 <= m PROVE h[n + (k + 1)] = Joined(f[n], g[k + 1])
      OBVIOUS
    <2>1. /\ k \in 0..m /\ k + 1 \in 1..m /\ (k + 1) - 1 = k /\ h[n + k] = Joined(f[n], g[k])
          /\ n + (k + 1) \in 1..(n + m) /\ (n + (k + 1)) - 1 = n + k
      OBVIOUS
    <2> HIDE DEF S
    <2>2. h[n + (k + 1)] = Joined(h[n + k], w[n + (k + 1)])
      BY <2>1 DEF Prefixes
    <2>3. w[n + (k + 1)] = t[k + 1] /\ t[k + 1] \in Seq(A) /\ g[k] \in Seq(A)
      BY <1>1, <2>1
    <2>4. g[k + 1] = Joined(g[k], t[k + 1])
      BY <2>1 DEF Prefixes
    <2>5. Joined(Joined(f[n], g[k]), t[k + 1]) = Joined(f[n], Joined(g[k], t[k + 1]))
      BY <1>1, <2>3, JoinedThrice
    <2> QED
      BY <2>1, <2>2, <2>3, <2>4, <2>5
  <1> HIDE DEF S
  <1>4. S \in SUBSET Nat /\ \A k \in S : k + 1 \in S
    BY <1>3 DEF S
  <1>5. S = Nat
    BY <1>2, <1>4, Induction
  <1> QED
    BY <1>5 DEF S

\* FlattenSeq of two sequences, one after the other, and of one sequence.
LEMMA FlattenSplit ==
    ASSUME NEW A, NEW s \in Seq(Seq(A)), NEW t \in Seq(Seq(A))
    PROVE  /\ Res!FlattenSeq(s) \in Seq(A)
           /\ Res!FlattenSeq(Joined(s, t)) = Joined(Res!FlattenSeq(s), Res!FlattenSeq(t))
  <1>1. \A z : Res!FlattenSeq(z) = Imp!FlattenSeq(z)
    BY DEF Res!FlattenSeq, Imp!FlattenSeq
  <1>2. PICK n \in Nat, m \in Nat : n = Len(s) /\ m = Len(t)
    OBVIOUS
  <1>3. PICK w : w = Joined(s, t)
    OBVIOUS
  <1>4. /\ w \in Seq(Seq(A)) /\ Len(w) = n + m
        /\ \A k \in 1..n : w[k] = s[k]
        /\ \A k \in 1..m : w[n + k] = t[k]
    <2>1. /\ w \in Seq(Seq(A)) /\ Len(w) = n + m
          /\ \A i \in 1..(n + m) : w[i] = IF i <= n THEN s[i] ELSE t[i - n]
      BY <1>2, <1>3, JoinedIs, ZenonT(60)
    <2>2. \A k \in 1..n : k \in 1..(n + m) /\ k <= n
      OBVIOUS
    <2>3. \A k \in 1..m : n + k \in 1..(n + m) /\ ~(n + k <= n) /\ (n + k) - n = k
      OBVIOUS
    <2> QED
      BY <2>1, <2>2, <2>3
  <1>5. PICK f : Prefixes(f, s, A, n) /\ Imp!FlattenSeq(s) = f[n]
    BY <1>2, FlattenIsLast
  <1>6. PICK g : Prefixes(g, t, A, m) /\ Imp!FlattenSeq(t) = g[m]
    BY <1>2, FlattenIsLast
  <1>7. PICK h : Prefixes(h, w, A, n + m) /\ Imp!FlattenSeq(w) = h[n + m]
    BY <1>4, FlattenIsLast
  <1>8. \A k \in 1..m : t[k] \in Seq(A)
    BY <1>2
  <1>9. h[n + m] = Joined(f[n], g[m])
    <2>1. Prefixes(f, s, A, n) /\ Prefixes(g, t, A, m) /\ Prefixes(h, w, A, n + m)
      BY <1>5, <1>6, <1>7
    <2>2. TwoPieces(w, s, t, A, n, m)
      BY <1>4, <1>8 DEF TwoPieces
    <2> QED
      BY <2>1, <2>2, PrefixesSplit
  <1>10. f[n] \in Seq(A)
    BY <1>5 DEF Prefixes
  <1> QED
    BY <1>1, <1>3, <1>5, <1>6, <1>7, <1>9, <1>10

\* FlattenSeq of one piece, and of none.
LEMMA FlattenOne ==
    ASSUME NEW A, NEW x \in Seq(A)
    PROVE  Res!FlattenSeq(<<x>>) = x /\ Res!FlattenSeq(<<>>) = <<>>
  <1>1. \A z : Res!FlattenSeq(z) = Imp!FlattenSeq(z)
    BY DEF Res!FlattenSeq, Imp!FlattenSeq
  <1>2. PICK s \in Seq(Seq(A)) : s = <<x>> /\ Len(s) = 1 /\ s[1] = x
    <2>1. <<x>> \in Seq(Seq(A)) /\ Len(<<x>>) = 1 /\ <<x>>[1] = x
      OBVIOUS
    <2> QED
      BY <2>1
  <1>3. PICK f : Prefixes(f, s, A, 1) /\ Imp!FlattenSeq(s) = f[1]
    BY <1>2, FlattenIsLast
  <1>4. f[1] = Joined(f[1 - 1], s[1]) /\ 1 - 1 = 0 /\ f[0] = <<>>
    BY <1>3 DEF Prefixes
  <1>5. f[1] = Joined(<<>>, x)
    BY <1>2, <1>4
  <1>6. f[1] = x
    BY <1>5, JoinedIs
  <1>7. Imp!FlattenSeq(<<>>) = <<>>
    <2>1. Len(<<>>) = 0
      OBVIOUS
    <2> QED
      BY <2>1 DEF Imp!FlattenSeq
  <1> QED
    BY <1>1, <1>2, <1>3, <1>6, <1>7

\* The offsets of directories other than the root.
Off == 1..Blocks

\* Directories that are known, none of which has an entry of offset 0.
Plain(f) ==
    /\ DOMAIN f \subseteq 0..Blocks
    /\ \A b \in DOMAIN f : f[b] \in Res!Directories /\ \A k \in DOMAIN f[b] : f[b][k] # 0

\* Entries and Below, of what is known in f.
EntriesIn(f, b) == IF b \in DOMAIN f /\ f[b] # Res!Broken THEN f[b] ELSE <<>>
PiecesIn(f, s) == [k \in DOMAIN s |-> EntriesIn(f, s[k])]
BelowIn(f, s) == Res!FlattenSeq(PiecesIn(f, s))

LEMMA EntriesTyped ==
    ASSUME NEW f, Plain(f), NEW b
    PROVE  EntriesIn(f, b) \in Seq(Off)
  <1>1. <<>> \in Seq(Off)
    OBVIOUS
  <1>2. CASE b \in DOMAIN f /\ f[b] # Res!Broken
    <2>1. f[b] \in Seq(0..Blocks) /\ \A k \in DOMAIN f[b] : f[b][k] # 0
      BY <1>2, ResOffsets DEF Plain
    <2>2. PICK s \in Seq(0..Blocks) : s = f[b] /\ \A k \in DOMAIN s : s[k] # 0
      BY <2>1
    <2>3. PICK n \in Nat : n = Len(s) /\ DOMAIN s = 1..n /\ s \in [1..n -> 0..Blocks]
      BY LenProperties
    <2>4. ASSUME NEW k \in 1..n PROVE s[k] \in Off
      <3>1. s[k] \in 0..Blocks /\ s[k] # 0 /\ Blocks \in Nat
        BY <2>2, <2>3, ResourceAssumption
      <3> QED
        BY <3>1 DEF Off
    <2>5. s \in [1..n -> Off]
      <3>1. s = [k \in 1..n |-> s[k]]
        BY <2>3
      <3> QED
        BY <2>4, <3>1, Zenon
    <2> QED
      BY <1>2, <2>2, <2>5, IsSequence DEF EntriesIn
  <1> QED
    BY <1>1, <1>2 DEF EntriesIn

\* The lists of entries that a list of offsets leads to.
LEMMA PiecesTyped ==
    ASSUME NEW f, Plain(f), NEW s \in Seq(Off)
    PROVE  /\ PiecesIn(f, s) \in Seq(Seq(Off)) /\ Len(PiecesIn(f, s)) = Len(s)
           /\ \A k \in 1..Len(s) : PiecesIn(f, s)[k] = EntriesIn(f, s[k])
  <1>1. PICK n \in Nat : n = Len(s) /\ DOMAIN s = 1..n
    BY LenProperties
  <1>2. PICK g : g = PiecesIn(f, s)
    OBVIOUS
  <1>3. g = [k \in 1..n |-> EntriesIn(f, s[k])]
    BY <1>1, <1>2 DEF PiecesIn
  <1>4. \A k \in 1..n : EntriesIn(f, s[k]) \in Seq(Off)
    BY EntriesTyped
  <1>5. g \in [1..n -> Seq(Off)]
    BY <1>3, <1>4, Zenon
  <1>6. g \in Seq(Seq(Off)) /\ Len(g) = n
    BY <1>5, IsSequence
  <1>7. \A k \in 1..n : g[k] = EntriesIn(f, s[k])
    BY <1>3
  <1> QED
    BY <1>1, <1>2, <1>6, <1>7

\* What is below two lists of offsets.
LEMMA BelowJoined ==
    ASSUME NEW f, Plain(f), NEW s \in Seq(Off), NEW t \in Seq(Off)
    PROVE  /\ BelowIn(f, s) \in Seq(Off)
           /\ BelowIn(f, Joined(s, t)) = Joined(BelowIn(f, s), BelowIn(f, t))
  <1>1. PICK p, q : p = PiecesIn(f, s) /\ q = PiecesIn(f, t)
    OBVIOUS
  <1>2. PICK n \in Nat, m \in Nat : n = Len(s) /\ m = Len(t)
    OBVIOUS
  <1>3. /\ p \in Seq(Seq(Off)) /\ Len(p) = n /\ \A k \in 1..n : p[k] = EntriesIn(f, s[k])
        /\ q \in Seq(Seq(Off)) /\ Len(q) = m /\ \A k \in 1..m : q[k] = EntriesIn(f, t[k])
    BY <1>1, <1>2, PiecesTyped
  <1>4. PICK w : w = Joined(s, t)
    OBVIOUS
  <1>5. /\ w \in Seq(Off) /\ Len(w) = n + m
        /\ \A i \in 1..(n + m) : w[i] = IF i <= n THEN s[i] ELSE t[i - n]
    BY <1>2, <1>4, JoinedIs, ZenonT(60)
  <1>6. PICK e : e = PiecesIn(f, w)
    OBVIOUS
  <1>7. /\ e \in Seq(Seq(Off)) /\ Len(e) = n + m
        /\ \A i \in 1..(n + m) : e[i] = EntriesIn(f, w[i])
    BY <1>5, <1>6, PiecesTyped
  <1>8. PICK j : j = Joined(p, q)
    OBVIOUS
  <1>9. /\ j \in Seq(Seq(Off)) /\ Len(j) = n + m
        /\ \A i \in 1..(n + m) : j[i] = IF i <= n THEN p[i] ELSE q[i - n]
    BY <1>3, <1>8, JoinedIs, ZenonT(60)
  <1>10. ASSUME NEW i \in 1..(n + m) PROVE e[i] = j[i]
    <2>1. CASE i <= n
      <3>1. i \in 1..n /\ w[i] = s[i] /\ j[i] = p[i]
        BY <1>2, <1>5, <1>9, <2>1
      <3> QED
        BY <1>3, <1>7, <3>1
    <2>2. CASE ~(i <= n)
      <3>1. i - n \in 1..m /\ w[i] = t[i - n] /\ j[i] = q[i - n]
        BY <1>5, <1>9, <2>2
      <3> QED
        BY <1>3, <1>7, <3>1
    <2> QED
      BY <2>1, <2>2
  <1>11. e = j
    BY <1>7, <1>9, <1>10, SeqEqual
  <1>12. Res!FlattenSeq(j) = Joined(Res!FlattenSeq(p), Res!FlattenSeq(q))
    BY <1>3, <1>8, FlattenSplit
  <1>13. Res!FlattenSeq(p) \in Seq(Off)
    BY <1>3, FlattenSplit
  <1> QED
    BY <1>1, <1>4, <1>6, <1>11, <1>12, <1>13 DEF BelowIn

LEMMA BelowAppend ==
    ASSUME NEW f, Plain(f), NEW s \in Seq(Off), NEW b \in Off
    PROVE  BelowIn(f, Append(s, b)) = Joined(BelowIn(f, s), EntriesIn(f, b))
  <1>1. PICK t \in Seq(Off) : t = <<b>> /\ Len(t) = 1 /\ t[1] = b
    <2>1. <<b>> \in Seq(Off) /\ Len(<<b>>) = 1 /\ <<b>>[1] = b
      OBVIOUS
    <2> QED
      BY <2>1
  <1>2. Append(s, b) = Joined(s, t)
    BY <1>1, AppendIsConcat DEF Joined
  <1>3. PICK x \in Seq(Off) : x = EntriesIn(f, b)
    BY EntriesTyped
  <1>4. PiecesIn(f, t) = <<x>>
    <2>1. PICK p : p = PiecesIn(f, t)
      OBVIOUS
    <2>2. p \in Seq(Seq(Off)) /\ Len(p) = 1 /\ p[1] = x
      <3>1. /\ p \in Seq(Seq(Off)) /\ Len(p) = Len(t)
            /\ \A k \in 1..Len(t) : p[k] = EntriesIn(f, t[k])
        BY <2>1, PiecesTyped
      <3>2. 1 \in 1..1
        OBVIOUS
      <3> QED
        BY <1>1, <1>3, <3>1, <3>2
    <2>3. <<x>> \in Seq(Seq(Off)) /\ Len(<<x>>) = 1 /\ <<x>>[1] = x
      OBVIOUS
    <2>4. \A i \in 1..1 : p[i] = <<x>>[i]
      BY <2>2, <2>3
    <2>5. p = <<x>>
      BY <2>2, <2>3, <2>4, SeqEqual
    <2> QED
      BY <2>1, <2>5
  <1>5. BelowIn(f, t) = x
    BY <1>4, FlattenOne DEF BelowIn
  <1> QED
    BY <1>2, <1>3, <1>5, BelowJoined

\* What is known in f is known in g.
Grown(f, g) == DOMAIN f \subseteq DOMAIN g /\ \A x \in DOMAIN f : g[x] = f[x]

\* What more is learnt does not change what is below directories that are known.
LEMMA BelowGrown ==
    ASSUME NEW f, NEW g, Grown(f, g), NEW s, \A k \in DOMAIN s : s[k] \in DOMAIN f
    PROVE  BelowIn(g, s) = BelowIn(f, s)
  <1>1. \A k \in DOMAIN s : EntriesIn(g, s[k]) = EntriesIn(f, s[k])
    BY DEF Grown, EntriesIn
  <1>2. PiecesIn(g, s) = PiecesIn(f, s)
    BY <1>1 DEF PiecesIn
  <1> QED
    BY <1>2 DEF BelowIn

LEMMA LearnGrows ==
    ASSUME NEW f, NEW b, NEW all, NEW c \in Res!Contents(f, b, all)
    PROVE  /\ Grown(f, Res!Learn(f, b, c))
           /\ DOMAIN Res!Learn(f, b, c) = DOMAIN f \cup {b}
           /\ Res!Learn(f, b, c)[b] = c
  BY DEF Res!Contents, Res!Learn, Grown

\* The numbers of a set, in their order.
InOrder(e, F) ==
    /\ e \in Seq(Nat)
    /\ \A i, j \in DOMAIN e : i < j => e[i] < e[j]
    /\ F = {e[i] : i \in DOMAIN e}

\* How many come up to one of them.
LEMMA OrderCounts ==
    ASSUME NEW e, NEW F, InOrder(e, F)
    PROVE  /\ Cardinality(F) = Len(e)
           /\ \A i \in DOMAIN e : Cardinality({j \in F : j <= e[i]}) = i
  <1>1. PICK n \in Nat : n = Len(e) /\ DOMAIN e = 1..n /\ e \in [1..n -> Nat]
    BY LenProperties DEF InOrder
  <1>2. ASSUME NEW m \in 0..n PROVE Cardinality({e[i] : i \in 1..m}) = m
    <2>1. PICK I : I = {e[i] : i \in 1..m}
      OBVIOUS
    <2>2. PICK b : b = [i \in 1..m |-> e[i]]
      OBVIOUS
    <2>3. b \in [1..m -> I] /\ \A y \in I : \E i \in 1..m : b[i] = y
      BY <2>1, <2>2
    <2>4. ASSUME NEW i \in 1..m, NEW j \in 1..m, b[i] = b[j] PROVE i = j
      <3>1. i \in 1..n /\ j \in 1..n /\ e[i] = e[j] /\ e[i] \in Nat /\ e[j] \in Nat
        BY <1>1, <1>2, <2>2, <2>4
      <3>2. (i < j => e[i] < e[j]) /\ (j < i => e[j] < e[i])
        BY <1>1, <3>1 DEF InOrder
      <3> QED
        BY <3>1, <3>2
    <2>5. ExistsBijection(1..m, I)
      BY <2>3, <2>4 DEF ExistsBijection, Bijection, Injection, Surjection, IsInjective
    <2>6. m \in Nat
      OBVIOUS
    <2> QED
      BY <2>1, <2>5, <2>6, FS_CountingElements
  <1>3. F = {e[i] : i \in 1..n}
    BY <1>1 DEF InOrder
  <1>4. ASSUME NEW i \in 1..n PROVE {j \in F : j <= e[i]} = {e[j] : j \in 1..i}
    <2>1. ASSUME NEW j \in 1..n PROVE e[j] <= e[i] <=> j \in 1..i
      <3>1. /\ i < j => e[i] < e[j]
            /\ j < i => e[j] < e[i]
            /\ e[i] \in Nat /\ e[j] \in Nat
        BY <1>1 DEF InOrder
      <3> QED
        BY <3>1
    <2>2. \A j \in 1..i : j \in 1..n
      OBVIOUS
    <2> QED
      BY <1>3, <2>1, <2>2
  <1>5. n \in 0..n /\ \A i \in 1..n : i \in 0..n
    OBVIOUS
  <1> QED
    BY <1>1, <1>2, <1>3, <1>4, <1>5

\* The resources kp of data entries d: e has their positions.
SeenFirst(e, kp, d) ==
    /\ InOrder(e, Res!FirstSeen(d)) /\ Len(e) = Len(kp)
    /\ \A i \in DOMAIN e : kp[i] = d[e[i]]
    /\ \A k \in DOMAIN d : d[k] \in Places => \E i \in DOMAIN kp : kp[i] = d[k]

\* They are the ones that Once defines.
LEMMA OnceIs ==
    ASSUME NEW kp \in Seq(Places), NEW d, NEW e, SeenFirst(e, kp, d)
    PROVE  Res!Once(d) = kp
  <1>1. PICK F : F = Res!FirstSeen(d)
    OBVIOUS
  <1>2. \A S : Res!Cardinality(S) = Cardinality(S)
    BY DEF Res!Cardinality, Cardinality
  <1>3. PICK n \in Nat : /\ n = Len(e) /\ DOMAIN e = 1..n /\ Len(kp) = n /\ DOMAIN kp = 1..n
    BY LenProperties DEF SeenFirst, InOrder
  <1>4. /\ Res!Cardinality(F) = n
        /\ \A i \in 1..n : Res!Cardinality({j \in F : j <= e[i]}) = i
    <2>1. /\ Cardinality(F) = n
          /\ \A i \in 1..n : Cardinality({j \in F : j <= e[i]}) = i
      BY <1>1, <1>3, OrderCounts DEF SeenFirst
    <2> QED
      BY <1>2, <2>1
  <1>5. F = {e[i] : i \in 1..n}
    BY <1>1, <1>3 DEF SeenFirst, InOrder
  <1>6. ASSUME NEW i \in 1..n
        PROVE  d[CHOOSE k \in F : Res!Cardinality({j \in F : j <= k}) = i] = kp[i]
    <2>1. PICK x : x = CHOOSE k \in F : Res!Cardinality({j \in F : j <= k}) = i
      OBVIOUS
    <2>2. e[i] \in F /\ Res!Cardinality({j \in F : j <= e[i]}) = i
      BY <1>4, <1>5
    <2>3. x \in F /\ Res!Cardinality({j \in F : j <= x}) = i
      BY <2>1, <2>2
    <2>4. PICK m \in 1..n : x = e[m]
      BY <1>5, <2>3
    <2>5. m = i
      BY <1>4, <2>3, <2>4
    <2>6. kp[i] = d[e[i]]
      BY <1>3 DEF SeenFirst
    <2> QED
      BY <2>1, <2>4, <2>5, <2>6
  <1>7. Res!Once(d) = [i \in 1..n |-> d[CHOOSE k \in F : Res!Cardinality({j \in F : j <= k}) = i]]
    BY <1>1, <1>4 DEF Res!Once
  <1>8. Res!Once(d) = [i \in 1..n |-> kp[i]]
    BY <1>6, <1>7
  <1>9. kp = [i \in 1..n |-> kp[i]]
    BY <1>3
  <1> QED
    BY <1>8, <1>9

\* One more data entry: it is listed if it is a resource of a place that is not.
LEMMA SeenMore ==
    ASSUME NEW kp \in Seq(Places), NEW d \in Seq(Res!Data), NEW e, SeenFirst(e, kp, d),
           NEW x \in Res!Data, NEW more,
           more = IF Res!Kept(x) /\ x \notin Res!Range(kp) THEN Append(kp, x) ELSE kp
    PROVE  \E g : SeenFirst(g, more, Append(d, x))
  <1>1. PICK n \in Nat : n = Len(d) /\ DOMAIN d = 1..n
    BY LenProperties
  <1>2. PICK m \in Nat : m = Len(e) /\ DOMAIN e = 1..m /\ Len(kp) = m /\ DOMAIN kp = 1..m
    BY LenProperties DEF SeenFirst, InOrder
  <1>3. PICK c : c = Append(d, x)
    OBVIOUS
  <1>4. DOMAIN c = 1..(n + 1) /\ c[n + 1] = x /\ \A k \in 1..n : c[k] = d[k]
    BY <1>1, <1>3
  <1>5. \A k \in 1..n : k \in Res!FirstSeen(c) <=> k \in Res!FirstSeen(d)
    <2> SUFFICES ASSUME NEW k \in 1..n
                 PROVE  k \in Res!FirstSeen(c) <=> k \in Res!FirstSeen(d)
      OBVIOUS
    <2>1. k \in DOMAIN c /\ c[k] = d[k] /\ \A j \in 1..(k - 1) : c[j] = d[j]
      BY <1>4
    <2> QED
      BY <1>1, <2>1 DEF Res!FirstSeen
  <1>6. Res!FirstSeen(d) \subseteq 1..n /\ Res!FirstSeen(c) \subseteq 1..(n + 1)
    BY <1>1, <1>4 DEF Res!FirstSeen
  <1>7. Res!Range(kp) = {kp[i] : i \in 1..m}
    BY <1>2 DEF Res!Range
  <1>8. Res!FirstSeen(d) = {e[i] : i \in 1..m}
    BY <1>2 DEF SeenFirst, InOrder
  <1>9. CASE Res!Kept(x) /\ x \notin Res!Range(kp)
    <2>1. x \in Places /\ more = Append(kp, x) /\ \A i \in 1..m : kp[i] # x
      BY <1>7, <1>9 DEF Res!Kept
    <2>2. \A k \in 1..n : d[k] # x
      BY <1>1, <1>2, <2>1 DEF SeenFirst
    <2>3. n + 1 \in Res!FirstSeen(c)
      <3>1. \A j \in 1..((n + 1) - 1) : j \in 1..n
        OBVIOUS
      <3>2. \A j \in 1..((n + 1) - 1) : c[j] # c[n + 1]
        BY <1>4, <2>2, <3>1
      <3> QED
        BY <1>4, <2>1, <3>2 DEF Res!FirstSeen
    <2>4. Res!FirstSeen(c) = Res!FirstSeen(d) \cup {n + 1}
      <3>1. \A k \in 1..(n + 1) : k \in 1..n \/ k = n + 1
        OBVIOUS
      <3> QED
        BY <1>5, <1>6, <2>3, <3>1
    <2>5. PICK g : g = Append(e, n + 1)
      OBVIOUS
    <2>6. /\ g \in Seq(Nat) /\ Len(g) = m + 1 /\ DOMAIN g = 1..(m + 1) /\ g[m + 1] = n + 1
          /\ \A i \in 1..m : g[i] = e[i]
      BY <1>2, <2>5 DEF SeenFirst, InOrder
    <2>7. \A i \in 1..m : e[i] \in 1..n
      BY <1>6, <1>8
    <2>8. \A i \in 1..(m + 1) : i \in 1..m \/ i = m + 1
      OBVIOUS
    <2>9. ASSUME NEW i \in 1..(m + 1), NEW j \in 1..(m + 1), i < j PROVE g[i] < g[j]
      <3>1. i \in 1..m
        BY <2>9
      <3>2. CASE j \in 1..m
        BY <1>2, <2>6, <2>9, <3>1, <3>2 DEF SeenFirst, InOrder
      <3>3. CASE j = m + 1
        BY <2>6, <2>7, <3>1, <3>3, SMTT(30)
      <3> QED
        BY <2>8, <3>2, <3>3
    <2>10. Res!FirstSeen(c) = {g[i] : i \in 1..(m + 1)}
      <3>1. {g[i] : i \in 1..(m + 1)} = {e[i] : i \in 1..m} \cup {n + 1}
        BY <2>6, <2>8
      <3> QED
        BY <1>8, <2>4, <3>1
    <2>11. InOrder(g, Res!FirstSeen(c))
      BY <2>6, <2>9, <2>10 DEF InOrder
    <2>12. Len(more) = m + 1 /\ DOMAIN more = 1..(m + 1) /\ more[m + 1] = x
           /\ \A i \in 1..m : more[i] = kp[i]
      BY <1>2, <2>1
    <2>13. ASSUME NEW i \in 1..(m + 1) PROVE more[i] = c[g[i]]
      <3>1. CASE i \in 1..m
        <4>1. kp[i] = d[e[i]]
          BY <1>2, <3>1 DEF SeenFirst
        <4> QED
          BY <1>4, <2>6, <2>7, <2>12, <3>1, <4>1
      <3>2. CASE i = m + 1
        BY <1>4, <2>6, <2>12, <3>2
      <3> QED
        BY <2>8, <3>1, <3>2
    <2>14. ASSUME NEW k \in 1..(n + 1), c[k] \in Places
           PROVE  \E i \in 1..(m + 1) : more[i] = c[k]
      <3>1. CASE k \in 1..n
        <4>1. PICK i \in 1..m : kp[i] = d[k]
          BY <1>1, <1>2, <1>4, <2>14, <3>1 DEF SeenFirst
        <4>2. i \in 1..(m + 1) /\ more[i] = c[k]
          BY <1>4, <2>12, <3>1, <4>1
        <4> QED
          BY <4>2
      <3>2. CASE k = n + 1
        <4>1. m + 1 \in 1..(m + 1)
          OBVIOUS
        <4> QED
          BY <1>4, <2>12, <3>2, <4>1
      <3>3. k \in 1..n \/ k = n + 1
        OBVIOUS
      <3> QED
        BY <3>1, <3>2, <3>3
    <2>15. SeenFirst(g, more, c)
      BY <1>4, <2>6, <2>11, <2>12, <2>13, <2>14 DEF SeenFirst
    <2> QED
      BY <1>3, <2>15
  <1>10. CASE ~(Res!Kept(x) /\ x \notin Res!Range(kp))
    <2>1. more = kp /\ (x \in Places => \E i \in 1..m : kp[i] = x)
      BY <1>7, <1>10 DEF Res!Kept
    <2>2. n + 1 \notin Res!FirstSeen(c)
      <3> SUFFICES ASSUME n + 1 \in Res!FirstSeen(c) PROVE FALSE
        OBVIOUS
      <3>1. x \in Places /\ \A j \in 1..((n + 1) - 1) : c[j] # x
        BY <1>4 DEF Res!FirstSeen
      <3>2. PICK i \in 1..m : kp[i] = x
        BY <2>1, <3>1
      <3>3. x = d[e[i]] /\ e[i] \in 1..n
        BY <1>2, <1>6, <1>8, <3>2 DEF SeenFirst
      <3>4. e[i] \in 1..((n + 1) - 1) /\ c[e[i]] = x
        BY <1>4, <3>3
      <3> QED
        BY <3>1, <3>4
    <2>3. Res!FirstSeen(c) = Res!FirstSeen(d)
      <3>1. \A k \in 1..(n + 1) : k \in 1..n \/ k = n + 1
        OBVIOUS
      <3> QED
        BY <1>5, <1>6, <2>2, <3>1
    <2>4. \A i \in 1..m : e[i] \in 1..n
      BY <1>6, <1>8
    <2>5. \A i \in DOMAIN e : kp[i] = c[e[i]]
      BY <1>2, <1>4, <2>4 DEF SeenFirst
    <2>6. ASSUME NEW k \in 1..(n + 1), c[k] \in Places
          PROVE  \E i \in DOMAIN kp : kp[i] = c[k]
      <3>1. CASE k \in 1..n
        BY <1>1, <1>4, <2>6, <3>1 DEF SeenFirst
      <3>2. CASE k = n + 1
        BY <1>2, <1>4, <2>1, <2>6, <3>2
      <3> QED
        BY <3>1, <3>2
    <2>7. SeenFirst(e, kp, c)
      BY <1>4, <2>3, <2>5, <2>6 DEF SeenFirst
    <2> QED
      BY <1>3, <2>1, <2>7
  <1> QED
    BY <1>9, <1>10
\* A list of offsets and one offset more.
LEMMA OffsetAppend ==
    ASSUME NEW s \in Seq(Off), NEW b \in Off, NEW n \in Nat, n = Len(s)
    PROVE  \E w \in Seq(Off) : /\ w = Append(s, b) /\ Len(w) = n + 1 /\ DOMAIN w = 1..(n + 1)
                               /\ w[n + 1] = b /\ \A k \in 1..n : w[k] = s[k]
  <1>1. PICK w : w = Append(s, b)
    OBVIOUS
  <1>2. w \in Seq(Off) /\ Len(w) = n + 1 /\ DOMAIN w = 1..(n + 1) /\ w[n + 1] = b
    BY <1>1
  <1>3. \A k \in 1..n : w[k] = s[k]
    BY <1>1
  <1> QED
    BY <1>1, <1>2, <1>3

LEMMA OffsetThrice ==
    ASSUME NEW s \in Seq(Off), NEW t \in Seq(Off), NEW u \in Seq(Off)
    PROVE  Joined(Joined(s, t), u) = Joined(s, Joined(t, u))
  BY JoinedThrice

\* The head of what is left goes behind what is done.
LEMMA OffsetMoves ==
    ASSUME NEW s \in Seq(Off), NEW t \in Seq(Off), t # <<>>
    PROVE  \E b \in Off, w \in Seq(Off), u \in Seq(Off) :
               /\ b = Head(t) /\ w = Append(s, b) /\ u = Tail(t)
               /\ Joined(s, t) = Joined(w, u)
  <1>1. Head(t) \in Off /\ Tail(t) \in Seq(Off)
    BY HeadTailProperties
  <1>2. PICK x \in Off, u \in Seq(Off) : x = Head(t) /\ u = Tail(t)
    BY <1>1
  <1>3. PICK y \in Seq(Off) : y = <<x>> /\ Len(y) = 1 /\ y[1] = x
    <2>1. <<x>> \in Seq(Off) /\ Len(<<x>>) = 1 /\ <<x>>[1] = x
      BY <1>2
    <2> QED
      BY <2>1
  <1>4. Append(s, x) = Joined(s, y) /\ Append(s, x) \in Seq(Off)
    BY <1>2, <1>3, AppendIsConcat, AppendProperties DEF Joined
  <1>5. t = Joined(y, u)
    <2>1. PICK w : w = Joined(y, u)
      OBVIOUS
    <2>2. /\ w \in Seq(Off) /\ Len(w) = 1 + Len(u)
          /\ \A i \in 1..(1 + Len(u)) : w[i] = IF i <= 1 THEN x ELSE u[i - 1]
      <3>1. /\ w \in Seq(Off) /\ Len(w) = Len(y) + Len(u)
            /\ \A i \in 1..(Len(y) + Len(u)) : w[i] = IF i <= Len(y) THEN y[i] ELSE u[i - Len(y)]
        BY <2>1, JoinedIs
      <3>2. \A i \in 1..(1 + Len(u)) : i <= 1 => i = 1
        BY <1>2
      <3> QED
        BY <1>3, <3>1, <3>2
    <2>3. /\ Len(u) = Len(t) - 1 /\ Len(t) \in Nat \ {0} /\ t[1] = x
          /\ \A i \in 1..Len(u) : u[i] = t[i + 1]
      BY <1>2, HeadTailProperties, EmptySeq
    <2>4. Len(w) = Len(t) /\ \A i \in 1..Len(t) : w[i] = t[i]
      BY <2>2, <2>3
    <2>5. w = t
      BY <2>2, <2>4, SeqEqual
    <2> QED
      BY <2>1, <2>5
  <1>6. Joined(s, t) = Joined(Joined(s, y), u)
    BY <1>5, JoinedThrice
  <1> QED
    BY <1>2, <1>4, <1>6

\* What the data entries of a list of offsets are, of what is known in v.
DataIn(v, s) == [k \in DOMAIN s |-> v[s[k]]]

\* All of them were read, and the resources among them are kp.
Listed(v, kp, s) ==
    /\ \A k \in DOMAIN s : s[k] \in DOMAIN v /\ v[s[k]] # "cut_off"
    /\ \E e : SeenFirst(e, kp, DataIn(v, s))

\* What more is learnt does not change them.
LEMMA ListedGrown ==
    ASSUME NEW v, NEW g, Grown(v, g), NEW kp, NEW s, Listed(v, kp, s)
    PROVE  Listed(g, kp, s)
  <1>1. \A k \in DOMAIN s : s[k] \in DOMAIN g /\ g[s[k]] = v[s[k]] /\ v[s[k]] # "cut_off"
    BY DEF Grown, Listed
  <1>2. DataIn(g, s) = DataIn(v, s)
    BY <1>1 DEF DataIn
  <1> QED
    BY <1>1, <1>2 DEF Listed

\* One more of them.
LEMMA ListedMore ==
    ASSUME NEW v, \A b \in DOMAIN v : v[b] \in Res!Data, NEW kp \in Seq(Places),
           NEW s \in Seq(Off), Listed(v, kp, s), NEW o \in Off, o \in DOMAIN v,
           v[o] # "cut_off", NEW more,
           more = IF Res!Kept(v[o]) /\ v[o] \notin Res!Range(kp) THEN Append(kp, v[o]) ELSE kp
    PROVE  Listed(v, more, Append(s, o))
  <1>1. PICK n \in Nat : n = Len(s) /\ DOMAIN s = 1..n
    BY LenProperties
  <1>2. PICK w \in Seq(Off) : /\ w = Append(s, o) /\ Len(w) = n + 1 /\ DOMAIN w = 1..(n + 1)
                              /\ w[n + 1] = o /\ \A k \in 1..n : w[k] = s[k]
    BY <1>1, OffsetAppend, ZenonT(60)
  <1>3. \A k \in 1..(n + 1) : k \in 1..n \/ k = n + 1
    OBVIOUS
  <1>4. PICK x \in Res!Data : x = v[o]
    OBVIOUS
  <1>5. PICK d : d = DataIn(v, s)
    OBVIOUS
  <1>6. d = [k \in 1..n |-> v[s[k]]]
    BY <1>1, <1>5 DEF DataIn
  <1>7. \A k \in 1..n : s[k] \in DOMAIN v /\ v[s[k]] # "cut_off" /\ v[s[k]] \in Res!Data
    BY <1>1 DEF Listed
  <1>8. d \in [1..n -> Res!Data]
    BY <1>6, <1>7, Zenon
  <1>9. d \in Seq(Res!Data) /\ Len(d) = n
    BY <1>8, IsSequence
  <1>10. PICK c : c = Append(d, x)
    OBVIOUS
  <1>11. /\ c \in Seq(Res!Data) /\ DOMAIN c = 1..(n + 1) /\ c[n + 1] = x
         /\ \A k \in 1..n : c[k] = d[k]
    BY <1>9, <1>10
  <1>12. c = DataIn(v, w)
    <2>1. \A k \in 1..(n + 1) : c[k] = v[w[k]]
      BY <1>2, <1>3, <1>4, <1>6, <1>11
    <2>2. c = [k \in 1..(n + 1) |-> c[k]]
      BY <1>11
    <2>3. [k \in 1..(n + 1) |-> c[k]] = [k \in 1..(n + 1) |-> v[w[k]]]
      BY <2>1
    <2> QED
      BY <1>2, <2>2, <2>3 DEF DataIn
  <1>13. \E e : SeenFirst(e, more, c)
    <2>1. PICK e : SeenFirst(e, kp, d)
      BY <1>5 DEF Listed
    <2>2. more = IF Res!Kept(x) /\ x \notin Res!Range(kp) THEN Append(kp, x) ELSE kp
      BY <1>4
    <2> QED
      BY <1>9, <1>10, <2>1, <2>2, SeenMore
  <1>14. \A k \in 1..(n + 1) : w[k] \in DOMAIN v /\ v[w[k]] # "cut_off"
    BY <1>2, <1>3, <1>7
  <1> QED
    BY <1>2, <1>12, <1>13, <1>14 DEF Listed

\* The walk through the tree that f describes.  Behind it are the entries ty of the root,
\* the entries nm of those, and the data entries lg that these lead to; the entries h, r
\* and i are to come.
Visited(f, v, kp, h, r, i, ty, nm, lg) ==
    /\ ty \in Seq(Off) /\ nm \in Seq(Off) /\ lg \in Seq(Off)
    /\ h \in Seq(Off) /\ r \in Seq(Off) /\ i \in Seq(Off)
    /\ 0 \in DOMAIN f /\ EntriesIn(f, 0) = Joined(ty, h)
    /\ (\A k \in DOMAIN ty : ty[k] \in DOMAIN f) /\ BelowIn(f, ty) = Joined(nm, r)
    /\ (\A k \in DOMAIN nm : nm[k] \in DOMAIN f) /\ BelowIn(f, nm) = Joined(lg, i)
    /\ Listed(v, kp, lg)

\* The walk was cut off at the data entry that follows those of lg; all is the whole list.
Cut(f, v, kp, lg, all) ==
    /\ lg \in Seq(Off) /\ all \in Seq(Off)
    /\ all = BelowIn(f, BelowIn(f, EntriesIn(f, 0)))
    /\ Len(lg) < Len(all) /\ \A k \in 1..Len(lg) : all[k] = lg[k]
    /\ all[Len(lg) + 1] \in DOMAIN v /\ v[all[Len(lg) + 1]] = "cut_off"
    /\ Listed(v, kp, lg)

\* One more offset that is known.
LEMMA KnownMore ==
    ASSUME NEW s \in Seq(Off), NEW b \in Off, NEW D, \A k \in DOMAIN s : s[k] \in D, b \in D
    PROVE  \A k \in DOMAIN Append(s, b) : Append(s, b)[k] \in D
  <1>1. PICK n \in Nat : n = Len(s) /\ DOMAIN s = 1..n
    BY LenProperties
  <1>2. PICK w \in Seq(Off) : /\ w = Append(s, b) /\ Len(w) = n + 1 /\ DOMAIN w = 1..(n + 1)
                              /\ w[n + 1] = b /\ \A k \in 1..n : w[k] = s[k]
    BY <1>1, OffsetAppend, ZenonT(60)
  <1>3. \A k \in 1..(n + 1) : k \in 1..n \/ k = n + 1
    OBVIOUS
  <1> QED
    BY <1>1, <1>2, <1>3

\* The walk goes on with the next entry of the root.
LEMMA VisitType ==
    ASSUME NEW f, NEW g, Plain(f), Plain(g), Grown(f, g), NEW v, NEW kp,
           NEW h, NEW ty, NEW nm, NEW lg, Visited(f, v, kp, h, <<>>, <<>>, ty, nm, lg),
           h # <<>>, Head(h) \in DOMAIN g
    PROVE  Visited(g, v, kp, Tail(h), EntriesIn(g, Head(h)), <<>>, Append(ty, Head(h)), nm, lg)
  <1>1. /\ ty \in Seq(Off) /\ nm \in Seq(Off) /\ lg \in Seq(Off) /\ h \in Seq(Off)
        /\ 0 \in DOMAIN f /\ EntriesIn(f, 0) = Joined(ty, h)
        /\ \A k \in DOMAIN ty : ty[k] \in DOMAIN f
        /\ \A k \in DOMAIN nm : nm[k] \in DOMAIN f
        /\ BelowIn(f, ty) = Joined(nm, <<>>) /\ BelowIn(f, nm) = Joined(lg, <<>>)
        /\ Listed(v, kp, lg)
    BY DEF Visited
  <1>2. PICK b \in Off, w \in Seq(Off), u \in Seq(Off) :
           /\ b = Head(h) /\ w = Append(ty, b) /\ u = Tail(h)
           /\ Joined(ty, h) = Joined(w, u)
    BY <1>1, OffsetMoves
  <1>3. w = Append(ty, b) /\ Joined(ty, h) = Joined(w, u)
    BY <1>2
  <1>4. PICK x \in Seq(Off) : x = EntriesIn(g, b)
    BY EntriesTyped
  <1>5. 0 \in DOMAIN g /\ EntriesIn(g, 0) = EntriesIn(f, 0)
    BY <1>1 DEF Grown, EntriesIn
  <1>6. BelowIn(g, ty) = nm /\ BelowIn(g, nm) = BelowIn(f, nm)
    <2>1. BelowIn(g, ty) = BelowIn(f, ty) /\ BelowIn(g, nm) = BelowIn(f, nm)
      BY <1>1, BelowGrown
    <2>2. Joined(nm, <<>>) = nm
      BY <1>1, JoinedIs
    <2> QED
      BY <1>1, <2>1, <2>2
  <1>7. BelowIn(g, w) = Joined(nm, x)
    BY <1>1, <1>3, <1>4, <1>6, BelowAppend
  <1>8. \A k \in DOMAIN w : w[k] \in DOMAIN g
    <2>1. \A k \in DOMAIN ty : ty[k] \in DOMAIN g
      BY <1>1 DEF Grown
    <2> QED
      BY <1>1, <1>2, <2>1, KnownMore
  <1>9. \A k \in DOMAIN nm : nm[k] \in DOMAIN g
    BY <1>1 DEF Grown
  <1>10. <<>> \in Seq(Off)
    OBVIOUS
  <1>11. Visited(g, v, kp, u, x, <<>>, w, nm, lg)
    BY <1>1, <1>3, <1>5, <1>6, <1>7, <1>8, <1>9, <1>10 DEF Visited
  <1> QED
    BY <1>2, <1>4, <1>11

\* It goes on with the next name.
LEMMA VisitName ==
    ASSUME NEW f, NEW g, Plain(f), Plain(g), Grown(f, g), NEW v, NEW kp,
           NEW h, NEW r, NEW ty, NEW nm, NEW lg, Visited(f, v, kp, h, r, <<>>, ty, nm, lg),
           r # <<>>, Head(r) \in DOMAIN g
    PROVE  Visited(g, v, kp, h, Tail(r), EntriesIn(g, Head(r)), ty, Append(nm, Head(r)), lg)
  <1>1. /\ ty \in Seq(Off) /\ nm \in Seq(Off) /\ lg \in Seq(Off)
        /\ h \in Seq(Off) /\ r \in Seq(Off)
        /\ 0 \in DOMAIN f /\ EntriesIn(f, 0) = Joined(ty, h)
        /\ \A k \in DOMAIN ty : ty[k] \in DOMAIN f
        /\ \A k \in DOMAIN nm : nm[k] \in DOMAIN f
        /\ BelowIn(f, ty) = Joined(nm, r) /\ BelowIn(f, nm) = Joined(lg, <<>>)
        /\ Listed(v, kp, lg)
    BY DEF Visited
  <1>2. PICK b \in Off, w \in Seq(Off), u \in Seq(Off) :
           /\ b = Head(r) /\ w = Append(nm, b) /\ u = Tail(r)
           /\ Joined(nm, r) = Joined(w, u)
    BY <1>1, OffsetMoves
  <1>3. w = Append(nm, b) /\ Joined(nm, r) = Joined(w, u)
    BY <1>2
  <1>4. PICK x \in Seq(Off) : x = EntriesIn(g, b)
    BY EntriesTyped
  <1>5. 0 \in DOMAIN g /\ EntriesIn(g, 0) = EntriesIn(f, 0)
    BY <1>1 DEF Grown, EntriesIn
  <1>6. BelowIn(g, ty) = BelowIn(f, ty) /\ BelowIn(g, nm) = lg
    <2>1. BelowIn(g, ty) = BelowIn(f, ty) /\ BelowIn(g, nm) = BelowIn(f, nm)
      BY <1>1, BelowGrown
    <2>2. Joined(lg, <<>>) = lg
      BY <1>1, JoinedIs
    <2> QED
      BY <1>1, <2>1, <2>2
  <1>7. BelowIn(g, w) = Joined(lg, x)
    BY <1>1, <1>3, <1>4, <1>6, BelowAppend
  <1>8. \A k \in DOMAIN w : w[k] \in DOMAIN g
    <2>1. \A k \in DOMAIN nm : nm[k] \in DOMAIN g
      BY <1>1 DEF Grown
    <2> QED
      BY <1>1, <1>2, <2>1, KnownMore
  <1>9. \A k \in DOMAIN ty : ty[k] \in DOMAIN g
    BY <1>1 DEF Grown
  <1>10. Visited(g, v, kp, h, u, x, ty, w, lg)
    BY <1>1, <1>3, <1>5, <1>6, <1>7, <1>8, <1>9 DEF Visited
  <1> QED
    BY <1>2, <1>4, <1>10

\* It goes on with the next data entry.
LEMMA VisitData ==
    ASSUME NEW f, Plain(f), NEW v, NEW g, Grown(v, g), \A b \in DOMAIN g : g[b] \in Res!Data,
           NEW kp \in Seq(Places), NEW h, NEW r, NEW i, NEW ty, NEW nm, NEW lg,
           Visited(f, v, kp, h, r, i, ty, nm, lg),
           i # <<>>, Head(i) \in DOMAIN g, g[Head(i)] # "cut_off", NEW more,
           more = IF Res!Kept(g[Head(i)]) /\ g[Head(i)] \notin Res!Range(kp)
                  THEN Append(kp, g[Head(i)]) ELSE kp
    PROVE  Visited(f, g, more, h, r, Tail(i), ty, nm, Append(lg, Head(i)))
  <1>1. lg \in Seq(Off) /\ i \in Seq(Off) /\ Listed(v, kp, lg)
    BY DEF Visited
  <1>2. PICK b \in Off, w \in Seq(Off), u \in Seq(Off) :
           /\ b = Head(i) /\ w = Append(lg, b) /\ u = Tail(i)
           /\ Joined(lg, i) = Joined(w, u)
    BY <1>1, OffsetMoves
  <1>3. w = Append(lg, b) /\ Joined(lg, i) = Joined(w, u)
    BY <1>2
  <1>4. Listed(g, kp, lg)
    BY <1>1, ListedGrown
  <1>5. Listed(g, more, w)
    BY <1>1, <1>2, <1>4, ListedMore
  <1>6. Visited(f, g, more, h, r, u, ty, nm, w)
    BY <1>3, <1>5 DEF Visited
  <1> QED
    BY <1>2, <1>6

\* It is cut off at the next data entry.
LEMMA VisitCutOff ==
    ASSUME NEW f, Plain(f), NEW v, NEW g, Grown(v, g), NEW kp,
           NEW h, NEW r, NEW i, NEW ty, NEW nm, NEW lg, Visited(f, v, kp, h, r, i, ty, nm, lg),
           i # <<>>, Head(i) \in DOMAIN g, g[Head(i)] = "cut_off"
    PROVE  \E all : Cut(f, g, kp, lg, all)
  <1>1. /\ ty \in Seq(Off) /\ nm \in Seq(Off) /\ lg \in Seq(Off)
        /\ h \in Seq(Off) /\ r \in Seq(Off) /\ i \in Seq(Off)
        /\ EntriesIn(f, 0) = Joined(ty, h) /\ BelowIn(f, ty) = Joined(nm, r)
        /\ BelowIn(f, nm) = Joined(lg, i) /\ Listed(v, kp, lg)
    BY DEF Visited
  <1>2. PICK n \in Nat, m \in Nat : n = Len(lg) /\ m = Len(i) /\ m # 0 /\ Head(i) = i[1]
    BY <1>1, EmptySeq
  <1>3. PICK x \in Seq(Off) : x = BelowIn(f, h)
    BY <1>1, BelowJoined
  <1>4. PICK y \in Seq(Off) : y = Joined(r, x)
    BY <1>1, JoinedIs
  <1>5. BelowIn(f, EntriesIn(f, 0)) = Joined(nm, y)
    <2>1. BelowIn(f, EntriesIn(f, 0)) = Joined(Joined(nm, r), x)
      BY <1>1, <1>3, BelowJoined
    <2> QED
      BY <1>1, <1>4, <2>1, OffsetThrice
  <1>6. PICK z \in Seq(Off) : z = BelowIn(f, y)
    BY BelowJoined
  <1>7. PICK j \in Seq(Off) : j = Joined(i, z) /\ Len(j) \in Nat \ {0} /\ j[1] = Head(i)
    <2>1. PICK j : j = Joined(i, z)
      OBVIOUS
    <2>2. /\ j \in Seq(Off) /\ Len(j) = m + Len(z)
          /\ \A k \in 1..(m + Len(z)) : j[k] = IF k <= m THEN i[k] ELSE z[k - m]
      BY <1>1, <1>2, <2>1, JoinedIs, ZenonT(60)
    <2>3. 1 \in 1..(m + Len(z)) /\ 1 <= m /\ m + Len(z) \in Nat \ {0}
      BY <1>2
    <2>4. j[1] = i[1]
      BY <2>2, <2>3
    <2> QED
      BY <1>2, <2>1, <2>2, <2>3, <2>4
  <1>8. PICK all : all = BelowIn(f, BelowIn(f, EntriesIn(f, 0)))
    OBVIOUS
  <1>9. all = Joined(lg, j)
    <2>1. all = Joined(Joined(lg, i), z)
      BY <1>1, <1>5, <1>6, <1>8, BelowJoined
    <2> QED
      BY <1>1, <1>7, <2>1, OffsetThrice
  <1>10. /\ all \in Seq(Off) /\ Len(all) = n + Len(j)
         /\ \A k \in 1..(n + Len(j)) : all[k] = IF k <= n THEN lg[k] ELSE j[k - n]
    BY <1>1, <1>2, <1>9, JoinedIs, ZenonT(60)
  <1>11. n < Len(all) /\ all[n + 1] = Head(i) /\ \A k \in 1..n : all[k] = lg[k]
    <2>1. n + 1 \in 1..(n + Len(j)) /\ ~(n + 1 <= n) /\ (n + 1) - n = 1 /\ n < n + Len(j)
      BY <1>7
    <2>2. \A k \in 1..n : k \in 1..(n + Len(j)) /\ k <= n
      BY <1>7
    <2>3. all[n + 1] = j[1]
      BY <1>10, <2>1
    <2> QED
      BY <1>7, <1>10, <2>1, <2>2, <2>3
  <1>12. Listed(g, kp, lg)
    BY <1>1, ListedGrown
  <1>13. Cut(f, g, kp, lg, all)
    BY <1>1, <1>2, <1>8, <1>10, <1>11, <1>12 DEF Cut
  <1> QED
    BY <1>13

\* The walk is somewhere in the tree.
Walking(f, v, kp, h, r, i) == \E ty, nm, lg : Visited(f, v, kp, h, r, i, ty, nm, lg)

\* It was cut off.
Stopped(f, v, kp) == \E lg, all : Cut(f, v, kp, lg, all)

\* Nothing is left to visit.
NoneLeft == header = <<>> /\ read = <<>> /\ item = <<>>

\* The inductive invariant: when no directory has offset 0, the list is always that of the
\* part of the tree that the walk has behind it.
TreeParts ==
    /\ pc = "root" => /\ file = <<>> /\ values = <<>> /\ kept = <<>> /\ NoneLeft
    /\ pc \in {"walk", "raw", "done"} =>
           \/ Walking(file, values, kept, header, read, item)
           \/ NoneLeft /\ Stopped(file, values, kept)
    /\ pc \in {"raw", "done"} => NoneLeft

TreeInv == Res!NoOffsetZero => TreeParts

TreeOK == directory = "resources" => TreeInv

\* The directories that were read, when none has offset 0.
LEMMA TreePlain ==
    ASSUME ResTypes, Res!NoOffsetZero
    PROVE  Plain(file)
  BY DEF ResTypes, Res!NoOffsetZero, Plain

LEMMA TreePlainNext ==
    ASSUME ResTypes', Res!NoOffsetZero'
    PROVE  Plain(file')
  BY DEF ResTypes, Res!NoOffsetZero, Plain

\* There was none of offset 0 before.
LEMMA TreeBefore ==
    ASSUME Grown(file, file'), Res!NoOffsetZero'
    PROVE  Res!NoOffsetZero
  BY DEF Grown, Res!NoOffsetZero

\* A directory of a block is read.
LEMMA TreeDirectory ==
    ASSUME NEW b \in 0..Blocks, NEW c \in Res!Directories, Res!ReadDirectory(b, c)
    PROVE  /\ Grown(file, file') /\ b \in DOMAIN file'
           /\ EntriesIn(file', b) = IF c = Res!Broken THEN <<>> ELSE c
  <1>1. b # Res!Unknown
    BY ResourceAssumption DEF Res!Unknown
  <1>2. c \in Res!Contents(file, b, Res!Directories) /\ file' = Res!Learn(file, b, c)
    BY <1>1 DEF Res!ReadDirectory
  <1>3. Grown(file, file') /\ DOMAIN file' = DOMAIN file \cup {b} /\ file'[b] = c
    <2>1. /\ Grown(file, Res!Learn(file, b, c))
          /\ DOMAIN Res!Learn(file, b, c) = DOMAIN file \cup {b}
          /\ Res!Learn(file, b, c)[b] = c
      BY <1>2 DEF Res!Contents, Res!Learn, Grown
    <2> QED
      BY <1>2, <2>1
  <1> QED
    BY <1>3 DEF EntriesIn

\* Whatever is read as a directory, what is known of the others stays.
LEMMA ReadGrows ==
    ASSUME NEW b \in 0..(Blocks + 1), NEW c \in Res!Directories, Res!ReadDirectory(b, c)
    PROVE  Grown(file, file')
  <1>1. CASE b = Res!Unknown
    BY <1>1 DEF Res!ReadDirectory, Grown
  <1>2. CASE b # Res!Unknown
    <2>1. c \in Res!Contents(file, b, Res!Directories) /\ file' = Res!Learn(file, b, c)
      BY <1>2 DEF Res!ReadDirectory
    <2> QED
      BY <2>1, LearnGrows
  <1> QED
    BY <1>1, <1>2

\* The walk begins.
LEMMA VisitNothing ==
    ASSUME NEW f, Plain(f), 0 \in DOMAIN f, NEW c \in Seq(Off), EntriesIn(f, 0) = c
    PROVE  Visited(f, <<>>, <<>>, c, <<>>, <<>>, <<>>, <<>>, <<>>)
  <1>1. PICK z \in Seq(Off) : z = <<>> /\ Len(z) = 0 /\ DOMAIN z = {}
    <2>1. <<>> \in Seq(Off) /\ Len(<<>>) = 0 /\ DOMAIN <<>> = {}
      OBVIOUS
    <2> QED
      BY <2>1
  <1>2. Joined(z, c) = c /\ Joined(z, z) = z
    BY <1>1, JoinedIs
  <1>3. BelowIn(f, z) = z
    <2>1. PiecesIn(f, z) = <<>>
      <3>1. PiecesIn(f, z) \in Seq(Seq(Off)) /\ Len(PiecesIn(f, z)) = 0
        BY <1>1, PiecesTyped
      <3> QED
        BY <3>1, EmptySeq
    <2> QED
      BY <1>1, <2>1, FlattenOne DEF BelowIn
  <1>4. Listed(z, z, z)
    <2>1. DataIn(z, z) = z
      <3>1. \A k \in DOMAIN z : FALSE
        BY <1>1
      <3> QED
        BY <1>1, <3>1 DEF DataIn
    <2>2. Res!FirstSeen(z) = {}
      BY <1>1 DEF Res!FirstSeen
    <2>3. z \in Seq(Nat)
      BY <1>1
    <2>4. SeenFirst(z, z, z)
      BY <1>1, <2>2, <2>3 DEF SeenFirst, InOrder
    <2> QED
      BY <1>1, <2>1, <2>4 DEF Listed
  <1>5. Visited(f, z, z, c, z, z, z, z, z)
    BY <1>1, <1>2, <1>3, <1>4 DEF Visited
  <1> QED
    BY <1>1, <1>5

\* Entries that lead to blocks.
LEMMA TreeHead ==
    ASSUME NEW s \in Seq(Off), s # <<>>
    PROVE  Head(s) \in 0..Blocks /\ Res!Block(Head(s)) = Head(s)
  <1>1. Head(s) \in Off
    BY HeadTailProperties
  <1>2. Head(s) \in 1..Blocks /\ Blocks \in Nat
    BY <1>1, ResourceAssumption DEF Off
  <1> QED
    BY <1>2 DEF Res!Block

\* The root is read.
LEMMA TreeRoot ==
    ASSUME ResTypes, ResTypes', TreeInv, Res!ReadRoot
    PROVE  TreeInv'
  <1> SUFFICES ASSUME Res!NoOffsetZero' PROVE TreeParts'
    BY DEF TreeInv
  <1>1. PICK c \in Res!Directories :
           /\ Res!ReadDirectory(0, c)
           /\ IF c = Res!Broken THEN pc' = "failed" /\ UNCHANGED header
                                ELSE pc' = "walk" /\ header' = c
    BY DEF Res!ReadRoot
  <1>2. pc = "root" /\ UNCHANGED <<values, read, item, kept, table>>
    BY DEF Res!ReadRoot
  <1>3. 0 \in 0..Blocks
    BY ResourceAssumption
  <1>4. /\ Grown(file, file') /\ 0 \in DOMAIN file'
        /\ EntriesIn(file', 0) = IF c = Res!Broken THEN <<>> ELSE c
    BY <1>1, <1>3, TreeDirectory
  <1>5. Plain(file') /\ TreeParts
    BY <1>4, TreeBefore, TreePlainNext DEF TreeInv
  <1>6. CASE c = Res!Broken
    BY <1>1, <1>6 DEF TreeParts
  <1>7. CASE c # Res!Broken
    <2>1. pc' = "walk" /\ header' = c /\ EntriesIn(file', 0) = c
      BY <1>1, <1>4, <1>7
    <2>2. values' = <<>> /\ kept' = <<>> /\ read' = <<>> /\ item' = <<>>
      BY <1>2, <1>5 DEF TreeParts, NoneLeft
    <2>3. c \in Seq(Off)
      BY <1>5, <2>1, EntriesTyped
    <2>4. PICK f : f = file'
      OBVIOUS
    <2>5. Visited(f, <<>>, <<>>, c, <<>>, <<>>, <<>>, <<>>, <<>>)
      BY <1>4, <1>5, <2>1, <2>3, <2>4, VisitNothing
    <2>6. Walking(file', values', kept', header', read', item')
      BY <2>1, <2>2, <2>4, <2>5 DEF Walking
    <2> QED
      BY <2>1, <2>6 DEF TreeParts
  <1> QED
    BY <1>6, <1>7

\* A directory of a type is read.
LEMMA TreeType ==
    ASSUME ResTypes, ResTypes', TreeInv, Res!ReadType
    PROVE  TreeInv'
  <1> SUFFICES ASSUME Res!NoOffsetZero' PROVE TreeParts'
    BY DEF TreeInv
  <1>1. PICK c \in Res!Directories :
           /\ Res!ReadDirectory(Res!Block(Head(header)), c)
           /\ read' = IF c = Res!Broken THEN <<>> ELSE c
    BY DEF Res!ReadType
  <1>2. /\ pc = "walk" /\ item = <<>> /\ read = <<>> /\ header # <<>>
        /\ header' = Tail(header) /\ UNCHANGED <<pc, values, item, kept, table>>
    BY DEF Res!ReadType
  <1>3. Grown(file, file')
    <2>1. header \in Seq(0..Blocks)
      BY DEF ResTypes
    <2>2. Res!Block(Head(header)) \in 0..(Blocks + 1)
      BY <1>2, <2>1, ResBlock
    <2> QED
      BY <1>1, <2>2, ReadGrows
  <1>4. Plain(file) /\ Plain(file') /\ TreeParts
    BY <1>3, TreeBefore, TreePlain, TreePlainNext DEF TreeInv
  <1>5. Walking(file, values, kept, header, <<>>, <<>>)
    BY <1>2, <1>4 DEF TreeParts, NoneLeft
  <1>6. PICK ty, nm, lg : Visited(file, values, kept, header, <<>>, <<>>, ty, nm, lg)
    BY <1>5 DEF Walking
  <1>7. header \in Seq(Off)
    BY <1>6 DEF Visited
  <1>8. PICK b \in 0..Blocks : b = Head(header) /\ Res!Block(Head(header)) = b
    BY <1>2, <1>7, TreeHead
  <1>9. b \in DOMAIN file' /\ read' = EntriesIn(file', b)
    BY <1>1, <1>8, TreeDirectory
  <1>10. PICK w : w = Append(ty, Head(header))
    OBVIOUS
  <1>11. Visited(file', values, kept, header', read', <<>>, w, nm, lg)
    <2>1. Visited(file', values, kept, Tail(header), EntriesIn(file', Head(header)), <<>>,
                  Append(ty, Head(header)), nm, lg)
      <3>1. PICK f, g : f = file /\ g = file'
        OBVIOUS
      <3>2. /\ Plain(f) /\ Plain(g) /\ Grown(f, g) /\ Head(header) \in DOMAIN g
            /\ Visited(f, values, kept, header, <<>>, <<>>, ty, nm, lg)
        BY <1>3, <1>4, <1>6, <1>8, <1>9, <3>1
      <3> QED
        BY <1>2, <3>1, <3>2, VisitType
    <2> QED
      BY <1>2, <1>8, <1>9, <1>10, <2>1
  <1>12. Walking(file', values', kept', header', read', item')
    BY <1>2, <1>11 DEF Walking
  <1> QED
    BY <1>2, <1>12 DEF TreeParts

\* A directory of a name is read.
LEMMA TreeName ==
    ASSUME ResTypes, ResTypes', TreeInv, Res!ReadName
    PROVE  TreeInv'
  <1> SUFFICES ASSUME Res!NoOffsetZero' PROVE TreeParts'
    BY DEF TreeInv
  <1>1. PICK c \in Res!Directories :
           /\ Res!ReadDirectory(Res!Block(Head(read)), c)
           /\ item' = IF c = Res!Broken THEN <<>> ELSE c
    BY DEF Res!ReadName
  <1>2. /\ pc = "walk" /\ item = <<>> /\ read # <<>>
        /\ read' = Tail(read) /\ UNCHANGED <<pc, values, header, kept, table>>
    BY DEF Res!ReadName
  <1>3. Grown(file, file')
    <2>1. read \in Seq(0..Blocks)
      BY DEF ResTypes
    <2>2. Res!Block(Head(read)) \in 0..(Blocks + 1)
      BY <1>2, <2>1, ResBlock
    <2> QED
      BY <1>1, <2>2, ReadGrows
  <1>4. Plain(file) /\ Plain(file') /\ TreeParts
    BY <1>3, TreeBefore, TreePlain, TreePlainNext DEF TreeInv
  <1>5. Walking(file, values, kept, header, read, <<>>)
    BY <1>2, <1>4 DEF TreeParts, NoneLeft
  <1>6. PICK ty, nm, lg : Visited(file, values, kept, header, read, <<>>, ty, nm, lg)
    BY <1>5 DEF Walking
  <1>7. read \in Seq(Off)
    BY <1>6 DEF Visited
  <1>8. PICK b \in 0..Blocks : b = Head(read) /\ Res!Block(Head(read)) = b
    BY <1>2, <1>7, TreeHead
  <1>9. b \in DOMAIN file' /\ item' = EntriesIn(file', b)
    BY <1>1, <1>8, TreeDirectory
  <1>10. PICK w : w = Append(nm, Head(read))
    OBVIOUS
  <1>11. Visited(file', values, kept, header, read', item', ty, w, lg)
    <2>1. Visited(file', values, kept, header, Tail(read), EntriesIn(file', Head(read)),
                  ty, Append(nm, Head(read)), lg)
      <3>1. PICK f, g : f = file /\ g = file'
        OBVIOUS
      <3>2. /\ Plain(f) /\ Plain(g) /\ Grown(f, g) /\ Head(read) \in DOMAIN g
            /\ Visited(f, values, kept, header, read, <<>>, ty, nm, lg)
        BY <1>3, <1>4, <1>6, <1>8, <1>9, <3>1
      <3> QED
        BY <1>2, <3>1, <3>2, VisitName
    <2> QED
      BY <1>2, <1>8, <1>9, <1>10, <2>1
  <1>12. Walking(file', values', kept', header', read', item')
    BY <1>2, <1>11 DEF Walking
  <1> QED
    BY <1>2, <1>12 DEF TreeParts
\* A data entry is read.
LEMMA TreeData ==
    ASSUME ResInv, ResTypes', TreeInv, Res!ReadDataEntry
    PROVE  TreeInv'
  <1> SUFFICES ASSUME Res!NoOffsetZero' PROVE TreeParts'
    BY DEF TreeInv
  <1>1. PICK d \in Res!Contents(values, Head(item), Res!Data) :
           /\ d # "cut_off" /\ values' = Res!Learn(values, Head(item), d)
           /\ kept' = IF Res!Kept(d) /\ d \notin Res!Range(kept) THEN Append(kept, d) ELSE kept
    BY DEF Res!ReadDataEntry
  <1>2. /\ pc = "walk" /\ item # <<>> /\ item' = Tail(item)
        /\ UNCHANGED <<pc, file, header, read, table>>
    BY DEF Res!ReadDataEntry
  <1>3. Plain(file) /\ TreeParts
    <2>1. Grown(file, file')
      BY <1>2 DEF Grown
    <2> QED
      BY <2>1, TreeBefore, TreePlain DEF TreeInv, ResInv
  <1>4. PICK ty, nm, lg : Visited(file, values, kept, header, read, item, ty, nm, lg)
    BY <1>2, <1>3 DEF TreeParts, NoneLeft, Walking
  <1>5. PICK b : b = Head(item)
    OBVIOUS
  <1>6. Grown(values, values') /\ b \in DOMAIN values' /\ values'[b] = d
    <2>1. d \in Res!Contents(values, b, Res!Data) /\ values' = Res!Learn(values, b, d)
      BY <1>1, <1>5
    <2> QED
      BY <2>1 DEF Res!Contents, Res!Learn, Grown
  <1>7. Visited(file, values', kept', header, read, Tail(item), ty, nm, Append(lg, Head(item)))
    <2>1. PICK v, g, kp, more : v = values /\ g = values' /\ kp = kept /\ more = kept'
      OBVIOUS
    <2>2. Grown(v, g) /\ (\A x \in DOMAIN g : g[x] \in Res!Data) /\ kp \in Seq(Places)
      BY <1>6, <2>1 DEF ResInv, ResTypes
    <2>3. Head(item) \in DOMAIN g /\ g[Head(item)] # "cut_off"
      BY <1>1, <1>5, <1>6, <2>1
    <2>4. more = IF Res!Kept(g[Head(item)]) /\ g[Head(item)] \notin Res!Range(kp)
                 THEN Append(kp, g[Head(item)]) ELSE kp
      BY <1>1, <1>5, <1>6, <2>1
    <2>5. Visited(file, v, kp, header, read, item, ty, nm, lg)
      BY <1>4, <2>1
    <2>6. Visited(file, g, more, header, read, Tail(item), ty, nm, Append(lg, Head(item)))
      BY <1>2, <1>3, <2>2, <2>3, <2>4, <2>5, VisitData
    <2> QED
      BY <2>1, <2>6
  <1>8. Walking(file', values', kept', header', read', item')
    BY <1>2, <1>7 DEF Walking
  <1> QED
    BY <1>2, <1>8 DEF TreeParts

\* A data entry cannot be read.
LEMMA TreeCutOff ==
    ASSUME ResTypes, ResTypes', TreeInv, Res!DataEntryFails
    PROVE  TreeInv'
  <1> SUFFICES ASSUME Res!NoOffsetZero' PROVE TreeParts'
    BY DEF TreeInv
  <1>1. /\ "cut_off" \in Res!Contents(values, Head(item), Res!Data)
        /\ values' = Res!Learn(values, Head(item), "cut_off")
    BY DEF Res!DataEntryFails
  <1>2. /\ pc = "walk" /\ item # <<>> /\ item' = <<>> /\ read' = <<>> /\ header' = <<>>
        /\ UNCHANGED <<pc, file, kept, table>>
    BY DEF Res!DataEntryFails
  <1>3. Plain(file) /\ TreeParts
    <2>1. Grown(file, file')
      BY <1>2 DEF Grown
    <2> QED
      BY <2>1, TreeBefore, TreePlain DEF TreeInv
  <1>4. PICK ty, nm, lg : Visited(file, values, kept, header, read, item, ty, nm, lg)
    BY <1>2, <1>3 DEF TreeParts, NoneLeft, Walking
  <1>5. PICK b : b = Head(item)
    OBVIOUS
  <1>6. Grown(values, values') /\ b \in DOMAIN values' /\ values'[b] = "cut_off"
    <2>1. /\ "cut_off" \in Res!Contents(values, b, Res!Data)
          /\ values' = Res!Learn(values, b, "cut_off")
      BY <1>1, <1>5
    <2> QED
      BY <2>1 DEF Res!Contents, Res!Learn, Grown
  <1>7. \E all : Cut(file, values', kept, lg, all)
    <2>1. PICK v, g : v = values /\ g = values'
      OBVIOUS
    <2>2. Grown(v, g) /\ Head(item) \in DOMAIN g /\ g[Head(item)] = "cut_off"
      BY <1>5, <1>6, <2>1
    <2>3. Visited(file, v, kept, header, read, item, ty, nm, lg)
      BY <1>4, <2>1
    <2>4. \E all : Cut(file, g, kept, lg, all)
      BY <1>2, <1>3, <2>2, <2>3, VisitCutOff
    <2> QED
      BY <2>1, <2>4
  <1>8. Stopped(file', values', kept')
    BY <1>2, <1>7 DEF Stopped
  <1>9. NoneLeft'
    BY <1>2 DEF NoneLeft
  <1> QED
    BY <1>2, <1>8, <1>9 DEF TreeParts

\* The walk ends, and the bytes of the resources are read.
LEMMA TreeRest ==
    ASSUME TreeInv, Res!EndWalk \/ Res!GetRawData \/ Res!EndRawData
    PROVE  TreeInv'
  <1> SUFFICES ASSUME Res!NoOffsetZero' PROVE TreeParts'
    BY DEF TreeInv
  <1>1. UNCHANGED <<file, values, header, read, item, kept>>
    BY DEF Res!EndWalk, Res!GetRawData, Res!EndRawData
  <1>2. TreeParts
    <2>1. Grown(file, file')
      BY <1>1 DEF Grown
    <2> QED
      BY <2>1, TreeBefore DEF TreeInv
  <1>3. NoneLeft /\ pc \in {"walk", "raw", "done"} /\ pc' \in {"raw", "done"}
    <2>1. CASE Res!EndWalk
      BY <2>1 DEF Res!EndWalk, NoneLeft
    <2>2. CASE Res!GetRawData
      BY <1>2, <2>2 DEF Res!GetRawData, TreeParts
    <2>3. CASE Res!EndRawData
      BY <1>2, <2>3 DEF Res!EndRawData, TreeParts
    <2> QED
      BY <2>1, <2>2, <2>3
  <1>4. NoneLeft'
    BY <1>1, <1>3 DEF NoneLeft
  <1>5. \/ Walking(file', values', kept', header', read', item')
        \/ Stopped(file', values', kept')
    BY <1>1, <1>2, <1>3 DEF TreeParts
  <1> QED
    BY <1>3, <1>4, <1>5 DEF TreeParts

\* TreeInv holds throughout the function.
LEMMA TreeAlways == Spec => []TreeOK
  <1>1. Init => TreeOK
    BY DEF Init, Res!Init, TreeOK, TreeInv, TreeParts, NoneLeft
  <1>2. ResOK /\ ResOK' /\ TreeOK /\ [Next]_vars => TreeOK'
    <2> SUFFICES ASSUME ResOK, ResOK', TreeOK, [Next]_vars, directory' = "resources"
                 PROVE  TreeInv'
      BY DEF TreeOK
    <2>1. ResInv /\ TreeInv /\ (Res!Step \/ UNCHANGED vars)
      BY OneParser DEF ResOK, TreeOK
    <2>2. ResTypes /\ ResTypes'
      BY <2>1 DEF ResOK, ResInv
    <2>3. CASE Res!Step
      BY <2>1, <2>2, <2>3, TreeRoot, TreeType, TreeName, TreeData, TreeCutOff, TreeRest
         DEF Res!Step
    <2>4. CASE UNCHANGED vars
      <3>1. UNCHANGED <<pc, file, values, header, read, item, kept>>
        BY <2>4 DEF vars, tableVars, richVars
      <3>2. Res!NoOffsetZero' => Res!NoOffsetZero
        BY <3>1 DEF Res!NoOffsetZero
      <3> QED
        BY <2>1, <3>1, <3>2 DEF TreeInv, TreeParts, NoneLeft
    <2> QED
      BY <2>1, <2>3, <2>4
  <1> QED
    BY <1>1, <1>2, ResAlways, PTL DEF Spec
\* The tree that WalkMatchesTree speaks of is that of what is known in file.
LEMMA TreeIs ==
    /\ Res!Entries(0) = EntriesIn(file, 0)
    /\ \A s : Res!Below(s) = BelowIn(file, s)
    /\ Res!Flattened = BelowIn(file, BelowIn(file, EntriesIn(file, 0)))
  <1>1. \A b : Res!Entries(b) = EntriesIn(file, b)
    BY DEF Res!Entries, EntriesIn
  <1>2. ASSUME NEW s PROVE Res!Below(s) = BelowIn(file, s)
    <2>1. [k \in DOMAIN s |-> Res!Entries(s[k])] = PiecesIn(file, s)
      BY <1>1 DEF PiecesIn
    <2> QED
      BY <2>1 DEF Res!Below, BelowIn
  <1> QED
    BY <1>1, <1>2 DEF Res!Flattened

\* A walk that was not cut off reached every data entry.
LEMMA ReachedAll ==
    ASSUME NEW lg \in Seq(Off), Res!Flattened = lg,
           \A k \in DOMAIN lg : lg[k] \in DOMAIN values /\ values[lg[k]] # "cut_off"
    PROVE  Res!Reached = lg
  <1>1. PICK n \in Nat : n = Len(lg) /\ DOMAIN lg = 1..n
    BY LenProperties
  <1>2. {k \in 1..Len(lg) : lg[k] \in DOMAIN values => values[lg[k]] = "cut_off"} = {}
    BY <1>1
  <1> QED
    BY <1>2 DEF Res!Reached, Res!SelectInSeq

\* The least number of a set.
LEMMA LeastIs ==
    ASSUME NEW S \in SUBSET Nat, NEW n \in S, \A k \in S : n <= k
    PROVE  Res!Min(S) = n
  <1>1. PICK x : x = Res!Min(S)
    OBVIOUS
  <1>2. x = CHOOSE y \in S : \A k \in S : y =< k
    BY <1>1 DEF Res!Min
  <1>3. x \in S /\ \A k \in S : x =< k
    BY <1>2
  <1> QED
    BY <1>1, <1>3

\* One that was cut off reached those before.
LEMMA ReachedPart ==
    ASSUME NEW lg \in Seq(Off), NEW a \in Seq(Off), Res!Flattened = a,
           Len(lg) < Len(a), \A k \in 1..Len(lg) : a[k] = lg[k],
           \A k \in DOMAIN lg : lg[k] \in DOMAIN values /\ values[lg[k]] # "cut_off",
           a[Len(lg) + 1] \in DOMAIN values, values[a[Len(lg) + 1]] = "cut_off"
    PROVE  Res!Reached = lg
  <1>1. PICK n \in Nat : n = Len(lg) /\ DOMAIN lg = 1..n
    BY LenProperties
  <1>2. PICK m \in Nat : /\ Len(a) = m /\ n < m /\ a[n + 1] \in DOMAIN values
                         /\ values[a[n + 1]] = "cut_off" /\ \A k \in 1..n : a[k] = lg[k]
    BY <1>1
  <1>3. PICK I : I = {k \in 1..Len(a) : a[k] \in DOMAIN values => values[a[k]] = "cut_off"}
    OBVIOUS
  <1>4. n + 1 \in I /\ I \in SUBSET Nat
    BY <1>2, <1>3
  <1>5. \A k \in I : n + 1 <= k
    <2> SUFFICES ASSUME NEW k \in I, ~(n + 1 <= k) PROVE FALSE
      OBVIOUS
    <2>1. k \in 1..n
      BY <1>2, <1>3
    <2>2. a[k] = lg[k] /\ lg[k] \in DOMAIN values /\ values[lg[k]] # "cut_off"
      BY <1>1, <1>2, <2>1
    <2> QED
      BY <1>3, <2>2
  <1>6. Res!Min(I) = n + 1
    BY <1>4, <1>5, LeastIs
  <1>7. Res!Reached = SubSeq(a, 1, (n + 1) - 1)
    <2>1. Res!Reached = LET cut == IF I # {} THEN Res!Min(I) ELSE 0
                        IN  IF cut = 0 THEN a ELSE SubSeq(a, 1, cut - 1)
      BY <1>3 DEF Res!Reached, Res!SelectInSeq
    <2>2. n + 1 # 0
      OBVIOUS
    <2> QED
      BY <1>4, <1>6, <2>1, <2>2
  <1>8. PICK z : z = SubSeq(a, 1, n)
    OBVIOUS
  <1>9. z \in Seq(Off) /\ Len(z) = n /\ \A k \in 1..n : z[k] = a[k]
    <2>1. \A k \in 1..n : k \in 1..Len(a)
      BY <1>2
    <2>2. n \in 0..Len(a)
      BY <1>2
    <2> QED
      BY <1>2, <1>8, <2>1, <2>2
  <1>10. z = lg
    BY <1>1, <1>2, <1>9, SeqEqual, SMTT(30)
  <1>11. (n + 1) - 1 = n
    OBVIOUS
  <1> QED
    BY <1>7, <1>8, <1>10, <1>11

\* The list is what the data entries that were reached define.
LEMMA ListedIsExpected ==
    ASSUME NEW lg \in Seq(Off), Res!Reached = lg, kept \in Seq(Places),
           Listed(values, kept, lg)
    PROVE  kept = Res!Expected
  <1>1. PICK e : SeenFirst(e, kept, DataIn(values, lg))
    BY DEF Listed
  <1>2. Res!Once(DataIn(values, lg)) = kept
    BY <1>1, OnceIs
  <1> QED
    BY <1>2 DEF Res!Expected, DataIn

\* The list, when the walk has ended.
LEMMA TreeListed ==
    ASSUME ResInv, TreeInv, Res!NoOffsetZero, pc \in {"raw", "done"}
    PROVE  Res!NothingPassedOver /\ kept = Res!Expected
  <1>1. /\ header = <<>> /\ read = <<>> /\ item = <<>> /\ kept \in Seq(Places)
        /\ Walking(file, values, kept, header, read, item) \/ Stopped(file, values, kept)
    BY DEF TreeInv, TreeParts, NoneLeft, ResInv, ResTypes
  <1>2. CASE Walking(file, values, kept, header, read, item)
    <2>1. PICK ty, nm, lg : Visited(file, values, kept, <<>>, <<>>, <<>>, ty, nm, lg)
      BY <1>1, <1>2 DEF Walking
    <2>2. /\ ty \in Seq(Off) /\ nm \in Seq(Off) /\ lg \in Seq(Off)
          /\ EntriesIn(file, 0) = Joined(ty, <<>>)
          /\ \A k \in DOMAIN ty : ty[k] \in DOMAIN file
          /\ \A k \in DOMAIN nm : nm[k] \in DOMAIN file
          /\ BelowIn(file, ty) = Joined(nm, <<>>) /\ BelowIn(file, nm) = Joined(lg, <<>>)
          /\ Listed(values, kept, lg)
      BY <2>1 DEF Visited
    <2>3. Joined(ty, <<>>) = ty /\ Joined(nm, <<>>) = nm /\ Joined(lg, <<>>) = lg
      BY <2>2, JoinedIs
    <2>4. Res!Entries(0) = ty /\ Res!Below(ty) = nm /\ Res!Flattened = lg
      BY <2>2, <2>3, TreeIs
    <2>5. \A k \in DOMAIN lg : lg[k] \in DOMAIN values /\ values[lg[k]] # "cut_off"
      BY <2>2 DEF Listed
    <2>6. Res!Reached = lg
      BY <2>2, <2>4, <2>5, ReachedAll
    <2>7. Res!NothingPassedOver
      <3>1. Res!Range(ty) \cup Res!Range(nm) \subseteq DOMAIN file
        BY <2>2 DEF Res!Range
      <3>2. Res!Range(lg) \subseteq DOMAIN values
        BY <2>5 DEF Res!Range
      <3> QED
        BY <2>4, <3>1, <3>2 DEF Res!NothingPassedOver
    <2> QED
      BY <1>1, <2>2, <2>6, <2>7, ListedIsExpected
  <1>3. CASE Stopped(file, values, kept)
    <2>1. PICK lg, all : Cut(file, values, kept, lg, all)
      BY <1>3 DEF Stopped
    <2>2. /\ lg \in Seq(Off) /\ all \in Seq(Off) /\ Res!Flattened = all
          /\ Len(lg) < Len(all) /\ \A k \in 1..Len(lg) : all[k] = lg[k]
          /\ all[Len(lg) + 1] \in DOMAIN values /\ values[all[Len(lg) + 1]] = "cut_off"
          /\ Listed(values, kept, lg)
      BY <2>1, TreeIs DEF Cut
    <2>3. \A k \in DOMAIN lg : lg[k] \in DOMAIN values /\ values[lg[k]] # "cut_off"
      BY <2>2 DEF Listed
    <2>4. Res!Reached = lg
      BY <2>2, <2>3, ReachedPart
    <2>5. Res!NothingPassedOver
      <3>1. "cut_off" \in Res!Range(values)
        BY <2>2 DEF Res!Range
      <3> QED
        BY <3>1 DEF Res!NothingPassedOver
    <2> QED
      BY <1>1, <2>2, <2>4, <2>5, ListedIsExpected
  <1> QED
    BY <1>1, <1>2, <1>3

\* For every resource directory whose entries have no offset 0, however its blocks share,
\* repeat or enclose each other, the list that the walk leaves is the tree of the file,
\* flattened in order, every place where it is first seen, up to the first data entry that
\* cannot be read; a broken directory loses nothing but itself; and get_raw_data leaves no
\* file open unless an allocation is refused (_parse_resources, resources.cpp:114-257, and
\* Resource::get_raw_data, resources.cpp:263-305).
THEOREM ResourcesFollowTree == Spec => []ResourcesMatchTree
  <1>1. ResOK /\ TreeOK => ResourcesMatchTree
    <2> SUFFICES ASSUME ResOK, TreeOK, directory = "resources"
                 PROVE  Res!WalkMatchesTree
      BY DEF ResourcesMatchTree
    <2>1. ResInv /\ TreeInv
      BY DEF ResOK, TreeOK
    <2>2. Res!ListedOnce /\ Res!FilesAreClosed
      BY <2>1, ResListed
    <2> QED
      BY <2>1, <2>2, TreeListed DEF Res!WalkMatchesTree
  <1> QED
    BY <1>1, ResAlways, TreeAlways, PTL

-------------------------------------------------------------------------------
(* The types of all parsers.                                               *)

Parsers ==
    {"relocations", "certificates", "config", "rich", "headers", "imports", "exports",
     "debug", "tls", "resources", "version", "icons", "addresses", "digest"}

KnownParser == directory \in Parsers

\* A call is one of one of the parsers.
LEMMA KnownAlways == Spec => []KnownParser
  <1>1. Init => KnownParser
    BY DEF Init, KnownParser, Parsers
  <1>2. KnownParser /\ [Next]_vars => KnownParser'
    BY OneParser DEF KnownParser
  <1> QED
    BY <1>1, <1>2, PTL DEF Spec

\* The types of the headers.
LEMMA HdrTyped ==
    ASSUME HdrInv
    PROVE  Hdr!TypeOK
  <1>1. /\ table \in FileSizes /\ cursor \in Nat /\ Len(values) <= 1
        /\ item.size \in StringSizes \cup {0} /\ read \in BOOLEAN
    BY DEF HdrInv, HdrTypes
  <1>2. Len(kept) <= header.sections
    <2>1. header.sections \in Nat /\ Len(<<>>) = 0
      BY DEF HdrInv, HdrTypes
    <2>2. CASE kept = <<>>
      BY <2>1, <2>2
    <2>3. CASE kept # <<>>
      <3>1. pc \in {"sections", "failed"} \cup After
        BY <2>3 DEF HdrInv, HdrParts, Before
      <3> QED
        BY <2>1, <3>1 DEF HdrInv, HdrParts, SectionsInStep, SectionsAreWhole
    <2> QED
      BY <2>2, <2>3
  <1>3. count \in 0..MaxSymbols
    <2>1. PICK s \in 0..MaxSymbols : s = header.symbols
      BY DEF HdrInv, HdrTypes
    <2>2. PICK c \in Nat : c = count /\ c <= s
      BY <2>1 DEF HdrInv, HdrTypes
    <2>3. MaxSymbols \in Nat
      BY HeaderAssumption
    <2> QED
      BY <2>2, <2>3
  <1> QED
    BY <1>1, <1>2, <1>3 DEF Hdr!TypeOK

\* The types of the imports.
LEMMA ImpTyped ==
    ASSUME ImpInv
    PROVE  Imp!TypeOK
  <1>1. item \subseteq DOMAIN kept
    BY ImpCut DEF ImpInv
  <1>2. count \in 1..(MaxLibraries + 1)
    BY ImportAssumption DEF ImpInv, ImpTypes
  <1>3. Len(kept) <= MaxLibraries + 1 /\ Len(values) <= 1
    BY DEF ImpInv, ImpTypes
  <1> QED
    BY <1>1, <1>2, <1>3 DEF Imp!TypeOK

\* The types of the exports.
LEMMA ExpTyped ==
    ASSUME ExpInv
    PROVE  Exp!TypeOK
  <1>1. /\ pc \in {"directory", "functions", "tables", "names", "done"}
        /\ kept \in Seq(ExpFunction)
        /\ Len(kept) <= item.functions /\ Len(values) <= item.names
    BY DEF ExpInv, ExpTypes
  <1> QED
    BY <1>1, Zenon DEF Exp!TypeOK, ExpFunction, ExportName, NoName

\* The types of the other parsers.
LEMMA OthersTyped ==
    /\ RelocInv => Reloc!TypeOK
    /\ CertInv => Cert!TypeOK
    /\ ConfInv => Conf!TypeOK
    /\ RichInv => Rich!TypeOK
    /\ AddrInv => Addr!TypeOK
  BY DEF RelocInv, CertInv, ConfInv, RichInv, RichTypes, AddrInv

\* The types of the debug directory.
LEMMA DebugTyped ==
    ASSUME DebugInv
    PROVE  Debug!TypeOK
  <1>1. PICK q \in Nat, k \in Nat, s \in Nat : q = table \div 28 /\ k = count /\ s = left
    BY DEF DebugInv, DebugTypes
  <1>2. k <= q /\ s <= DebugEnd /\ DebugEnd \in Nat
    BY <1>1, DebugAssumption DEF DebugInv, DebugTypes
  <1>3. k \in 0..q /\ s \in 0..DebugEnd
    BY <1>2
  <1>4. item.max \in 0..(Wrap - 1) /\ cursor \in Nat
    BY DEF DebugInv, DebugTypes, DebugName
  <1> QED
    BY <1>1, <1>3, <1>4 DEF Debug!TypeOK, Debug!EntrySize

\* The types of the TLS directory, of the resources and of what is made of them.
LEMMA RestTyped ==
    /\ TlsInv => TLS!TypeOK
    /\ ResInv => Res!TypeOK
    /\ VerInv => Ver!TypeOK
    /\ IconInv => Icon!TypeOK
    /\ DigInv => Dig!TypeOK
  <1>1. TlsInv => TLS!TypeOK
    BY DEF TlsInv, TLS!TypeOK
  <1>2. ResInv => Res!TypeOK
    BY DEF ResInv, ResTypes, Res!TypeOK
  <1>3. VerInv => Ver!TypeOK
    BY DEF VerInv, VerTypes, Ver!TypeOK, Ver!Lengths
  <1>4. IconInv => Icon!TypeOK
    <2> SUFFICES ASSUME IconInv PROVE Icon!TypeOK
      OBVIOUS
    <2>1. PICK n \in Nat, k \in Nat : n = item.count /\ k = count /\ k <= n
      BY DEF IconInv
    <2>2. k \in 0..n
      BY <2>1
    <2> QED
      BY <2>1, <2>2 DEF IconInv, Icon!TypeOK
  <1>5. DigInv => Dig!TypeOK
    BY DEF DigInv, DigTypes, Dig!TypeOK
  <1> QED
    BY <1>1, <1>2, <1>3, <1>4, <1>5

\* Every parser keeps its locals and results within their types, for every size of the
\* file and whatever its tables claim: cursors stay numbers of the file, and differences
\* of the 32 bits they are computed in (the parsers of manape/ and of the plugins, see
\* TypeOK of each module).
THEOREM ParsersAreTyped == Spec => []TypeOK
  <1> DEFINE Invs ==
        /\ RelocOK /\ CertOK /\ ConfOK /\ RichOK /\ HdrOK /\ ImpOK /\ ExpOK
        /\ DebugOK /\ TlsOK /\ ResOK /\ VerOK /\ IconOK /\ AddrOK /\ DigOK
  <1>1. KnownParser /\ Invs => TypeOK
    <2> SUFFICES ASSUME KnownParser, Invs PROVE TypeOK
      OBVIOUS
    <2>1. CASE directory = "relocations"
      BY <2>1, OthersTyped, Zenon DEF TypeOK, RelocOK
    <2>2. CASE directory = "certificates"
      BY <2>2, OthersTyped DEF TypeOK, CertOK
    <2>3. CASE directory = "config"
      BY <2>3, OthersTyped DEF TypeOK, ConfOK
    <2>4. CASE directory = "rich"
      BY <2>4, OthersTyped DEF TypeOK, RichOK
    <2>5. CASE directory = "headers"
      BY <2>5, HdrTyped DEF TypeOK, HdrOK
    <2>6. CASE directory = "imports"
      BY <2>6, ImpTyped DEF TypeOK, ImpOK
    <2>7. CASE directory = "exports"
      BY <2>7, ExpTyped DEF TypeOK, ExpOK
    <2>8. CASE directory = "debug"
      BY <2>8, DebugTyped DEF TypeOK, DebugOK
    <2>9. CASE directory = "tls"
      BY <2>9, RestTyped DEF TypeOK, TlsOK
    <2>10. CASE directory = "resources"
      BY <2>10, RestTyped DEF TypeOK, ResOK
    <2>11. CASE directory = "version"
      BY <2>11, RestTyped DEF TypeOK, VerOK
    <2>12. CASE directory = "icons"
      BY <2>12, RestTyped DEF TypeOK, IconOK
    <2>13. CASE directory = "addresses"
      BY <2>13, OthersTyped DEF TypeOK, AddrOK
    <2>14. CASE directory = "digest"
      BY <2>14, RestTyped DEF TypeOK, DigOK
    <2> QED
      BY <2>1, <2>2, <2>3, <2>4, <2>5, <2>6, <2>7, <2>8, <2>9, <2>10, <2>11, <2>12,
         <2>13, <2>14 DEF KnownParser, Parsers
  <1> QED
    BY <1>1, KnownAlways, RelocAlways, CertAlways, ConfAlways, RichAlways, HdrAlways,
       ImpAlways, ExpAlways, DebugAlways, TlsAlways, ResAlways, VerAlways, IconAlways,
       AddrAlways, DigAlways, PTL

-------------------------------------------------------------------------------
(* Every step brings a parser nearer to its end.                           *)

\* What is left of a when b of it is done.
Rest(a, b) == IF b < a THEN a - b ELSE 0

\* Numbers are left, and fewer of them when more is done.
LEMMA RestIs ==
    /\ \A a, b \in Int : Rest(a, b) \in Nat
    /\ \A a, b, c \in Int : b < a /\ b < c => Rest(a, c) < Rest(a, b)
  BY DEF Rest

\* Four numbers, of which the first counts most: there is no infinite descent.
Ranks == Nat \X Nat \X Nat \X Nat

Descends(u, v) ==
    /\ u \in Ranks /\ v \in Ranks
    /\ \/ u[1] < v[1]
       \/ u[1] = v[1] /\ u[2] < v[2]
       \/ u[1] = v[1] /\ u[2] = v[2] /\ u[3] < v[3]
       \/ u[1] = v[1] /\ u[2] = v[2] /\ u[3] = v[3] /\ u[4] < v[4]

\* The blocks of relocations are bounded by the bytes of the file.
RelocRank ==
    <<IF pc \in {"header", "entries"} THEN 1 ELSE 0, left,
      IF pc = "entries" THEN 1 ELSE 0, 0>>

\* So are the certificates: remaining_bytes may wrap around.
CertRank ==
    <<IF pc \in {"header", "data"} THEN 1 ELSE 0, left, IF pc = "data" THEN 1 ELSE 0, 0>>

\* The tail of a load configuration has few fields.
ConfStage ==
    CASE pc = "fixed" -> 4 [] pc = "seh" -> 3 [] pc = "tail" -> 2 [] pc = "set" -> 1
      [] OTHER -> 0

ConfRank == <<ConfStage, Rest(11, next), 0, 0>>

\* The rich header is searched forwards and read backwards.
RichStage ==
    CASE pc = "search" -> 3 [] pc = "key" -> 2 [] pc = "back" -> 1 [] OTHER -> 0

RichRank ==
    <<RichStage, IF pc = "search" THEN Rest(Len(file), cursor) ELSE cursor, 0, 0>>

\* The loops of the constructor count up to numbers of the headers.
HdrStage ==
    CASE pc = "dos" -> 9 [] pc = "pe" -> 8 [] pc = "optional" -> 7 [] pc = "directories" -> 6
      [] pc = "reach_sections" -> 5 [] pc = "sections" -> 4 [] pc = "coff" -> 3
      [] pc = "symbols" -> 2 [] pc = "strings" -> 1 [] OTHER -> 0

HdrLoop ==
    CASE pc = "directories" -> Rest(Hdr!Directories(values[1].announced), values[1].read)
      [] pc = "sections" -> Rest(header.sections, Len(kept))
      [] pc = "symbols" -> Rest(header.symbols, count)
      [] pc = "strings" -> Rest(item.size, item.count)
      [] OTHER -> 0

HdrRank == <<HdrStage, HdrLoop, 0, 0>>

\* There are no more descriptors than MaxLibraries (in the code: than the file has room
\* for), and in a lookup table no more functions than the limit of the code and one.
ImpStage ==
    CASE pc = "descriptors" -> 4 [] pc = "lookup" -> 3 [] pc = "delay" -> 2
      [] pc = "delay_lookup" -> 1 [] OTHER -> 0

ImpLoop ==
    CASE pc = "descriptors" -> Rest(MaxLibraries, Len(kept))
      [] pc = "lookup" -> Rest(Len(kept) + 1, count)
      [] pc = "delay_lookup" -> Rest(ImportLimit + 1, Len(values[1].functions))
      [] OTHER -> 0

ImpLookup ==
    IF pc = "lookup" /\ count <= Len(kept)
    THEN Rest(ImportLimit + 1, Len(kept[count].functions)) ELSE 0

ImpRank == <<ImpStage, ImpLoop, ImpLookup, 0>>

\* The export directory announces its functions and their names.
ExpStage ==
    CASE pc = "directory" -> 4 [] pc = "functions" -> 3 [] pc = "tables" -> 2
      [] pc = "names" -> 1 [] OTHER -> 0

ExpLoop ==
    CASE pc = "functions" -> Rest(item.functions, Len(kept))
      [] pc = "names" -> Rest(item.names, Len(values))
      [] OTHER -> 0

ExpRank == <<ExpStage, ExpLoop, 0, 0>>

\* The entries of the debug directory are counted; a name ends with the file.
DebugStage ==
    CASE pc = "entry" -> 3 [] pc \in {"codeview", "misc"} -> 2 [] OTHER -> 1

DebugRank ==
    <<IF pc \in {"done", "failed"} THEN 0 ELSE 1, Rest(table \div 28, count), DebugStage,
      IF pc = "name" THEN Rest(DebugEnd, cursor) ELSE 0>>

\* The callbacks end with the file.
TlsStage == CASE pc = "directory" -> 2 [] pc = "callbacks" -> 1 [] OTHER -> 0

TlsRank == <<TlsStage, Rest(left, count), 0, 0>>

\* A directory of resources is left when its last entry has been visited, and none of
\* the lower levels is left to be visited again: the walk has three levels, whatever
\* the offsets of the entries are.
ResStage == CASE pc = "root" -> 3 [] pc = "walk" -> 2 [] pc = "raw" -> 1 [] OTHER -> 0

ResRank ==
    <<ResStage, IF pc = "raw" THEN Rest(Len(kept), cursor) ELSE Len(header), Len(read),
      Len(item)>>

\* The strings of a version resource take something from the table, but for one of
\* length 0: that one is read once, and then for ever.
VerStage ==
    CASE pc = "version" -> 6 [] pc = "fixed" -> 5 [] pc = "info" -> 4
      [] pc = "string_file_info" -> 3 [] pc = "table" -> 2 [] pc = "strings" -> 1
      [] OTHER -> 0

VerRank == <<VerStage, remaining, IF item = 0 THEN 0 ELSE 1, 0>>

\* The icons of a group are counted twice.
IconStage ==
    CASE pc = "group" -> 3 [] pc = "entries" -> 2 [] pc = "build" -> 1 [] OTHER -> 0

IconRank ==
    <<IconStage, IF pc = "build" THEN Rest(item.count, Len(kept)) ELSE Rest(item.count, count),
      0, 0>>

\* An address is translated at once.
AddrRank == <<IF pc = "asked" THEN 1 ELSE 0, 0, 0, 0>>

\* A read of the rest of the file returns something.
DigStage ==
    CASE pc = "start" -> 4 [] pc = "security" -> 3 [] pc = "compare" -> 2 [] pc = "rest" -> 1
      [] OTHER -> 0

DigRank == <<DigStage, remaining, 0, 0>>

\* What the parser that was called still has to do.
Rank ==
    CASE directory = "relocations"  -> RelocRank
      [] directory = "certificates" -> CertRank
      [] directory = "config"       -> ConfRank
      [] directory = "rich"         -> RichRank
      [] directory = "headers"      -> HdrRank
      [] directory = "imports"      -> ImpRank
      [] directory = "exports"      -> ExpRank
      [] directory = "debug"        -> DebugRank
      [] directory = "tls"          -> TlsRank
      [] directory = "resources"    -> ResRank
      [] directory = "version"      -> VerRank
      [] directory = "icons"        -> IconRank
      [] directory = "addresses"    -> AddrRank
      [] directory = "digest"       -> DigRank

\* The ranks are made of natural numbers: those of the first tables,
LEMMA FirstRanked ==
    /\ RelocInv => RelocRank \in Ranks
    /\ CertInv => CertRank \in Ranks
    /\ ConfInv => ConfRank \in Ranks
    /\ RichInv => RichRank \in Ranks
  <1>1. RelocInv => RelocRank \in Ranks
    BY AvailableAssumption DEF RelocInv, Reloc!TypeOK, RelocRank, Ranks
  <1>2. CertInv => CertRank \in Ranks
    BY AvailableAssumption DEF CertInv, Cert!TypeOK, CertRank, Ranks
  <1>3. ConfInv => ConfRank \in Ranks
    <2> SUFFICES ASSUME ConfInv PROVE ConfRank \in Ranks
      OBVIOUS
    <2>1. next \in Int /\ ConfStage \in Nat
      BY DEF ConfInv, Conf!TypeOK, ConfStage
    <2>2. Rest(11, next) \in Nat
      BY <2>1, RestIs
    <2> QED
      BY <2>1, <2>2 DEF ConfRank, Ranks
  <1>4. RichInv => RichRank \in Ranks
    <2> SUFFICES ASSUME RichInv PROVE RichRank \in Ranks
      OBVIOUS
    <2>1. PICK n \in Nat, c \in Nat : n = Len(file) /\ c = cursor
      BY DEF RichInv, RichTypes, Rich!TypeOK
    <2>2. RichStage \in Nat
      BY DEF RichStage
    <2>3. Rest(n, c) \in Nat
      BY RestIs
    <2> QED
      BY <2>1, <2>2, <2>3 DEF RichRank, Ranks
  <1> QED
    BY <1>1, <1>2, <1>3, <1>4

\* of the headers, where a loop runs only once its bound has been read,
LEMMA HdrRanked ==
    ASSUME HdrInv
    PROVE  HdrRank \in Ranks
  <1>1. HdrStage \in Nat
    BY DEF HdrStage
  <1>2. CASE pc = "directories"
    <2>1. PICK a \in Nat, r \in Nat : a = values[1].announced /\ r = values[1].read
      <3>1. Len(values) = 1 /\ values \in Seq([announced : Nat, read : Nat])
        BY <1>2 DEF HdrInv, HdrTypes, HdrParts, DirectoriesInStep
      <3> QED
        BY <3>1, OneOptional
    <2>2. PICK d \in Nat : d = Hdr!Directories(values[1].announced)
      BY <2>1 DEF Hdr!Directories
    <2>3. HdrLoop = Rest(d, r)
      BY <1>2, <2>1, <2>2 DEF HdrLoop
    <2>4. Rest(d, r) \in Nat
      BY RestIs
    <2> QED
      BY <1>1, <2>3, <2>4 DEF HdrRank, Ranks
  <1>3. CASE pc = "sections"
    <2>1. PICK s \in Nat, n \in Nat : s = header.sections /\ n = Len(kept)
      BY DEF HdrInv, HdrTypes
    <2>2. HdrLoop = Rest(s, n)
      BY <1>3, <2>1 DEF HdrLoop
    <2>3. Rest(s, n) \in Nat
      BY RestIs
    <2> QED
      BY <1>1, <2>2, <2>3 DEF HdrRank, Ranks
  <1>4. CASE pc = "symbols"
    <2>1. PICK s \in Nat, n \in Nat : s = header.symbols /\ n = count
      BY HeaderAssumption DEF HdrInv, HdrTypes
    <2>2. HdrLoop = Rest(s, n)
      BY <1>4, <2>1 DEF HdrLoop
    <2>3. Rest(s, n) \in Nat
      BY RestIs
    <2> QED
      BY <1>1, <2>2, <2>3 DEF HdrRank, Ranks
  <1>5. CASE pc = "strings"
    <2>1. PICK s \in Nat, n \in Nat : s = item.size /\ n = item.count
      BY HeaderAssumption DEF HdrInv, HdrTypes
    <2>2. HdrLoop = Rest(s, n)
      BY <1>5, <2>1 DEF HdrLoop
    <2>3. Rest(s, n) \in Nat
      BY RestIs
    <2> QED
      BY <1>1, <2>2, <2>3 DEF HdrRank, Ranks
  <1>6. CASE pc \notin {"directories", "sections", "symbols", "strings"}
    <2>1. HdrLoop = 0
      BY <1>6 DEF HdrLoop
    <2> QED
      BY <1>1, <2>1 DEF HdrRank, Ranks
  <1> QED
    BY <1>2, <1>3, <1>4, <1>5, <1>6

\* of the imports,
LEMMA ImpRanked ==
    ASSUME ImpInv
    PROVE  ImpRank \in Ranks
  <1>1. PICK n \in Nat, c \in Nat, m \in Nat, i \in Nat :
            n = Len(kept) /\ c = count /\ m = MaxLibraries /\ i = ImportLimit /\ c >= 1
    BY ImportAssumption DEF ImpInv, ImpTypes
  <1>2. ImpStage \in Nat
    BY DEF ImpStage
  <1>3. ImpLoop \in Nat
    <2>1. Rest(m, n) \in Nat /\ Rest(n + 1, c) \in Nat
      BY RestIs
    <2>2. CASE pc = "delay_lookup"
      <3>1. PICK v \in Nat : v = Len(values[1].functions)
        <4>1. Len(values) = 1 /\ values \in Seq(ImpLibrary)
          BY <2>2 DEF ImpInv, ImpTypes, ImpOpen
        <4>2. values[1] \in ImpLibrary
          BY <4>1
        <4> QED
          BY <4>2 DEF ImpLibrary
      <3>2. Rest(i + 1, v) \in Nat
        BY RestIs
      <3> QED
        BY <1>1, <2>2, <3>1, <3>2 DEF ImpLoop
    <2>3. CASE pc # "delay_lookup"
      BY <1>1, <2>1, <2>3 DEF ImpLoop
    <2> QED
      BY <2>2, <2>3
  <1>4. ImpLookup \in Nat
    <2>1. CASE pc = "lookup" /\ count <= Len(kept)
      <3>1. PICK v \in Nat : v = Len(kept[count].functions)
        <4>1. kept \in Seq(ImpLibrary) /\ count \in 1..Len(kept)
          BY <1>1, <2>1 DEF ImpInv, ImpTypes
        <4>2. kept[count] \in ImpLibrary
          BY <4>1
        <4> QED
          BY <4>2 DEF ImpLibrary
      <3>2. Rest(i + 1, v) \in Nat
        BY RestIs
      <3> QED
        BY <1>1, <2>1, <3>1, <3>2 DEF ImpLookup
    <2>2. CASE ~(pc = "lookup" /\ count <= Len(kept))
      BY <2>2 DEF ImpLookup
    <2> QED
      BY <2>1, <2>2
  <1> QED
    BY <1>2, <1>3, <1>4 DEF ImpRank, Ranks

\* of the exports,
LEMMA ExpRanked ==
    ASSUME ExpInv
    PROVE  ExpRank \in Ranks
  <1>1. PICK f \in Nat, k \in Nat, n \in Nat, v \in Nat :
            f = item.functions /\ k = Len(kept) /\ n = item.names /\ v = Len(values)
    BY DEF ExpInv, ExpTypes
  <1>2. Rest(f, k) \in Nat /\ Rest(n, v) \in Nat
    BY RestIs
  <1>3. ExpStage \in Nat
    BY DEF ExpStage
  <1>4. ExpLoop \in Nat
    BY <1>1, <1>2 DEF ExpLoop
  <1> QED
    BY <1>3, <1>4 DEF ExpRank, Ranks

\* of the debug directory,
LEMMA DebugRanked ==
    ASSUME DebugInv
    PROVE  DebugRank \in Ranks
  <1>1. PICK q \in Nat, k \in Nat, c \in Nat, d \in Nat :
            q = table \div 28 /\ k = count /\ c = cursor /\ d = DebugEnd
    <2>1. table \div 28 \in Nat /\ DebugEnd \in Nat
      BY DebugAssumption DEF DebugInv, DebugTypes
    <2>2. count \in Nat /\ cursor \in Nat
      BY DEF DebugInv, DebugTypes
    <2> QED
      BY <2>1, <2>2, Zenon
  <1>2. Rest(q, k) \in Nat /\ Rest(d, c) \in Nat
    BY RestIs
  <1>3. DebugStage \in Nat
    BY DEF DebugStage
  <1> QED
    BY <1>1, <1>2, <1>3 DEF DebugRank, Ranks

\* of the resources,
LEMMA ResRanked ==
    ASSUME ResInv
    PROVE  ResRank \in Ranks
  <1>1. PICK h \in Nat, r \in Nat, i \in Nat, k \in Nat, c \in Nat :
            h = Len(header) /\ r = Len(read) /\ i = Len(item) /\ k = Len(kept) /\ c = cursor
    BY DEF ResInv, ResTypes
  <1>2. Rest(k, c) \in Nat
    BY RestIs
  <1>3. ResStage \in Nat
    BY DEF ResStage
  <1> QED
    BY <1>1, <1>2, <1>3 DEF ResRank, Ranks

\* and of the others.
LEMMA LastRanked ==
    /\ TlsInv => TlsRank \in Ranks
    /\ VerInv => VerRank \in Ranks
    /\ IconInv => IconRank \in Ranks
    /\ AddrRank \in Ranks
    /\ DigInv => DigRank \in Ranks
  <1>1. TlsInv => TlsRank \in Ranks
    <2> SUFFICES ASSUME TlsInv PROVE TlsRank \in Ranks
      OBVIOUS
    <2>1. left \in Int /\ count \in Int /\ TlsStage \in Nat
      BY DEF TlsInv, TlsStage
    <2>2. Rest(left, count) \in Nat
      BY <2>1, RestIs
    <2> QED
      BY <2>1, <2>2 DEF TlsRank, Ranks
  <1>2. VerInv => VerRank \in Ranks
    <2> SUFFICES ASSUME VerInv PROVE VerRank \in Ranks
      OBVIOUS
    <2>1. remaining \in Nat /\ VerStage \in Nat
      BY LengthAssumption DEF VerInv, VerTypes, VerStage
    <2> QED
      BY <2>1 DEF VerRank, Ranks
  <1>3. IconInv => IconRank \in Ranks
    <2> SUFFICES ASSUME IconInv PROVE IconRank \in Ranks
      OBVIOUS
    <2>1. PICK n \in Nat, k \in Nat, c \in Nat : n = item.count /\ k = Len(kept) /\ c = count
      BY DEF IconInv
    <2>2. Rest(n, k) \in Nat /\ Rest(n, c) \in Nat
      BY RestIs
    <2>3. IconStage \in Nat
      BY DEF IconStage
    <2> QED
      BY <2>1, <2>2, <2>3 DEF IconRank, Ranks
  <1>4. AddrRank \in Ranks
    BY DEF AddrRank, Ranks
  <1>5. DigInv => DigRank \in Ranks
    <2> SUFFICES ASSUME DigInv PROVE DigRank \in Ranks
      OBVIOUS
    <2>1. remaining \in Nat /\ DigStage \in Nat
      BY DEF DigInv, DigTypes, DigStage
    <2> QED
      BY <2>1 DEF DigRank, Ranks
  <1> QED
    BY <1>1, <1>2, <1>3, <1>4, <1>5

\* A step of _parse_relocations reads bytes of the file, or it ends the block or the table.
LEMMA RelocDescends ==
    ASSUME RelocInv, RelocInv', RelocRank \in Ranks, RelocRank' \in Ranks, Reloc!Step
    PROVE  Descends(RelocRank', RelocRank)
  <1>1. left \in Nat /\ left' \in Nat
    BY AvailableAssumption DEF RelocInv, Reloc!TypeOK
  <1> USE <1>1 DEF Reloc!HeaderSize, Reloc!EntrySize, RelocRank, Descends
  <1>3. CASE Reloc!ReadHeader
    BY <1>3 DEF Reloc!ReadHeader
  <1>4. CASE Reloc!HeaderTruncated
    BY <1>4 DEF Reloc!HeaderTruncated
  <1>5. CASE Reloc!ReadEntry
    BY <1>5 DEF Reloc!ReadEntry
  <1>6. CASE Reloc!EntryTruncated
    BY <1>6 DEF Reloc!EntryTruncated
  <1>7. CASE Reloc!EndBlock
    BY <1>7 DEF Reloc!EndBlock
  <1>8. CASE Reloc!EndTable
    BY <1>8 DEF Reloc!EndTable
  <1> QED
    BY <1>3, <1>4, <1>5, <1>6, <1>7, <1>8 DEF Reloc!Step

\* So does a step of _parse_certificates: what it skips for the alignment only adds to it.
LEMMA CertDescends ==
    ASSUME CertInv, CertInv', CertRank \in Ranks, CertRank' \in Ranks, Cert!Step
    PROVE  Descends(CertRank', CertRank)
  <1>1. left \in Nat /\ left' \in Nat
    BY AvailableAssumption DEF CertInv, Cert!TypeOK
  <1>3. CASE Cert!ReadHeader
    BY <1>1, <1>3 DEF Cert!ReadHeader, Cert!HeaderSize, CertRank, Descends
  <1>4. CASE Cert!GiveUp \/ Cert!AllocationFails \/ Cert!DataFails \/ Cert!EndTable
    BY <1>4 DEF Cert!GiveUp, Cert!AllocationFails, Cert!DataFails, Cert!EndTable,
        CertRank, Descends
  <1>5. CASE Cert!ReadData
    <2>1. pc = "data" /\ pc' = "header"
      BY <1>5 DEF Cert!ReadData
    <2>2. left' <= left
      <3>1. PICK d \in Nat : d = Cert!DataSize
        <4>1. item \in Int /\ Wrap \in Nat \ {0}
          BY WrapAssumption DEF CertInv, Cert!TypeOK
        <4> QED
          BY <4>1 DEF Cert!DataSize, Cert!HeaderSize
      <3>2. PICK p \in Nat : p = Cert!Padding
        BY DEF Cert!Padding, Cert!Alignment, CertInv, Cert!TypeOK
      <3>3. \/ left' = IF left - d < p THEN 0 ELSE (left - d) - p
            \/ left' = left - d
        BY <1>5, <3>1, <3>2 DEF Cert!ReadData
      <3> QED
        BY <1>1, <3>1, <3>2, <3>3
    <2> QED
      BY <1>1, <2>1, <2>2 DEF CertRank, Descends
  <1> QED
    BY <1>3, <1>4, <1>5 DEF Cert!Step

\* A step of _parse_config goes on to the next part, or to the next field of the tail.
LEMMA ConfDescends ==
    ASSUME ConfInv, ConfRank \in Ranks, ConfRank' \in Ranks, Conf!Step
    PROVE  Descends(ConfRank', ConfRank)
  <1>1. CASE Conf!ReadFixed \/ Conf!SkipSeh \/ Conf!ReadSeh \/ Conf!SetConfig
    BY <1>1 DEF Conf!ReadFixed, Conf!SkipSeh, Conf!ReadSeh, Conf!SetConfig, ConfRank,
        ConfStage, Descends
  <1>2. CASE Conf!FieldFails
    <2>1. next \in Int /\ field_size \in {4, 8}
      BY DEF ConfInv, Conf!TypeOK
    <2>2. pc = "tail" /\ pc' = "tail" /\ next <= 10 /\ next' = next + 1
      BY <1>2, <2>1, ConfWidths DEF Conf!FieldFails
    <2>3. Rest(11, next') < Rest(11, next)
      BY <2>1, <2>2, RestIs
    <2> QED
      BY <2>2, <2>3 DEF ConfRank, ConfStage, Descends
  <1>3. CASE Conf!FieldRead \/ Conf!ChainEnds
    BY <1>3 DEF Conf!FieldRead, Conf!ChainEnds, ConfRank, ConfStage, Descends
  <1> QED
    BY <1>1, <1>2, <1>3 DEF Conf!Step

\* A step of _parse_rich_header moves the cursor forwards, and later backwards.
LEMMA RichDescends ==
    ASSUME RichInv, RichRank \in Ranks, RichRank' \in Ranks, Rich!Step
    PROVE  Descends(RichRank', RichRank)
  <1>1. PICK n \in Nat, c \in Nat : n = Len(file) /\ c = cursor
    BY DEF RichInv, RichTypes, Rich!TypeOK
  <1>2. file' = file
    BY DEF Rich!Step, Rich!Search, Rich!SearchFails, Rich!ReadKey, Rich!SeekFails,
        Rich!Collect, Rich!StartMarker
  <1>3. CASE Rich!Search
    <2>1. pc = "search" /\ c < n /\ cursor' = c + 1 /\ pc' \in {"key", "search", "done"}
      BY <1>1, <1>3 DEF Rich!Search
    <2>2. Rest(n, c + 1) < Rest(n, c)
      BY <2>1, RestIs
    <2> QED
      BY <1>1, <1>2, <2>1, <2>2 DEF RichRank, RichStage, Descends
  <1>4. CASE Rich!SearchFails \/ Rich!ReadKey \/ Rich!SeekFails \/ Rich!StartMarker
    BY <1>4 DEF Rich!SearchFails, Rich!ReadKey, Rich!SeekFails, Rich!StartMarker, RichRank,
        RichStage, Descends
  <1>5. CASE Rich!Collect
    <2>1. pc = "back" /\ pc' = "back" /\ cursor' = c - 2
      BY <1>1, <1>5 DEF Rich!Collect, Rich!Back
    <2> QED
      BY <1>1, <2>1 DEF RichRank, RichStage, Descends
  <1> QED
    BY <1>3, <1>4, <1>5 DEF Rich!Step
\* A step of the constructor goes on to the next part, or counts.
LEMMA HdrDescends ==
    ASSUME HdrInv, HdrRank \in Ranks, HdrRank' \in Ranks, Hdr!Step
    PROVE  Descends(HdrRank', HdrRank)
  <1>1. CASE Hdr!ReadDosHeader \/ Hdr!DosHeaderFails \/ Hdr!PeHeaderFails
             \/ Hdr!OptionalHeaderFails \/ Hdr!SectionFails
    BY <1>1 DEF Hdr!ReadDosHeader, Hdr!DosHeaderFails, Hdr!PeHeaderFails,
        Hdr!OptionalHeaderFails, Hdr!SectionFails, Hdr!Fail, HdrRank, HdrStage, Descends
  <1>2. CASE Hdr!ReadPeHeader
    <2>1. pc = "pe" /\ pc' \in {"reach_sections", "optional"}
      BY <1>2 DEF Hdr!ReadPeHeader
    <2> QED
      BY <2>1 DEF HdrRank, HdrStage, Descends
  <1>3. CASE Hdr!ReadOptionalHeader \/ Hdr!DirectoryEntryFails \/ Hdr!OptionalHeaderIsRead
             \/ Hdr!ReachSections \/ Hdr!SectionsAreRead
    BY <1>3 DEF Hdr!ReadOptionalHeader, Hdr!DirectoryEntryFails, Hdr!OptionalHeaderIsRead,
        Hdr!ReachSections, Hdr!SectionsAreRead, HdrRank, HdrStage, Descends
  <1>4. CASE Hdr!ReadDirectoryEntry
    <2>1. Len(values) = 1 /\ values \in Seq([announced : Nat, read : Nat])
          /\ pc = "directories"
      BY <1>4 DEF Hdr!ReadDirectoryEntry, HdrInv, HdrTypes, HdrParts, DirectoriesInStep
    <2>2. values' = [values EXCEPT ![1].read = @ + 1] /\ pc' = "directories"
      BY <1>4, <2>1 DEF Hdr!ReadDirectoryEntry
    <2>3. PICK a \in Nat, r \in Nat :
              /\ a = values[1].announced /\ r = values[1].read
              /\ values'[1].announced = a /\ values'[1].read = r + 1
      BY <2>1, <2>2, OneOptional
    <2>4. PICK d \in Nat : d = Hdr!Directories(a) /\ r < d
      BY <1>4, <2>3 DEF Hdr!ReadDirectoryEntry, Hdr!Directories
    <2>5. HdrLoop = Rest(d, r) /\ HdrLoop' = Rest(d, r + 1)
      BY <2>1, <2>2, <2>3, <2>4 DEF HdrLoop
    <2>6. Rest(d, r + 1) < Rest(d, r)
      BY <2>4, RestIs
    <2> QED
      BY <2>1, <2>2, <2>5, <2>6 DEF HdrRank, HdrStage, Descends
  <1>5. CASE Hdr!ReadSection
    <2>1. PICK s \in Nat, n \in Nat : s = header.sections /\ n = Len(kept) /\ n < s
      BY <1>5 DEF Hdr!ReadSection, HdrInv, HdrTypes
    <2>2. pc = "sections" /\ pc' = "sections" /\ header' = header
          /\ \E e : kept' = Append(kept, e)
      BY <1>5 DEF Hdr!ReadSection
    <2>3. Len(kept') = n + 1
      BY <2>1, <2>2 DEF HdrInv, HdrTypes
    <2>4. HdrLoop = Rest(s, n) /\ HdrLoop' = Rest(s, n + 1)
      BY <2>1, <2>2, <2>3 DEF HdrLoop
    <2>5. n < s
      BY <2>1, Zenon
    <2>6. Rest(s, n + 1) < Rest(s, n)
      BY <2>5, RestIs
    <2> QED
      BY <2>2, <2>4, <2>6 DEF HdrRank, HdrStage, Descends
  <1>6. CASE Hdr!ReachSymbols
    BY <1>6 DEF Hdr!ReachSymbols, HdrRank, HdrStage, Descends
  <1>7. CASE Hdr!ReadSymbol
    <2>1. PICK s \in Nat, n \in Nat : s = header.symbols /\ n = count /\ n < s
      BY <1>7, HeaderAssumption DEF Hdr!ReadSymbol, HdrInv, HdrTypes
    <2>2. pc = "symbols" /\ header' = header
          /\ (pc' = "done" \/ (pc' = "symbols" /\ count' = n + 1))
      BY <1>7, <2>1 DEF Hdr!ReadSymbol
    <2>3. CASE pc' = "done"
      BY <2>2, <2>3 DEF HdrRank, HdrStage, Descends
    <2>4. CASE pc' = "symbols" /\ count' = n + 1
      <3>1. HdrLoop = Rest(s, n) /\ HdrLoop' = Rest(s, n + 1)
        BY <2>1, <2>2, <2>4 DEF HdrLoop
      <3>2. n < s
        BY <2>1, Zenon
      <3>3. Rest(s, n + 1) < Rest(s, n)
        BY <3>2, RestIs
      <3> QED
        BY <2>2, <2>4, <3>1, <3>3 DEF HdrRank, HdrStage, Descends
    <2> QED
      BY <2>2, <2>3, <2>4
  <1>8. CASE Hdr!ReadStringTableSize
    <2>1. pc = "symbols" /\ pc' \in {"done", "strings"}
      BY <1>8 DEF Hdr!ReadStringTableSize
    <2> QED
      BY <2>1 DEF HdrRank, HdrStage, Descends
  <1>9. CASE Hdr!ReadString
    <2>1. PICK s \in Nat, n \in Nat : s = item.size /\ n = item.count /\ n < s
      <3>1. item.size \in Nat /\ item.count \in Nat
        BY HeaderAssumption DEF HdrInv, HdrTypes
      <3>2. item.count < item.size
        BY <1>9 DEF Hdr!ReadString
      <3> QED
        BY <3>1, <3>2, Zenon
    <2>2. table \in Nat /\ cursor \in Nat
      BY DEF HdrInv, HdrTypes
    <2>3. PICK l \in 0..(table - cursor) : item' = [item EXCEPT !.count = @ + l + 1]
      BY <1>9 DEF Hdr!ReadString
    <2>4. l \in Nat
      BY <2>2
    <2>5. pc = "strings" /\ pc' = "strings" /\ item'.size = s /\ item'.count = n + l + 1
      BY <1>9, <2>1, <2>3 DEF Hdr!ReadString, HdrInv, HdrTypes
    <2>6. HdrLoop = Rest(s, n) /\ HdrLoop' = Rest(s, n + l + 1)
      BY <2>1, <2>5 DEF HdrLoop
    <2>7. n < s
      BY <2>1, Zenon
    <2>8. n < n + l + 1 /\ n + l + 1 \in Int
      BY <2>4
    <2>9. Rest(s, n + l + 1) < Rest(s, n)
      BY <2>7, <2>8, RestIs
    <2> QED
      BY <2>5, <2>6, <2>9 DEF HdrRank, HdrStage, Descends
  <1>10. CASE Hdr!StringsAreRead
    BY <1>10 DEF Hdr!StringsAreRead, HdrRank, HdrStage, Descends
  <1> QED
    BY <1>1, <1>2, <1>3, <1>4, <1>5, <1>6, <1>7, <1>8, <1>9, <1>10 DEF Hdr!Step

\* A step of _parse_imports adds a library, or a function to one, up to the limit; or it
\* goes on to the next library.
LEMMA ImpDescends ==
    ASSUME ImpInv, ImpRank \in Ranks, ImpRank' \in Ranks, Imp!Step
    PROVE  Descends(ImpRank', ImpRank)
  <1>1. PICK n \in Nat, c \in Nat, m \in Nat, i \in Nat :
            /\ n = Len(kept) /\ c = count /\ m = MaxLibraries /\ i = ImportLimit
            /\ c >= 1
    BY ImportAssumption DEF ImpInv, ImpTypes
  <1>2. kept \in Seq(ImpLibrary) /\ values \in Seq(ImpLibrary)
    BY DEF ImpInv, ImpTypes
  <1>3. CASE Imp!ReadDescriptor
    <2>1. pc = "descriptors" /\ pc' = "descriptors" /\ n < m /\ \E l : kept' = Append(kept, l)
      BY <1>1, <1>3 DEF Imp!ReadDescriptor
    <2>2. Len(kept') = n + 1
      BY <1>1, <1>2, <2>1
    <2>3. ImpLoop = Rest(m, n) /\ ImpLoop' = Rest(m, n + 1)
      BY <1>1, <2>1, <2>2 DEF ImpLoop
    <2>4. Rest(m, n + 1) < Rest(m, n)
      BY <2>1, RestIs
    <2> QED
      BY <2>1, <2>3, <2>4 DEF ImpRank, ImpStage, Descends
  <1>4. CASE Imp!EndDescriptors \/ Imp!DescriptorsFail \/ Imp!LookupFails \/ Imp!EndLookups
             \/ Imp!NoDelayTable \/ Imp!EndDelayLookup \/ Imp!DelayLookupFails
    BY <1>4 DEF Imp!EndDescriptors, Imp!DescriptorsFail, Imp!LookupFails, Imp!EndLookups,
        Imp!NoDelayTable, Imp!EndDelayLookup, Imp!DelayLookupFails, ImpRank, ImpStage,
        Descends
  <1>5. CASE Imp!AddImport
    <2>1. PICK e \in LookupEntries :
              /\ Imp!Accepted(kept[count].functions, e)
              /\ kept' = [kept EXCEPT ![count].functions = Append(@, e)]
      BY <1>5 DEF Imp!AddImport
    <2>2. pc = "lookup" /\ pc' = "lookup" /\ c <= n /\ count' = c
      BY <1>1, <1>5 DEF Imp!AddImport
    <2>3. kept[c] \in ImpLibrary /\ c \in DOMAIN kept
      BY <1>1, <1>2, <2>2
    <2>4. PICK s \in Seq(LookupEntries) : s = kept[c].functions
      BY <2>3 DEF ImpLibrary
    <2>5. PICK v \in Nat : v = Len(s) /\ v <= i
      BY <1>1, <2>1, <2>4 DEF Imp!Accepted
    <2>6. Len(kept') = n /\ kept'[c].functions = Append(s, e)
      BY <1>1, <1>2, <2>1, <2>3, <2>4 DEF ImpLibrary
    <2>7. Len(Append(s, e)) = v + 1
      BY <2>5
    <2>8. ImpLoop' = ImpLoop
      BY <1>1, <2>2, <2>6 DEF ImpLoop
    <2>9. ImpLookup = Rest(i + 1, v) /\ ImpLookup' = Rest(i + 1, v + 1)
      BY <1>1, <2>2, <2>4, <2>5, <2>6, <2>7 DEF ImpLookup
    <2>10. Rest(i + 1, v + 1) < Rest(i + 1, v)
      BY <2>5, RestIs
    <2> QED
      BY <2>2, <2>8, <2>9, <2>10 DEF ImpRank, ImpStage, Descends
  <1>6. CASE Imp!EndLookup
    <2>1. pc = "lookup" /\ pc' = "lookup" /\ c <= n /\ count' = c + 1 /\ kept' = kept
      BY <1>1, <1>6 DEF Imp!EndLookup
    <2>2. ImpLoop = Rest(n + 1, c) /\ ImpLoop' = Rest(n + 1, c + 1)
      BY <1>1, <2>1 DEF ImpLoop
    <2>3. Rest(n + 1, c + 1) < Rest(n + 1, c)
      BY <2>1, RestIs
    <2> QED
      BY <2>1, <2>2, <2>3 DEF ImpRank, ImpStage, Descends
  <1>7. CASE Imp!AddDelayedImport
    <2>1. PICK e \in LookupEntries :
              /\ Imp!Accepted(values[1].functions, e)
              /\ values' = [values EXCEPT ![1].functions = Append(@, e)]
      BY <1>7 DEF Imp!AddDelayedImport
    <2>2. pc = "delay_lookup" /\ pc' = "delay_lookup"
      BY <1>7 DEF Imp!AddDelayedImport
    <2>3. Len(values) = 1
      BY <2>2 DEF ImpInv, ImpOpen
    <2>4. values[1] \in ImpLibrary /\ 1 \in DOMAIN values
      BY <1>2, <2>3
    <2>5. PICK s \in Seq(LookupEntries) : s = values[1].functions
      BY <2>4 DEF ImpLibrary
    <2>6. PICK v \in Nat : v = Len(s) /\ v <= i
      BY <1>1, <2>1, <2>5, SMTT(30) DEF Imp!Accepted
    <2>7. values'[1].functions = Append(s, e)
      BY <1>2, <2>1, <2>4, <2>5 DEF ImpLibrary
    <2>8. Len(Append(s, e)) = v + 1
      BY <2>6
    <2>9. ImpLoop = Rest(i + 1, v) /\ ImpLoop' = Rest(i + 1, v + 1)
      BY <1>1, <2>2, <2>5, <2>6, <2>7, <2>8 DEF ImpLoop
    <2>10. Rest(i + 1, v + 1) < Rest(i + 1, v)
      BY <2>6, RestIs
    <2> QED
      BY <2>2, <2>9, <2>10 DEF ImpRank, ImpStage, Descends
  <1>8. CASE Imp!ReadDelayTable
    <2>1. pc = "delay" /\ pc' = "delay_lookup"
      BY <1>8, Zenon DEF Imp!ReadDelayTable
    <2> QED
      BY <2>1 DEF ImpRank, ImpStage, Descends
  <1> QED
    BY <1>3, <1>4, <1>5, <1>6, <1>7, <1>8 DEF Imp!Step

\* A step of _parse_exports adds a function, or looks at a pair of the name table.
LEMMA ExpDescends ==
    ASSUME ExpInv, ExpRank \in Ranks, ExpRank' \in Ranks, Exp!Step
    PROVE  Descends(ExpRank', ExpRank)
  <1>1. PICK f \in Nat, k \in Nat, n \in Nat, v \in Nat :
            f = item.functions /\ k = Len(kept) /\ n = item.names /\ v = Len(values)
    BY DEF ExpInv, ExpTypes
  <1>2. kept \in Seq(ExpFunction) /\ values \in Seq([ord : Nat, name : ExportName, there : BOOLEAN])
    BY DEF ExpInv, ExpTypes
  <1>3. CASE Exp!ReadDirectory \/ Exp!NoDirectory \/ Exp!FunctionFails \/ Exp!EndNames
    BY <1>3 DEF Exp!ReadDirectory, Exp!NoDirectory, Exp!FunctionFails, Exp!EndNames,
        ExpRank, ExpStage, Descends
  <1>4. CASE Exp!EndFunctions \/ Exp!ReadTables
    <2>1. \/ pc = "functions" /\ pc' \in {"done", "tables"}
          \/ pc = "tables" /\ pc' \in {"names", "done"}
      BY <1>4 DEF Exp!EndFunctions, Exp!ReadTables
    <2> QED
      BY <2>1 DEF ExpRank, ExpStage, Descends
  <1>5. CASE Exp!ReadFunction
    <2>1. pc = "functions" /\ pc' = "functions" /\ k < f /\ item' = item
          /\ \E e : kept' = Append(kept, e)
      BY <1>1, <1>5 DEF Exp!ReadFunction
    <2>2. Len(kept') = k + 1
      BY <1>1, <1>2, <2>1
    <2>3. ExpLoop = Rest(f, k) /\ ExpLoop' = Rest(f, k + 1)
      BY <1>1, <2>1, <2>2 DEF ExpLoop
    <2>4. Rest(f, k + 1) < Rest(f, k)
      BY <2>1, RestIs
    <2> QED
      BY <2>1, <2>3, <2>4 DEF ExpRank, ExpStage, Descends
  <1>6. CASE Exp!MatchName
    <2>1. pc = "names" /\ pc' \in {"names", "done"} /\ v < n /\ item' = item
          /\ \E e : values' = Append(values, e)
      BY <1>1, <1>6 DEF Exp!MatchName
    <2>2. Len(values') = v + 1
      BY <1>1, <1>2, <2>1
    <2>3. CASE pc' = "done"
      BY <2>1, <2>3 DEF ExpRank, ExpStage, Descends
    <2>4. CASE pc' = "names"
      <3>1. ExpLoop = Rest(n, v) /\ ExpLoop' = Rest(n, v + 1)
        BY <1>1, <2>1, <2>2, <2>4 DEF ExpLoop
      <3>2. Rest(n, v + 1) < Rest(n, v)
        BY <2>1, RestIs
      <3> QED
        BY <2>1, <2>4, <3>1, <3>2 DEF ExpRank, ExpStage, Descends
    <2> QED
      BY <2>1, <2>3, <2>4
  <1>7. CASE Exp!MatchFails
    <2>1. pc = "names" /\ pc' = "done"
      BY <1>7, Zenon DEF Exp!MatchFails
    <2> QED
      BY <2>1 DEF ExpRank, ExpStage, Descends
  <1> QED
    BY <1>3, <1>4, <1>5, <1>6, <1>7 DEF Exp!Step
\* A step of _parse_debug ends an entry, or goes on in it, or reads a character of its
\* name, of which there are no more than the file has bytes.
LEMMA DebugDescends ==
    ASSUME DebugInv, DebugRank \in Ranks, DebugRank' \in Ranks, Debug!Step
    PROVE  Descends(DebugRank', DebugRank)
  <1>1. PICK q \in Nat, k \in Nat, c \in Nat, d \in Nat :
            q = table \div 28 /\ k = count /\ c = cursor /\ d = DebugEnd
    <2>1. table \div 28 \in Nat /\ DebugEnd \in Nat
      BY DebugAssumption DEF DebugInv, DebugTypes
    <2>2. count \in Nat /\ cursor \in Nat
      BY DEF DebugInv, DebugTypes
    <2> QED
      BY <2>1, <2>2, Zenon
  <1>2. table' = table
    BY DEF Debug!Step, Debug!ReadEntry, Debug!EntryFails, Debug!ReadPdb, Debug!PdbFails,
        Debug!ReadMisc, Debug!MiscFails, Debug!ReadCharacter, Debug!EndName,
        Debug!EndDirectory
  <1>3. DebugRank[2] = Rest(q, k) /\ DebugRank'[2] = Rest(q, count')
    BY <1>1, <1>2 DEF DebugRank
  <1>4. ASSUME k < q, count' = k + 1, pc \in {"entry", "codeview", "misc", "name"}, pc' = "entry"
        PROVE  Descends(DebugRank', DebugRank)
    <2>1. Rest(q, k + 1) < Rest(q, k)
      BY <1>4, RestIs
    <2>2. DebugRank[1] = 1 /\ DebugRank'[1] = 1
      BY <1>4 DEF DebugRank
    <2>3. DebugRank'[2] < DebugRank[2]
      BY <1>3, <1>4, <2>1
    <2> QED
      BY <2>2, <2>3 DEF Descends
  <1>5. pc \in {"codeview", "misc", "name"} => k < q
    <2>1. pc \in {"codeview", "misc", "name"} => count + 1 <= table \div 28
      BY DEF DebugInv, DebugParts
    <2> QED
      BY <1>1, <2>1
  <1>6. CASE Debug!ReadEntry
    <2>1. pc = "entry" /\ k < q
      BY <1>1, <1>6 DEF Debug!ReadEntry, Debug!EntrySize
    <2>2. \/ pc' \in {"codeview", "misc"} /\ count' = count
          \/ pc' = "entry" /\ count' = k + 1
      BY <1>1, <1>6, <2>1 DEF Debug!ReadEntry
    <2>3. CASE pc' \in {"codeview", "misc"} /\ count' = count
      BY <1>1, <1>3, <2>1, <2>3 DEF DebugRank, DebugStage, Descends
    <2>4. CASE pc' = "entry" /\ count' = k + 1
      BY <1>4, <2>1, <2>4, Zenon
    <2> QED
      BY <2>2, <2>3, <2>4
  <1>7. CASE Debug!EntryFails \/ Debug!PdbFails \/ Debug!MiscFails \/ Debug!EndDirectory
    BY <1>7 DEF Debug!EntryFails, Debug!PdbFails, Debug!MiscFails, Debug!EndDirectory,
        DebugRank, Descends
  <1>8. CASE Debug!ReadPdb
    <2>1. pc = "codeview" /\ pc' = "name" /\ count' = count
      BY <1>8 DEF Debug!ReadPdb
    <2> QED
      BY <1>1, <1>3, <2>1 DEF DebugRank, DebugStage, Descends
  <1>9. CASE Debug!ReadMisc
    <2>1. /\ pc = "misc"
          /\ \/ pc' = "name" /\ count' = count
             \/ pc' = "entry" /\ count' = k + 1
      BY <1>1, <1>9 DEF Debug!ReadMisc
    <2>2. CASE pc' = "name" /\ count' = count
      BY <1>1, <1>3, <2>1, <2>2 DEF DebugRank, DebugStage, Descends
    <2> QED
      BY <1>4, <1>5, <2>1, <2>2
  <1>10. CASE Debug!ReadCharacter
    <2>1. PICK w \in {1, 2} : w = item.width
      BY DEF DebugInv, DebugTypes, DebugName
    <2>2. pc = "name" /\ pc' = "name" /\ count' = count /\ cursor' = c + w /\ c + w <= d
      BY <1>1, <1>10, <2>1 DEF Debug!ReadCharacter, Debug!Readable
    <2>3. c < d /\ c < c + w /\ c + w \in Int
      BY <2>2
    <2>4. Rest(d, c + w) < Rest(d, c)
      BY <2>3, RestIs
    <2>5. DebugRank[4] = Rest(d, c) /\ DebugRank'[4] = Rest(d, c + w)
      BY <1>1, <2>2 DEF DebugRank
    <2>6. DebugRank'[1] = DebugRank[1] /\ DebugRank'[2] = DebugRank[2]
          /\ DebugRank'[3] = DebugRank[3]
      BY <1>1, <1>3, <2>2 DEF DebugRank, DebugStage
    <2> QED
      BY <2>4, <2>5, <2>6 DEF Descends
  <1>11. CASE Debug!EndName
    <2>1. pc = "name" /\ pc' = "entry" /\ count' = k + 1
      BY <1>1, <1>11 DEF Debug!EndName
    <2> QED
      BY <1>4, <1>5, <2>1
  <1> QED
    BY <1>6, <1>7, <1>8, <1>9, <1>10, <1>11 DEF Debug!Step

\* A step of _parse_tls reads a callback from the file.
LEMMA TlsDescends ==
    ASSUME TlsInv, TlsRank \in Ranks, TlsRank' \in Ranks, TLS!Step
    PROVE  Descends(TlsRank', TlsRank)
  <1>1. CASE TLS!ReadDirectory \/ TLS!DirectoryFails \/ TLS!EndCallbacks
    BY <1>1 DEF TLS!ReadDirectory, TLS!DirectoryFails, TLS!EndCallbacks, TlsRank, TlsStage,
        Descends
  <1>2. CASE TLS!ReadCallback
    <2>1. PICK l \in Nat, c \in Nat : l = left /\ c = count
      BY DEF TlsInv
    <2>2. pc = "callbacks" /\ pc' = "callbacks" /\ left' = l /\ count' = c + 1
          /\ item * (c + 1) <= l
      BY <1>2, <2>1 DEF TLS!ReadCallback
    <2>3. item \in {4, 8}
      BY DEF TlsInv
    <2>4. c < l
      BY <2>2, <2>3
    <2>5. Rest(l, c + 1) < Rest(l, c)
      BY <2>4, RestIs
    <2> QED
      BY <2>1, <2>2, <2>5 DEF TlsRank, TlsStage, Descends
  <1> QED
    BY <1>1, <1>2 DEF TLS!Step

\* A step of _parse_resources takes an entry from a level of the walk, and refills only
\* the levels below it.
LEMMA ResDescends ==
    ASSUME ResInv, ResRank \in Ranks, ResRank' \in Ranks, Res!Step
    PROVE  Descends(ResRank', ResRank)
  <1>1. PICK k \in Nat, c \in Nat : k = Len(kept) /\ c = cursor
    BY DEF ResInv, ResTypes
  <1>2. header \in Seq(0..Blocks) /\ read \in Seq(0..Blocks) /\ item \in Seq(0..Blocks)
    BY DEF ResInv, ResTypes
  <1>3. \A s \in Seq(0..Blocks) : s # <<>> => Len(s) \in Nat /\ Len(Tail(s)) < Len(s)
    OBVIOUS
  <1>4. CASE Res!ReadRoot
    <2>1. pc = "root" /\ pc' \in {"failed", "walk"}
      BY <1>4 DEF Res!ReadRoot
    <2> QED
      BY <2>1 DEF ResRank, ResStage, Descends
  <1>5. CASE Res!ReadType
    <2>1. pc = "walk" /\ pc' = "walk" /\ Len(header') < Len(header)
      BY <1>2, <1>3, <1>5 DEF Res!ReadType
    <2> QED
      BY <2>1 DEF ResRank, ResStage, Descends
  <1>6. CASE Res!ReadName
    <2>1. pc = "walk" /\ pc' = "walk" /\ header' = header /\ Len(read') < Len(read)
      BY <1>2, <1>3, <1>6 DEF Res!ReadName
    <2> QED
      BY <2>1 DEF ResRank, ResStage, Descends
  <1>7. CASE Res!ReadDataEntry
    <2>1. pc = "walk" /\ pc' = "walk" /\ header' = header /\ read' = read
          /\ Len(item') < Len(item)
      BY <1>2, <1>3, <1>7 DEF Res!ReadDataEntry
    <2> QED
      BY <2>1 DEF ResRank, ResStage, Descends
  <1>8. CASE Res!DataEntryFails
    <2>1. pc = "walk" /\ pc' = "walk" /\ item # <<>> /\ item' = <<>> /\ read' = <<>>
          /\ header' = <<>>
      BY <1>8 DEF Res!DataEntryFails
    <2>2. PICK h \in Nat, r \in Nat, i \in Nat \ {0} :
              h = Len(header) /\ r = Len(read) /\ i = Len(item)
      BY <1>2, <2>1
    <2>3. Len(<<>>) = 0
      OBVIOUS
    <2>4. ResRank[1] = 2 /\ ResRank[2] = h /\ ResRank[3] = r /\ ResRank[4] = i
      BY <2>1, <2>2 DEF ResRank, ResStage
    <2>5. ResRank'[1] = 2 /\ ResRank'[2] = 0 /\ ResRank'[3] = 0 /\ ResRank'[4] = 0
      BY <2>1, <2>3 DEF ResRank, ResStage
    <2> QED
      BY <2>4, <2>5 DEF Descends
  <1>9. CASE Res!EndWalk \/ Res!EndRawData
    BY <1>9 DEF Res!EndWalk, Res!EndRawData, ResRank, ResStage, Descends
  <1>10. CASE Res!GetRawData
    <2>1. pc = "raw" /\ pc' = "raw" /\ c < k /\ cursor' = c + 1 /\ kept' = kept
      BY <1>1, <1>10 DEF Res!GetRawData
    <2>2. Rest(k, c + 1) < Rest(k, c)
      BY <2>1, RestIs
    <2> QED
      BY <1>1, <2>1, <2>2 DEF ResRank, ResStage, Descends
  <1> QED
    BY <1>4, <1>5, <1>6, <1>7, <1>8, <1>9, <1>10 DEF Res!Step

\* A step that reads a version resource takes something from what remains of the table,
\* or it finds a string of length 0, and then it is not such a step again.
LEMMA VerDescends ==
    ASSUME VerInv, VerRank \in Ranks, VerRank' \in Ranks, Ver!Step, ~Ver!ReadSameString
    PROVE  Descends(VerRank', VerRank)
  <1>1. CASE Ver!ReadVersion \/ Ver!ReadFixedInfo \/ Ver!ReadTableHeader \/ Ver!EndStrings
    BY <1>1 DEF Ver!ReadVersion, Ver!ReadFixedInfo, Ver!ReadTableHeader, Ver!EndStrings,
        VerRank, VerStage, Descends
  <1>2. CASE Ver!ReadStringFileInfo \/ Ver!SkipVarFileInfo
    <2>1. \/ pc \in {"info", "string_file_info"} /\ pc' = "table"
          \/ pc = "info" /\ pc' = "string_file_info"
      BY <1>2 DEF Ver!ReadStringFileInfo, Ver!SkipVarFileInfo
    <2> QED
      BY <2>1 DEF VerRank, VerStage, Descends
  <1>3. CASE Ver!Fail
    <2>1. pc \in {"version", "fixed", "info", "string_file_info", "table", "strings"}
          /\ pc' = "failed"
      BY <1>3 DEF Ver!Fail
    <2> QED
      BY <2>1 DEF VerRank, VerStage, Descends
  <1>4. CASE Ver!ReadString
    <2>1. PICK r \in Nat : r = remaining /\ r > 0
      BY <1>4, LengthAssumption DEF VerInv, VerTypes, Ver!ReadString
    <2>2. pc = "strings" /\ pc' = "strings" /\ item # 0
      BY <1>4 DEF Ver!ReadString, Ver!Stuck
    <2>3. PICK l \in Ver!Lengths :
              /\ item' = Ver!Rounded(l)
              /\ \/ item' < r /\ remaining' = r - item'
                 \/ remaining' = 0
      BY <1>4, <2>1 DEF Ver!ReadString
    <2>4. PICK i \in Nat : i = Ver!Rounded(l)
      BY LengthAssumption DEF Ver!Rounded, Ver!Lengths
    <2>5. item' = i /\ ((i < r /\ remaining' = r - i) \/ remaining' = 0)
      BY <2>3, <2>4
    <2>6. CASE i = 0 /\ remaining' = r
      BY <2>1, <2>2, <2>5, <2>6 DEF VerRank, VerStage, Descends
    <2>7. CASE \E m \in Nat : remaining' = m /\ m < r
      BY <2>1, <2>2, <2>7 DEF VerRank, VerStage, Descends
    <2> QED
      BY <2>1, <2>5, <2>6, <2>7
  <1> QED
    BY <1>1, <1>2, <1>3, <1>4 DEF Ver!Step

\* A step of reconstruct_icon takes the next icon of the group.
LEMMA IconDescends ==
    ASSUME IconInv, IconRank \in Ranks, IconRank' \in Ranks, Icon!Step
    PROVE  Descends(IconRank', IconRank)
  <1>1. PICK n \in Nat, k \in Nat, c \in Nat : n = item.count /\ k = Len(kept) /\ c = count
    BY DEF IconInv
  <1>2. CASE Icon!ReadGroup \/ Icon!StartIcon \/ Icon!EndIcon
    BY <1>2 DEF Icon!ReadGroup, Icon!StartIcon, Icon!EndIcon, IconRank, IconStage, Descends
  <1>3. CASE Icon!Fail
    <2>1. pc \in {"group", "entries", "build"} /\ pc' = "failed"
      BY <1>3 DEF Icon!Fail
    <2> QED
      BY <2>1 DEF IconRank, IconStage, Descends
  <1>4. CASE Icon!ReadEntry
    <2>1. pc = "entries" /\ pc' = "entries" /\ c < n /\ count' = c + 1 /\ item' = item
      BY <1>1, <1>4 DEF Icon!ReadEntry
    <2>2. Rest(n, c + 1) < Rest(n, c)
      BY <2>1, RestIs
    <2> QED
      BY <1>1, <2>1, <2>2 DEF IconRank, IconStage, Descends
  <1>5. CASE Icon!AppendIcon \/ Icon!RejectCursor
    <2>1. pc = "build" /\ pc' = "build" /\ k < n /\ item' = item
          /\ \E e : kept' = Append(kept, e)
      BY <1>1, <1>5 DEF Icon!AppendIcon, Icon!RejectCursor
    <2>2. kept \in Seq([offset : Nat, size : Nat])
      BY DEF IconInv
    <2>3. Len(kept') = k + 1
      BY <1>1, <2>1, <2>2
    <2>4. Rest(n, k + 1) < Rest(n, k)
      BY <2>1, RestIs
    <2> QED
      BY <1>1, <2>1, <2>3, <2>4 DEF IconRank, IconStage, Descends
  <1> QED
    BY <1>2, <1>3, <1>4, <1>5 DEF Icon!Step

\* A translation is one step.
LEMMA AddrDescends ==
    ASSUME AddrRank \in Ranks, AddrRank' \in Ranks, Addr!Step
    PROVE  Descends(AddrRank', AddrRank)
  <1>1. pc = "asked" /\ pc' \in {"done", "failed"}
    BY DEF Addr!Step, Addr!TranslateRva, Addr!TranslateVa, Addr!ReachDirectory
  <1> QED
    BY <1>1 DEF AddrRank, Descends

\* A read of the rest of the file by get_authenticode_hash returns at least one byte.
LEMMA DigDescends ==
    ASSUME DigInv, DigRank \in Ranks, DigRank' \in Ranks, Dig!Step
    PROVE  Descends(DigRank', DigRank)
  <1>1. CASE Dig!Unsupported \/ Dig!HashToChecksum \/ Dig!HashToSecurity \/ Dig!StartRest
             \/ Dig!CertificateInHeader \/ Dig!ReadFails \/ Dig!EndRest
    BY <1>1 DEF Dig!Unsupported, Dig!HashToChecksum, Dig!HashToSecurity, Dig!StartRest,
        Dig!CertificateInHeader, Dig!ReadFails, Dig!EndRest, DigRank, DigStage, Descends
  <1>2. CASE Dig!HashChunk
    <2>1. PICK r \in Nat : r = remaining /\ r > 0
      BY <1>2 DEF Dig!HashChunk, DigInv, DigTypes
    <2>2. PICK n \in 1..(IF remaining < Chunk THEN remaining ELSE Chunk) :
              remaining' = remaining - n
      BY <1>2 DEF Dig!HashChunk
    <2>3. n \in Nat \ {0} /\ remaining' = r - n
      BY <2>1, <2>2, DigestAssumption
    <2>4. pc = "rest" /\ pc' = "rest"
      BY <1>2 DEF Dig!HashChunk
    <2> QED
      BY <2>1, <2>3, <2>4 DEF DigRank, DigStage, Descends
  <1> QED
    BY <1>1, <1>2 DEF Dig!Step
\* The rank of a call is the rank of the parser that was called.
LEMMA RankOfParser ==
    ASSUME directory' = directory
    PROVE  /\ directory = "relocations" => Rank = RelocRank /\ Rank' = RelocRank'
           /\ directory = "certificates" => Rank = CertRank /\ Rank' = CertRank'
           /\ directory = "config" => Rank = ConfRank /\ Rank' = ConfRank'
           /\ directory = "rich" => Rank = RichRank /\ Rank' = RichRank'
           /\ directory = "headers" => Rank = HdrRank /\ Rank' = HdrRank'
           /\ directory = "imports" => Rank = ImpRank /\ Rank' = ImpRank'
           /\ directory = "exports" => Rank = ExpRank /\ Rank' = ExpRank'
           /\ directory = "debug" => Rank = DebugRank /\ Rank' = DebugRank'
           /\ directory = "tls" => Rank = TlsRank /\ Rank' = TlsRank'
           /\ directory = "resources" => Rank = ResRank /\ Rank' = ResRank'
           /\ directory = "version" => Rank = VerRank /\ Rank' = VerRank'
           /\ directory = "icons" => Rank = IconRank /\ Rank' = IconRank'
           /\ directory = "addresses" => Rank = AddrRank /\ Rank' = AddrRank'
           /\ directory = "digest" => Rank = DigRank /\ Rank' = DigRank'
  BY DEF Rank

\* All parsers keep their invariants.
AllInvs ==
    /\ KnownParser
    /\ RelocOK /\ CertOK /\ ConfOK /\ RichOK /\ HdrOK /\ ImpOK /\ ExpOK
    /\ DebugOK /\ TlsOK /\ ResOK /\ VerOK /\ IconOK /\ AddrOK /\ DigOK

\* Then the rank is one.
LEMMA Ranked ==
    ASSUME AllInvs
    PROVE  Rank \in Ranks
  <1>1. CASE directory = "relocations"
    <2>1. RelocInv
      BY <1>1 DEF AllInvs, RelocOK
    <2> QED
      BY <1>1, <2>1, FirstRanked DEF Rank
  <1>2. CASE directory = "certificates"
    <2>1. CertInv
      BY <1>2 DEF AllInvs, CertOK
    <2> QED
      BY <1>2, <2>1, FirstRanked DEF Rank
  <1>3. CASE directory = "config"
    <2>1. ConfInv
      BY <1>3 DEF AllInvs, ConfOK
    <2> QED
      BY <1>3, <2>1, FirstRanked DEF Rank
  <1>4. CASE directory = "rich"
    <2>1. RichInv
      BY <1>4 DEF AllInvs, RichOK
    <2> QED
      BY <1>4, <2>1, FirstRanked DEF Rank
  <1>5. CASE directory = "headers"
    <2>1. HdrInv
      BY <1>5 DEF AllInvs, HdrOK
    <2> QED
      BY <1>5, <2>1, HdrRanked DEF Rank
  <1>6. CASE directory = "imports"
    <2>1. ImpInv
      BY <1>6 DEF AllInvs, ImpOK
    <2> QED
      BY <1>6, <2>1, ImpRanked DEF Rank
  <1>7. CASE directory = "exports"
    <2>1. ExpInv
      BY <1>7 DEF AllInvs, ExpOK
    <2> QED
      BY <1>7, <2>1, ExpRanked DEF Rank
  <1>8. CASE directory = "debug"
    <2>1. DebugInv
      BY <1>8 DEF AllInvs, DebugOK
    <2> QED
      BY <1>8, <2>1, DebugRanked DEF Rank
  <1>9. CASE directory = "tls"
    <2>1. TlsInv
      BY <1>9 DEF AllInvs, TlsOK
    <2> QED
      BY <1>9, <2>1, LastRanked DEF Rank
  <1>10. CASE directory = "resources"
    <2>1. ResInv
      BY <1>10 DEF AllInvs, ResOK
    <2> QED
      BY <1>10, <2>1, ResRanked DEF Rank
  <1>11. CASE directory = "version"
    <2>1. VerInv
      BY <1>11 DEF AllInvs, VerOK
    <2> QED
      BY <1>11, <2>1, LastRanked DEF Rank
  <1>12. CASE directory = "icons"
    <2>1. IconInv
      BY <1>12 DEF AllInvs, IconOK
    <2> QED
      BY <1>12, <2>1, LastRanked DEF Rank
  <1>13. CASE directory = "addresses"
    <2>1. AddrInv
      BY <1>13 DEF AllInvs, AddrOK
    <2> QED
      BY <1>13, <2>1, LastRanked DEF Rank
  <1>14. CASE directory = "digest"
    <2>1. DigInv
      BY <1>14 DEF AllInvs, DigOK
    <2> QED
      BY <1>14, <2>1, LastRanked DEF Rank
  <1> QED
    BY <1>1, <1>2, <1>3, <1>4, <1>5, <1>6, <1>7,
       <1>8, <1>9, <1>10, <1>11, <1>12, <1>13, <1>14 DEF AllInvs, KnownParser, Parsers

\* A step that reads the same string again changes nothing.
LEMMA SameString ==
    ASSUME [Next]_vars, directory = "version", Ver!ReadSameString
    PROVE  UNCHANGED vars
  <1>1. CASE ParseVersion
    <2>1. UNCHANGED <<pc, lfanew, cursor, table, remaining, item, count>>
      BY DEF Ver!ReadSameString, Ver!vars
    <2>2. UNCHANGED <<directory, left, kept, file, bytes_left, read, values, header, configVars>>
      BY <1>1 DEF ParseVersion
    <2> QED
      BY <2>1, <2>2 DEF vars, tableVars, configVars, richVars
  <1>2. CASE UNCHANGED vars
    BY <1>2
  <1>3. CASE Returned
    BY <1>3 DEF Returned
  <1> QED
    BY <1>1, <1>2, <1>3 DEF Next, Step, ParseRelocations, ParseCertificates, ParseConfig,
        ParseRich, ParseHeaders, ParseImports, ParseExports, ParseDebug, ParseTls,
        ParseResources, ParseIcons, TranslateAddress, HashFile

\* Every step of the parser that was called lowers the rank.
LEMMA StepDescends ==
    ASSUME AllInvs, AllInvs', Rank \in Ranks, Rank' \in Ranks, [Next]_vars
    PROVE  [Descends(Rank', Rank)]_vars
  <1> SUFFICES ASSUME vars' # vars PROVE Descends(Rank', Rank)
    BY Zenon
  <1>0. directory' = directory
    BY OneParser
  <1>1. CASE directory = "relocations"
    <2>1. Rank = RelocRank /\ Rank' = RelocRank'
      BY <1>0, <1>1, RankOfParser
    <2>2. RelocInv /\ RelocInv'
      BY <1>0, <1>1 DEF AllInvs, RelocOK
    <2>3. Reloc!Step
      BY <1>1, OneParser
    <2> QED
      BY <2>1, <2>2, <2>3, RelocDescends
  <1>2. CASE directory = "certificates"
    <2>1. Rank = CertRank /\ Rank' = CertRank'
      BY <1>0, <1>2, RankOfParser
    <2>2. CertInv /\ CertInv'
      BY <1>0, <1>2 DEF AllInvs, CertOK
    <2>3. Cert!Step
      BY <1>2, OneParser
    <2> QED
      BY <2>1, <2>2, <2>3, CertDescends
  <1>3. CASE directory = "config"
    <2>1. Rank = ConfRank /\ Rank' = ConfRank'
      BY <1>0, <1>3, RankOfParser
    <2>2. ConfInv
      BY <1>0, <1>3 DEF AllInvs, ConfOK
    <2>3. Conf!Step
      BY <1>3, OneParser
    <2> QED
      BY <2>1, <2>2, <2>3, ConfDescends
  <1>4. CASE directory = "rich"
    <2>1. Rank = RichRank /\ Rank' = RichRank'
      BY <1>0, <1>4, RankOfParser
    <2>2. RichInv
      BY <1>0, <1>4 DEF AllInvs, RichOK
    <2>3. Rich!Step
      BY <1>4, OneParser
    <2> QED
      BY <2>1, <2>2, <2>3, RichDescends
  <1>5. CASE directory = "headers"
    <2>1. Rank = HdrRank /\ Rank' = HdrRank'
      BY <1>0, <1>5, RankOfParser
    <2>2. HdrInv
      BY <1>0, <1>5 DEF AllInvs, HdrOK
    <2>3. Hdr!Step
      BY <1>5, OneParser
    <2> QED
      BY <2>1, <2>2, <2>3, HdrDescends
  <1>6. CASE directory = "imports"
    <2>1. Rank = ImpRank /\ Rank' = ImpRank'
      BY <1>0, <1>6, RankOfParser
    <2>2. ImpInv
      BY <1>0, <1>6 DEF AllInvs, ImpOK
    <2>3. Imp!Step
      BY <1>6, OneParser
    <2> QED
      BY <2>1, <2>2, <2>3, ImpDescends
  <1>7. CASE directory = "exports"
    <2>1. Rank = ExpRank /\ Rank' = ExpRank'
      BY <1>0, <1>7, RankOfParser
    <2>2. ExpInv
      BY <1>0, <1>7 DEF AllInvs, ExpOK
    <2>3. Exp!Step
      BY <1>7, OneParser
    <2> QED
      BY <2>1, <2>2, <2>3, ExpDescends
  <1>8. CASE directory = "debug"
    <2>1. Rank = DebugRank /\ Rank' = DebugRank'
      BY <1>0, <1>8, RankOfParser
    <2>2. DebugInv
      BY <1>0, <1>8 DEF AllInvs, DebugOK
    <2>3. Debug!Step
      BY <1>8, OneParser
    <2> QED
      BY <2>1, <2>2, <2>3, DebugDescends
  <1>9. CASE directory = "tls"
    <2>1. Rank = TlsRank /\ Rank' = TlsRank'
      BY <1>0, <1>9, RankOfParser
    <2>2. TlsInv
      BY <1>0, <1>9 DEF AllInvs, TlsOK
    <2>3. TLS!Step
      BY <1>9, OneParser
    <2> QED
      BY <2>1, <2>2, <2>3, TlsDescends
  <1>10. CASE directory = "resources"
    <2>1. Rank = ResRank /\ Rank' = ResRank'
      BY <1>0, <1>10, RankOfParser
    <2>2. ResInv
      BY <1>0, <1>10 DEF AllInvs, ResOK
    <2>3. Res!Step
      BY <1>10, OneParser
    <2> QED
      BY <2>1, <2>2, <2>3, ResDescends
  <1>11. CASE directory = "version"
    <2>1. Rank = VerRank /\ Rank' = VerRank'
      BY <1>0, <1>11, RankOfParser
    <2>2. VerInv
      BY <1>0, <1>11 DEF AllInvs, VerOK
    <2>3. Ver!Step /\ ~Ver!ReadSameString
      BY <1>11, OneParser, SameString
    <2> QED
      BY <2>1, <2>2, <2>3, VerDescends
  <1>12. CASE directory = "icons"
    <2>1. Rank = IconRank /\ Rank' = IconRank'
      BY <1>0, <1>12, RankOfParser
    <2>2. IconInv
      BY <1>0, <1>12 DEF AllInvs, IconOK
    <2>3. Icon!Step
      BY <1>12, OneParser
    <2> QED
      BY <2>1, <2>2, <2>3, IconDescends
  <1>13. CASE directory = "addresses"
    <2>1. Rank = AddrRank /\ Rank' = AddrRank'
      BY <1>0, <1>13, RankOfParser
    <2>2. AddrInv
      BY <1>0, <1>13 DEF AllInvs, AddrOK
    <2>3. Addr!Step
      BY <1>13, OneParser
    <2> QED
      BY <2>1, <2>2, <2>3, AddrDescends
  <1>14. CASE directory = "digest"
    <2>1. Rank = DigRank /\ Rank' = DigRank'
      BY <1>0, <1>14, RankOfParser
    <2>2. DigInv
      BY <1>0, <1>14 DEF AllInvs, DigOK
    <2>3. Dig!Step
      BY <1>14, OneParser
    <2> QED
      BY <2>1, <2>2, <2>3, DigDescends
  <1> QED
    BY <1>1, <1>2, <1>3, <1>4, <1>5, <1>6, <1>7,
       <1>8, <1>9, <1>10, <1>11, <1>12, <1>13, <1>14 DEF AllInvs, KnownParser, Parsers

\* Every step of a parser lowers a rank of four numbers, so that no call runs for ever,
\* for every size of the file and whatever its tables claim: neither the sizes that
\* wrap around (pe.cpp:793-824 and 1057-1073), nor names that no limit ends
\* (pe.cpp:443-498), nor directories of resources that contain each other
\* (resources.cpp:103-259) keep it busy.  Only the string of length 0 of a version
\* resource, once read, is read again without any change (resources.cpp:564-600).
THEOREM EveryStepCounts == Spec => [][Descends(Rank', Rank)]_vars
  <1>1. AllInvs => Rank \in Ranks
    BY Ranked
  <1>2. /\ AllInvs /\ AllInvs' /\ Rank \in Ranks /\ (Rank \in Ranks)' /\ [Next]_vars
        => [Descends(Rank', Rank)]_vars
    BY StepDescends
  <1>3. Spec => []AllInvs
    BY KnownAlways, RelocAlways, CertAlways, ConfAlways, RichAlways, HdrAlways,
       ImpAlways, ExpAlways, DebugAlways, TlsAlways, ResAlways, VerAlways, IconAlways,
       AddrAlways, DigAlways, PTL DEF AllInvs
  <1> QED
    BY <1>1, <1>2, <1>3, PTL DEF Spec
===============================================================================
