----------------------------- MODULE SymbolProofs -----------------------------
(***************************************************************************)
(* Proofs about the imports and the exports of a PE: for every number of   *)
(* libraries, functions and names, and whatever the tables contain.        *)
(***************************************************************************)
EXTENDS HeaderProofs, SequenceTheorems

-------------------------------------------------------------------------------
(* Imports.                                                                *)

\* The name of a library may be empty if it is loaded when it is first called.
AnyName == LibraryNames \cup {""}

\* A library with what was read of its lookup table.
ImpLibrary ==
    [name : AnyName, delayed : BOOLEAN, functions : Seq(LookupEntries)]

\* A lookup table has no entry twice, and no more than the limit and one.
Limited(functions) ==
    /\ \A f, g \in DOMAIN functions : functions[f] = functions[g] => f = g
    /\ Len(functions) <= ImportLimit + 1

ImpTypes ==
    /\ pc \in {"descriptors", "lookup", "delay", "delay_lookup", "done"}
    /\ kept \in Seq(ImpLibrary) /\ \A k \in DOMAIN kept : Limited(kept[k].functions)
    /\ values \in Seq(ImpLibrary) /\ \A k \in DOMAIN values : Limited(values[k].functions)
    /\ Len(values) <= 1 /\ Len(kept) <= MaxLibraries + 1
    /\ count \in Nat /\ count >= 1 /\ count <= MaxLibraries + 1

\* Until the call returns: the libraries before the current one are whole, those
\* behind it have no functions.
ImpOpen ==
    /\ Len(kept) <= MaxLibraries /\ count <= Len(kept) + 1
    /\ item = 1..(count - 1)
    /\ \A k \in DOMAIN kept : ~kept[k].delayed
    /\ \A k \in DOMAIN kept : k > count => kept[k].functions = <<>>
    /\ pc = "descriptors" => count = 1 /\ \A k \in DOMAIN kept : kept[k].functions = <<>>
    /\ pc = "delay_lookup" => Len(values) = 1 /\ values[1].delayed

\* The inductive invariant.
ImpInv ==
    /\ ImpTypes
    /\ pc # "done" => ImpOpen
    /\ pc = "done" => item \subseteq DOMAIN kept /\ Imp!FailureCutsTheList

ImpOK == directory = "imports" => ImpInv

\* ImpInv is true when _parse_imports is called.
LEMMA ImpInit ==
    ASSUME Imp!Init
    PROVE  ImpInv
  <1>1. /\ pc = "descriptors" /\ kept = <<>> /\ count = 1 /\ values = <<>> /\ item = {}
        /\ Len(kept) = 0 /\ Len(values) = 0 /\ DOMAIN kept = {} /\ DOMAIN values = {}
    BY DEF Imp!Init
  <1>2. ImpTypes
    BY <1>1, ImportAssumption DEF ImpTypes
  <1>3. 1..(1 - 1) = {}
    OBVIOUS
  <1>4. ImpOpen
    BY <1>1, <1>3, ImportAssumption DEF ImpOpen
  <1> QED
    BY <1>1, <1>2, <1>4 DEF ImpInv

\* What is listed while the call runs is cut at the current library.
LEMMA ImpCut ==
    ASSUME ImpTypes, ImpOpen
    PROVE  item \subseteq DOMAIN kept /\ Imp!FailureCutsTheList
  <1>1. PICK c \in Nat, n \in Nat : c = count /\ n = Len(kept) /\ c <= n + 1 /\ c >= 1
    <2>1. count \in Nat /\ Len(kept) \in Nat /\ count <= Len(kept) + 1 /\ count >= 1
      BY DEF ImpTypes, ImpOpen
    <2> QED
      BY <2>1
  <1>2. DOMAIN kept = 1..n /\ item = 1..(c - 1)
    BY <1>1 DEF ImpTypes, ImpOpen
  <1>3. item \subseteq DOMAIN kept
    BY <1>1, <1>2
  <1>4. ASSUME NEW k \in DOMAIN kept
        PROVE  /\ k \in item => \A j \in 1..(k - 1) : kept[k].delayed \/ j \in item
               /\ kept[k].delayed => k \in item /\ k = Len(kept)
               /\ (k \notin item /\ kept[k].functions # <<>>) =>
                      \A j \in 1..(k - 1) : j \in item
               /\ Imp!IsInjective(kept[k].functions)
               /\ Len(kept[k].functions) <= ImportLimit + 1
    <2>1. k \in Nat /\ ~kept[k].delayed
      BY <1>2 DEF ImpOpen
    <2>2. k > c => kept[k].functions = <<>>
      BY <1>1 DEF ImpOpen
    <2>3. Imp!IsInjective(kept[k].functions) /\ Len(kept[k].functions) <= ImportLimit + 1
      BY DEF ImpTypes, Limited, Imp!IsInjective
    <2>4. k \in item => \A j \in 1..(k - 1) : j \in item
      BY <1>1, <1>2, <2>1
    <2>5. k <= c => \A j \in 1..(k - 1) : j \in item
      BY <1>1, <1>2, <2>1
    <2> QED
      BY <1>1, <2>1, <2>2, <2>3, <2>4, <2>5
  <1> QED
    BY <1>3, <1>4 DEF Imp!FailureCutsTheList

\* One more function of a library.
WithFunction(s, k, e) == [s EXCEPT ![k].functions = Append(@, e)]

\* Nothing else of the libraries is changed.
LEMMA OneMoreFunction ==
    ASSUME NEW s \in Seq(ImpLibrary), NEW k \in DOMAIN s, NEW e \in LookupEntries,
           NEW t, t = WithFunction(s, k, e)
    PROVE  /\ t \in Seq(ImpLibrary) /\ Len(t) = Len(s) /\ DOMAIN t = DOMAIN s
           /\ t[k].functions = Append(s[k].functions, e)
           /\ t[k].name = s[k].name /\ t[k].delayed = s[k].delayed
           /\ \A j \in DOMAIN s : j # k => t[j] = s[j]
  <1>1. s[k] \in ImpLibrary
    BY ElementOf, Zenon
  <1>2. /\ s[k].functions \in Seq(LookupEntries)
        /\ s[k].name \in AnyName /\ s[k].delayed \in BOOLEAN
    BY <1>1 DEF ImpLibrary
  <1> DEFINE w == [s[k] EXCEPT !.functions = Append(@, e)]
  <1>3. t = [s EXCEPT ![k] = w]
    BY DEF WithFunction
  <1>4. Append(s[k].functions, e) \in Seq(LookupEntries)
    BY <1>2
  <1>5. /\ w.functions = Append(s[k].functions, e) /\ w.name = s[k].name
        /\ w.delayed = s[k].delayed
    BY <1>1 DEF ImpLibrary
  <1>6. w \in ImpLibrary
    BY <1>1, <1>2, <1>4 DEF ImpLibrary
  <1> HIDE DEF w
  <1>7. [s EXCEPT ![k] = w] \in Seq(ImpLibrary) /\ Len([s EXCEPT ![k] = w]) = Len(s)
    BY <1>6
  <1> QED
    BY <1>3, <1>5, <1>7

\* An entry that is accepted keeps the table limited.
LEMMA LimitedAppend ==
    ASSUME NEW functions \in Seq(LookupEntries), NEW e \in LookupEntries,
           Limited(functions), Imp!Accepted(functions, e)
    PROVE  Limited(Append(functions, e))
  <1>1. PICK n \in Nat : n = Len(functions) /\ n <= ImportLimit
    BY DEF Imp!Accepted
  <1>2. /\ DOMAIN Append(functions, e) = 1..(n + 1) /\ Len(Append(functions, e)) = n + 1
        /\ Append(functions, e)[n + 1] = e
        /\ \A k \in 1..n : Append(functions, e)[k] = functions[k]
    BY <1>1
  <1>3. DOMAIN functions = 1..n
    BY <1>1
  <1>4. \A f, g \in 1..(n + 1) :
           Append(functions, e)[f] = Append(functions, e)[g] => f = g
    <2>1. \A k \in 1..n : functions[k] # e
      BY <1>3 DEF Imp!Accepted
    <2>2. \A f, g \in 1..n : functions[f] = functions[g] => f = g
      BY <1>3 DEF Limited
    <2>3. \A f \in 1..(n + 1) : f = n + 1 \/ f \in 1..n
      OBVIOUS
    <2> QED
      BY <1>2, <2>1, <2>2, <2>3
  <1>5. n + 1 <= ImportLimit + 1
    BY <1>1, ImportAssumption
  <1> QED
    BY <1>2, <1>4, <1>5 DEF Limited

\* Reading a descriptor keeps ImpInv.
LEMMA ImpReadDescriptor ==
    ASSUME ImpInv, Imp!ReadDescriptor
    PROVE  ImpInv'
  <1>1. /\ UNCHANGED <<pc, count, values, item>> /\ pc = "descriptors"
        /\ Len(kept) < MaxLibraries
    BY DEF Imp!ReadDescriptor
  <1>2. PICK n \in LibraryNames :
           kept' = Append(kept, [name |-> n, delayed |-> FALSE, functions |-> <<>>])
    BY DEF Imp!ReadDescriptor, Imp!Library
  <1>3. ImpTypes /\ ImpOpen
    BY <1>1 DEF ImpInv
  <1> DEFINE new == [name |-> n, delayed |-> FALSE, functions |-> <<>>]
  <1>4. new \in ImpLibrary /\ Limited(new.functions) /\ new.functions = <<>> /\ ~new.delayed
    <2>1. n \in AnyName
      BY Zenon DEF AnyName
    <2>2. Limited(<<>>)
      BY ImportAssumption DEF Limited
    <2> QED
      BY <2>1, <2>2 DEF ImpLibrary
  <1>5. kept \in Seq(ImpLibrary) /\ Len(kept) \in Nat /\ count = 1
    BY <1>1, <1>3 DEF ImpTypes, ImpOpen
  <1>6. kept' = Append(kept, new)
    BY <1>2
  <1> HIDE DEF new
  <1>7. /\ kept' \in Seq(ImpLibrary) /\ Len(kept') = Len(kept) + 1
        /\ \A k \in DOMAIN kept' : kept'[k] = new \/ (k \in DOMAIN kept /\ kept'[k] = kept[k])
    BY <1>4, <1>5, <1>6
  <1>8. \A k \in DOMAIN kept' : /\ Limited(kept'[k].functions) /\ ~kept'[k].delayed
                                /\ kept'[k].functions = <<>>
    BY <1>1, <1>3, <1>4, <1>7 DEF ImpTypes, ImpOpen
  <1>9. PICK m \in Nat : m = Len(kept) /\ m < MaxLibraries
    BY <1>1, <1>5
  <1>10. /\ Len(kept') = m + 1 /\ m + 1 <= MaxLibraries /\ m + 1 <= MaxLibraries + 1
         /\ 1 <= m + 1 + 1
    BY <1>7, <1>9, ImportAssumption
  <1>11. ImpTypes'
    BY <1>1, <1>3, <1>7, <1>8, <1>10 DEF ImpTypes
  <1>12. ImpOpen'
    BY <1>1, <1>3, <1>5, <1>8, <1>10 DEF ImpOpen
  <1> QED
    BY <1>1, <1>11, <1>12 DEF ImpInv

\* The steps from one table to the next keep ImpInv.
LEMMA ImpTurn ==
    ASSUME ImpInv,
           \/ Imp!EndDescriptors \/ Imp!DescriptorsFail \/ Imp!LookupFails
           \/ Imp!EndLookups \/ Imp!NoDelayTable \/ Imp!DelayLookupFails
    PROVE  ImpInv'
  <1>1. /\ UNCHANGED <<kept, count, values, item>> /\ pc # "done"
        /\ pc' \in {"lookup", "delay", "done"}
    BY DEF Imp!EndDescriptors, Imp!DescriptorsFail, Imp!LookupFails, Imp!EndLookups,
        Imp!NoDelayTable, Imp!DelayLookupFails
  <1>2. ImpTypes /\ ImpOpen
    BY <1>1 DEF ImpInv
  <1>3. ImpTypes'
    BY <1>1, <1>2 DEF ImpTypes
  <1>4. ImpOpen'
    BY <1>1, <1>2 DEF ImpOpen
  <1>5. item \subseteq DOMAIN kept /\ Imp!FailureCutsTheList
    BY <1>2, ImpCut
  <1>6. item' \subseteq DOMAIN kept' /\ (Imp!FailureCutsTheList)'
    BY <1>1, <1>5 DEF Imp!FailureCutsTheList
  <1> QED
    BY <1>3, <1>4, <1>6 DEF ImpInv

\* A function of an imported library keeps ImpInv.
LEMMA ImpAddImport ==
    ASSUME ImpInv, Imp!AddImport
    PROVE  ImpInv'
  <1>1. UNCHANGED <<pc, count, values, item>> /\ pc = "lookup" /\ count <= Len(kept)
    BY DEF Imp!AddImport
  <1>2. PICK e \in LookupEntries :
           /\ Imp!Accepted(kept[count].functions, e)
           /\ kept' = [kept EXCEPT ![count].functions = Append(@, e)]
    BY DEF Imp!AddImport
  <1>3. ImpTypes /\ ImpOpen
    BY <1>1 DEF ImpInv
  <1>4. kept \in Seq(ImpLibrary) /\ count \in DOMAIN kept
    BY <1>1, <1>3 DEF ImpTypes
  <1>5. PICK c \in DOMAIN kept : c = count
    BY <1>4
  <1>t. kept' = WithFunction(kept, c, e)
    BY <1>2, <1>5 DEF WithFunction
  <1>6. /\ kept' \in Seq(ImpLibrary) /\ Len(kept') = Len(kept) /\ DOMAIN kept' = DOMAIN kept
        /\ kept'[c].functions = Append(kept[c].functions, e)
        /\ kept'[c].delayed = kept[c].delayed
        /\ \A j \in DOMAIN kept : j # c => kept'[j] = kept[j]
    BY <1>4, <1>t, OneMoreFunction
  <1>7. kept[c] \in ImpLibrary
    BY <1>4, ElementOf, Zenon
  <1>8. Limited(kept'[c].functions)
    <2>1. kept[c].functions \in Seq(LookupEntries)
      BY <1>7 DEF ImpLibrary
    <2>2. Limited(kept[c].functions) /\ Imp!Accepted(kept[c].functions, e)
      BY <1>2, <1>3, <1>5 DEF ImpTypes
    <2> QED
      BY <1>6, <2>1, <2>2, LimitedAppend
  <1>9. \A k \in DOMAIN kept' : Limited(kept'[k].functions) /\ ~kept'[k].delayed
    BY <1>3, <1>6, <1>8 DEF ImpTypes, ImpOpen
  <1>10. \A k \in DOMAIN kept' : k > c => kept'[k].functions = <<>>
    <2>1. \A k \in DOMAIN kept : k > c => k # c
      BY <1>4
    <2> QED
      BY <1>3, <1>5, <1>6, <2>1 DEF ImpOpen
  <1>11. ImpTypes'
    BY <1>1, <1>3, <1>6, <1>9 DEF ImpTypes
  <1>12. ImpOpen'
    BY <1>1, <1>3, <1>5, <1>6, <1>9, <1>10 DEF ImpOpen
  <1> QED
    BY <1>1, <1>11, <1>12 DEF ImpInv

\* The end of a lookup table keeps ImpInv.
LEMMA ImpEndLookup ==
    ASSUME ImpInv, Imp!EndLookup
    PROVE  ImpInv'
  <1>1. /\ UNCHANGED <<pc, kept, values>> /\ pc = "lookup" /\ count <= Len(kept)
        /\ item' = item \cup {count} /\ count' = count + 1
    BY DEF Imp!EndLookup
  <1>2. ImpTypes /\ ImpOpen
    BY <1>1 DEF ImpInv
  <1>3. PICK c \in Nat, n \in Nat :
           c = count /\ n = Len(kept) /\ c >= 1 /\ c <= n /\ n <= MaxLibraries
    <2>1. /\ count \in Nat /\ Len(kept) \in Nat /\ count >= 1 /\ count <= Len(kept)
          /\ Len(kept) <= MaxLibraries
      BY <1>1, <1>2 DEF ImpTypes, ImpOpen
    <2> QED
      BY <2>1
  <1>4. item = 1..(c - 1)
    BY <1>2, <1>3 DEF ImpOpen
  <1>5. /\ count' = c + 1 /\ c + 1 <= n + 1 /\ c + 1 <= MaxLibraries + 1 /\ c + 1 >= 1
        /\ item' = 1..((c + 1) - 1)
    <2>1. (1..(c - 1)) \cup {c} = 1..((c + 1) - 1)
      BY <1>3
    <2>2. c + 1 <= n + 1 /\ c + 1 <= MaxLibraries + 1 /\ c + 1 >= 1
      BY <1>3, ImportAssumption
    <2> QED
      BY <1>1, <1>3, <1>4, <2>1, <2>2
  <1>6. \A k \in DOMAIN kept : k > c + 1 => kept[k].functions = <<>>
    <2>1. \A k \in DOMAIN kept : k > c + 1 => k > c
      BY <1>2, <1>3 DEF ImpTypes
    <2> QED
      BY <1>2, <1>3, <2>1 DEF ImpOpen
  <1>7. ImpTypes'
    <2>1. count' \in Nat
      BY <1>5
    <2> QED
      BY <1>1, <1>2, <1>5, <2>1 DEF ImpTypes
  <1>8. ImpOpen'
    BY <1>1, <1>2, <1>3, <1>5, <1>6 DEF ImpOpen
  <1> QED
    BY <1>1, <1>7, <1>8 DEF ImpInv

\* Reading the table of the delay-loaded library keeps ImpInv.
LEMMA ImpReadDelayTable ==
    ASSUME ImpInv, Imp!ReadDelayTable
    PROVE  ImpInv'
  <1>1. UNCHANGED <<kept, count, item>> /\ pc = "delay" /\ pc' = "delay_lookup"
    BY DEF Imp!ReadDelayTable
  <1>2. PICK n \in AnyName :
           values' = <<[name |-> n, delayed |-> TRUE, functions |-> <<>>]>>
    BY Zenon DEF Imp!ReadDelayTable, Imp!Library, AnyName
  <1>3. ImpTypes /\ ImpOpen
    BY <1>1 DEF ImpInv
  <1> DEFINE new == [name |-> n, delayed |-> TRUE, functions |-> <<>>]
  <1>4. new \in ImpLibrary /\ Limited(new.functions) /\ new.delayed
    <2>1. Limited(<<>>)
      BY ImportAssumption DEF Limited
    <2> QED
      BY <2>1 DEF ImpLibrary
  <1>5. values' = <<new>>
    BY <1>2
  <1> HIDE DEF new
  <1>6. /\ values' \in Seq(ImpLibrary) /\ Len(values') = 1 /\ values'[1] = new
        /\ DOMAIN values' = {1}
    BY <1>4, <1>5
  <1>7. ImpTypes'
    BY <1>1, <1>3, <1>4, <1>6 DEF ImpTypes
  <1>8. ImpOpen'
    BY <1>1, <1>3, <1>4, <1>6 DEF ImpOpen
  <1> QED
    BY <1>1, <1>7, <1>8 DEF ImpInv

\* So does a function of that library.
LEMMA ImpAddDelayedImport ==
    ASSUME ImpInv, Imp!AddDelayedImport
    PROVE  ImpInv'
  <1>1. UNCHANGED <<pc, kept, count, item>> /\ pc = "delay_lookup"
    BY DEF Imp!AddDelayedImport
  <1>2. PICK e \in LookupEntries :
           /\ Imp!Accepted(values[1].functions, e)
           /\ values' = [values EXCEPT ![1].functions = Append(@, e)]
    BY DEF Imp!AddDelayedImport
  <1>3. ImpTypes /\ ImpOpen
    BY <1>1 DEF ImpInv
  <1>4. values \in Seq(ImpLibrary) /\ Len(values) = 1 /\ DOMAIN values = {1}
    BY <1>1, <1>3 DEF ImpTypes, ImpOpen
  <1>5. /\ values' \in Seq(ImpLibrary) /\ Len(values') = Len(values)
        /\ DOMAIN values' = DOMAIN values
        /\ values'[1].functions = Append(values[1].functions, e)
        /\ values'[1].delayed = values[1].delayed
    <2>1. PICK i \in DOMAIN values : i = 1
      BY <1>4
    <2>2. values' = WithFunction(values, i, e)
      BY <1>2, <2>1 DEF WithFunction
    <2>3. /\ values' \in Seq(ImpLibrary) /\ Len(values') = Len(values)
          /\ DOMAIN values' = DOMAIN values
          /\ values'[i].functions = Append(values[i].functions, e)
          /\ values'[i].delayed = values[i].delayed
      BY <1>4, <2>2, OneMoreFunction, SMTT(30)
    <2> QED
      BY <2>1, <2>3
  <1>6. values[1] \in ImpLibrary
    BY <1>4, ElementOf, Zenon
  <1>7. Limited(values'[1].functions)
    <2>1. values[1].functions \in Seq(LookupEntries)
      BY <1>6 DEF ImpLibrary
    <2>2. Limited(values[1].functions)
      BY <1>3, <1>4 DEF ImpTypes
    <2> QED
      BY <1>2, <1>5, <2>1, <2>2, LimitedAppend
  <1>8. ImpTypes'
    BY <1>1, <1>3, <1>4, <1>5, <1>7 DEF ImpTypes
  <1>9. ImpOpen'
    BY <1>1, <1>3, <1>4, <1>5 DEF ImpOpen
  <1> QED
    BY <1>1, <1>8, <1>9 DEF ImpInv

\* A sequence of one element behind another sequence.
LEMMA OneBehind ==
    ASSUME NEW S, NEW s \in Seq(S), NEW t \in Seq(S), Len(t) = 1
    PROVE  /\ s \o t \in Seq(S) /\ Len(s \o t) = Len(s) + 1
           /\ (s \o t)[Len(s) + 1] = t[1]
           /\ \A k \in 1..Len(s) : (s \o t)[k] = s[k]
  <1> DEFINE r == s \o t
  <1>1. PICK n \in Nat : n = Len(s)
    OBVIOUS
  <1>2. /\ r \in Seq(S) /\ Len(r) = n + 1
        /\ \A i \in 1..(n + 1) : r[i] = IF i <= n THEN s[i] ELSE t[i - n]
    <2>1. /\ s \o t \in Seq(S) /\ Len(s \o t) = Len(s) + Len(t)
          /\ \A i \in 1..(Len(s) + Len(t)) :
                 (s \o t)[i] = IF i <= Len(s) THEN s[i] ELSE t[i - Len(s)]
      BY ConcatProperties
    <2>2. Len(s) = n /\ Len(t) = 1 /\ s \o t = r
      BY <1>1
    <2> HIDE DEF r
    <2> QED
      BY <2>1, <2>2, Zenon
  <1> HIDE DEF r
  <1>3. n + 1 \in 1..(n + 1) /\ ~(n + 1 <= n) /\ (n + 1) - n = 1
    OBVIOUS
  <1>4. \A k \in 1..n : k \in 1..(n + 1) /\ k <= n
    OBVIOUS
  <1> QED
    <2>1. /\ r \in Seq(S) /\ Len(r) = Len(s) + 1 /\ r[Len(s) + 1] = t[1]
          /\ \A k \in 1..Len(s) : r[k] = s[k]
      BY <1>1, <1>2, <1>3, <1>4
    <2> QED
      BY <2>1, Zenon DEF r

\* The delay-loaded library is listed behind the others, and it is whole.
LEMMA ImpEndDelayLookup ==
    ASSUME ImpInv, Imp!EndDelayLookup
    PROVE  ImpInv'
  <1>1. /\ UNCHANGED <<count, values>> /\ pc = "delay_lookup" /\ pc' = "done"
        /\ kept' = kept \o values /\ item' = item \cup {Len(kept) + 1}
    BY DEF Imp!EndDelayLookup
  <1>2. ImpTypes /\ ImpOpen
    BY <1>1 DEF ImpInv
  <1>3. values \in Seq(ImpLibrary) /\ kept \in Seq(ImpLibrary) /\ Len(values) = 1
    BY <1>1, <1>2 DEF ImpTypes, ImpOpen
  <1>4. values[1].delayed /\ Limited(values[1].functions)
    BY <1>1, <1>2, <1>3 DEF ImpTypes, ImpOpen
  <1>5. PICK c \in Nat, n \in Nat :
           c = count /\ n = Len(kept) /\ c >= 1 /\ c <= n + 1 /\ n <= MaxLibraries
    <2>1. /\ count \in Nat /\ Len(kept) \in Nat /\ count >= 1 /\ count <= Len(kept) + 1
          /\ Len(kept) <= MaxLibraries
      BY <1>2 DEF ImpTypes, ImpOpen
    <2> QED
      BY <2>1
  <1>6. /\ kept' \in Seq(ImpLibrary) /\ Len(kept') = n + 1 /\ DOMAIN kept' = 1..(n + 1)
        /\ DOMAIN kept = 1..n /\ kept'[n + 1] = values[1]
        /\ \A k \in 1..n : kept'[k] = kept[k]
    <2>1. /\ kept' \in Seq(ImpLibrary) /\ Len(kept') = Len(kept) + 1
          /\ kept'[Len(kept) + 1] = values[1] /\ \A k \in 1..Len(kept) : kept'[k] = kept[k]
      <3>1. kept' = kept \o values
        BY <1>1
      <3>2. /\ kept \o values \in Seq(ImpLibrary) /\ Len(kept \o values) = Len(kept) + 1
            /\ (kept \o values)[Len(kept) + 1] = values[1]
            /\ \A k \in 1..Len(kept) : (kept \o values)[k] = kept[k]
        BY <1>3, OneBehind
      <3> QED
        BY <3>1, <3>2
    <2> QED
      BY <1>3, <1>5, <2>1
  <1>7. item = 1..(c - 1) /\ item' = (1..(c - 1)) \cup {n + 1}
    BY <1>1, <1>2, <1>5 DEF ImpOpen
  <1>8. \A k \in 1..(n + 1) : k = n + 1 \/ k \in 1..n
    OBVIOUS
  <1>9. \A k \in DOMAIN kept' : Limited(kept'[k].functions)
    <2>1. \A k \in 1..n : Limited(kept[k].functions)
      BY <1>2, <1>6 DEF ImpTypes
    <2> QED
      BY <1>4, <1>6, <1>8, <2>1
  <1>10. ImpTypes'
    <2>1. n + 1 <= MaxLibraries + 1
      BY <1>5, ImportAssumption
    <2> QED
      BY <1>1, <1>2, <1>6, <1>9, <2>1 DEF ImpTypes
  <1>11. item' \subseteq DOMAIN kept'
    BY <1>5, <1>6, <1>7
  <1>12. ASSUME NEW k \in DOMAIN kept'
         PROVE  /\ k \in item' => \A j \in 1..(k - 1) : kept'[k].delayed \/ j \in item'
                /\ kept'[k].delayed => k \in item' /\ k = Len(kept')
                /\ (k \notin item' /\ kept'[k].functions # <<>>) =>
                       \A j \in 1..(k - 1) : j \in item'
                /\ (Imp!IsInjective(kept[k].functions))'
                /\ Len(kept'[k].functions) <= ImportLimit + 1
    <2>1. (Imp!IsInjective(kept[k].functions))' /\ Len(kept'[k].functions) <= ImportLimit + 1
      BY <1>9 DEF Limited, Imp!IsInjective
    <2>2. CASE k = n + 1
      <3>1. kept'[k].delayed /\ k \in item' /\ k = Len(kept')
        BY <1>4, <1>6, <1>7, <2>2
      <3> QED
        BY <2>1, <3>1
    <2>3. CASE k \in 1..n
      <3>1. ~kept'[k].delayed
        BY <1>2, <1>6, <2>3 DEF ImpOpen
      <3>2. k \in item' => k \in 1..(c - 1)
        BY <1>7, <2>3
      <3>3. k <= c => \A j \in 1..(k - 1) : j \in item'
        BY <1>5, <1>7, <2>3
      <3>4. k > c => kept'[k].functions = <<>>
        BY <1>2, <1>5, <1>6, <2>3 DEF ImpOpen
      <3>5. k \in item' => k <= c
        BY <1>5, <2>3, <3>2
      <3>6. k <= c \/ k > c
        BY <1>5, <2>3
      <3> QED
        BY <2>1, <3>1, <3>3, <3>4, <3>5, <3>6
    <2> QED
      BY <1>6, <1>8, <2>2, <2>3
  <1>13. (Imp!FailureCutsTheList)'
    BY <1>12 DEF Imp!FailureCutsTheList
  <1> QED
    BY <1>1, <1>10, <1>11, <1>13 DEF ImpInv

\* ImpInv is about nothing but the variables of the function.
LEMMA ImpUntouched ==
    ASSUME ImpInv, UNCHANGED vars
    PROVE  ImpInv'
  <1>1. UNCHANGED <<pc, kept, count, values, item>>
    BY DEF vars, tableVars, richVars
  <1> QED
    BY <1>1 DEF ImpInv, ImpTypes, ImpOpen, Imp!FailureCutsTheList

\* ImpInv holds throughout the function.
LEMMA ImpAlways == Spec => []ImpOK
  <1>1. Init => ImpOK
    BY ImpInit DEF Init, ImpOK
  <1>2. ImpOK /\ [Next]_vars => ImpOK'
    <2> SUFFICES ASSUME ImpOK, [Next]_vars, directory' = "imports"
                 PROVE  ImpInv'
      BY DEF ImpOK
    <2>1. ImpInv /\ (Imp!Step \/ UNCHANGED vars)
      BY OneParser DEF ImpOK
    <2> QED
      BY <2>1, ImpReadDescriptor, ImpTurn, ImpAddImport, ImpEndLookup, ImpReadDelayTable,
         ImpAddDelayedImport, ImpEndDelayLookup, ImpUntouched DEF Imp!Step
  <1> QED
    BY <1>1, <1>2, PTL DEF Spec

\* For every number of libraries and every limit, a failing lookup table cuts the list of
\* the imports there, and no library has an import twice (_parse_imports,
\* imports.cpp:62-247).
THEOREM FailureCutsEveryList == Spec => []FailureCutsTheImports
  <1>1. ImpOK => FailureCutsTheImports
    BY ImpCut DEF ImpOK, ImpInv, FailureCutsTheImports
  <1> QED
    BY <1>1, ImpAlways, PTL

\* The first of the libraries that have a name is the one that is asked for.
LEMMA FirstOfName ==
    ASSUME kept \in Seq(ImpLibrary), NEW k \in DOMAIN kept
    PROVE  \E j \in 1..k : /\ j \in DOMAIN kept /\ kept[j].name = kept[k].name
                           /\ Imp!Shown(k) = Imp!Named(j)
  <1> DEFINE dll == kept[k].name
             I   == {i \in 1..Len(kept) : kept[i].name = dll}
  <1>1. k \in I /\ I \in SUBSET Nat /\ I \subseteq DOMAIN kept
    OBVIOUS
  <1>2. PICK j \in I : \A i \in I : j <= i
    <2> HIDE DEF I
    <2> QED
      BY <1>1, LeastNatural
  <1>3. Imp!Min(I) = j
    <2> DEFINE y == CHOOSE x \in I : \A i \in I : x <= i
    <2> HIDE DEF I
    <2>1. y \in I /\ \A i \in I : y <= i
      BY <1>2
    <2> HIDE DEF y
    <2>2. y <= j /\ j <= y /\ y \in Nat /\ j \in Nat
      BY <1>1, <1>2, <2>1
    <2>3. y = j
      BY <2>2
    <2> QED
      BY <2>3 DEF y, Imp!Min
  <1>4. Imp!SelectInSeq(kept, LAMBDA l : l.name = dll) = Imp!Min(I)
    <2>1. I # {}
      BY <1>1
    <2> QED
      BY <2>1 DEF Imp!SelectInSeq
  <1>5. Imp!Shown(k) = Imp!Named(j)
    <2>1. \E i \in DOMAIN kept : kept[i].name = dll
      OBVIOUS
    <2> QED
      BY <1>3, <1>4, <2>1 DEF Imp!Shown, Imp!GetImportedFunctions
  <1>6. j \in 1..k /\ j \in DOMAIN kept /\ kept[j].name = dll
    BY <1>1, <1>2
  <1> QED
    BY <1>5, <1>6

\* Whatever libraries there are, with one name or with several, the dump shows under
\* a library the functions of the first of that name, its own if no other has it,
\* and the plugins find all that are imported by name (dump_imports,
\* dump.cpp:219-239, and find_imports, imports.cpp:337-381).
THEOREM ShownAreOwn == Spec => []ShownFunctionsAreOwn
  <1>1. ImpOK => ShownFunctionsAreOwn
    <2> SUFFICES ASSUME ImpInv PROVE Imp!ShownFunctionsAreOwn
      BY DEF ImpOK, ShownFunctionsAreOwn
    <2>1. kept \in Seq(ImpLibrary)
      BY DEF ImpInv, ImpTypes
    <2>2. ASSUME NEW k \in DOMAIN kept
          PROVE  /\ \E j \in 1..k : kept[j].name = kept[k].name /\ Imp!Shown(k) = Imp!Named(j)
                 /\ Imp!ByName(k) \subseteq Imp!FindImports
                 /\ Imp!DistinctNames => Imp!Shown(k) = Imp!Named(k)
      <3>1. PICK j \in 1..k : /\ j \in DOMAIN kept /\ kept[j].name = kept[k].name
                              /\ Imp!Shown(k) = Imp!Named(j)
        BY <2>1, FirstOfName
      <3>2. Imp!ByName(k) \subseteq Imp!FindImports
        <4> SUFFICES ASSUME NEW name \in Imp!ByName(k) PROVE name \in Imp!Range(Imp!Named(k))
          BY Zenon DEF Imp!FindImports
        <4>1. PICK fs : fs = kept[k].functions
          OBVIOUS
        <4>2. PICK f \in DOMAIN fs : name = fs[f].name /\ name # ""
          BY <4>1, Zenon DEF Imp!ByName, Imp!Range
        <4>3. Imp!NameIn(kept[k].name, fs[f]) = name
          BY <4>2, Zenon DEF Imp!NameIn
        <4>4. f \in DOMAIN Imp!Named(k) /\ Imp!Named(k)[f] = name
          BY <4>1, <4>2, <4>3, Zenon DEF Imp!Named
        <4> QED
          BY <4>4, Zenon DEF Imp!Range
      <3>3. Imp!DistinctNames => j = k
        BY <3>1 DEF Imp!DistinctNames
      <3> QED
        BY <3>1, <3>2, <3>3
    <2> QED
      BY <2>2, Zenon DEF Imp!ShownFunctionsAreOwn
  <1> QED
    BY <1>1, ImpAlways, PTL

-------------------------------------------------------------------------------
(* The text of the import hash.                                            *)

\* One text after another, as a step that the provers take as a whole.
Joined(t, u) == t \o u

\* The texts that come of the first pieces of a sequence, one after the other.
Prefixes(f, pieces, A, n) ==
    /\ f \in [0..n -> Seq(A)]
    /\ f[0] = <<>>
    /\ \A k \in 1..n : f[k] = Joined(f[k - 1], pieces[k])

LEMMA PrefixesExist ==
    ASSUME NEW A, NEW m \in Nat, NEW pieces, \A k \in 1..m : pieces[k] \in Seq(A)
    PROVE  \E f : Prefixes(f, pieces, A, m)
  <1> DEFINE S == {n \in Nat : n <= m => \E f : Prefixes(f, pieces, A, n)}
  <1>1. 0 \in S
    <2>1. Prefixes([k \in 0..0 |-> <<>>], pieces, A, 0)
      BY DEF Prefixes
    <2> QED
      BY <2>1
  <1>2. ASSUME NEW n \in S
        PROVE  n + 1 \in S
    <2> SUFFICES ASSUME n + 1 <= m
                 PROVE  \E f : Prefixes(f, pieces, A, n + 1)
      OBVIOUS
    <2>1. n \in Nat /\ n + 1 \in 1..m /\ pieces[n + 1] \in Seq(A)
      OBVIOUS
    <2>2. PICK f : Prefixes(f, pieces, A, n)
      BY <2>1
    <2>3. PICK u : u = Joined(f[n], pieces[n + 1])
      OBVIOUS
    <2>4. u \in Seq(A)
      BY <2>1, <2>2, <2>3, ConcatProperties DEF Prefixes, Joined
    <2> DEFINE g == [k \in 0..(n + 1) |-> IF k = n + 1 THEN u ELSE f[k]]
    <2>5. g \in [0..(n + 1) -> Seq(A)] /\ g[0] = <<>>
      BY <2>1, <2>2, <2>4 DEF Prefixes
    <2>6. ASSUME NEW k \in 1..(n + 1)
          PROVE  g[k] = Joined(g[k - 1], pieces[k])
      <3>1. g[n + 1] = u /\ \A j \in 0..n : g[j] = f[j]
        BY <2>1
      <3> HIDE DEF g
      <3>2. CASE k = n + 1
        <4>1. k - 1 = n /\ n \in 0..n
          BY <2>1, <3>2
        <4> QED
          BY <2>3, <3>1, <3>2, <4>1
      <3>3. CASE k # n + 1
        <4>1. k \in 1..n /\ k \in 0..n /\ k - 1 \in 0..n
          BY <2>1, <3>3
        <4>2. f[k] = Joined(f[k - 1], pieces[k])
          BY <2>2, <4>1 DEF Prefixes
        <4> QED
          BY <3>1, <4>1, <4>2
      <3> QED
        BY <3>2, <3>3
    <2>7. Prefixes(g, pieces, A, n + 1)
      BY <2>5, <2>6 DEF Prefixes
    <2> QED
      BY <2>7
  <1> HIDE DEF S
  <1>3. S \in SUBSET Nat /\ \A n \in S : n + 1 \in S
    BY <1>2 DEF S
  <1>4. S = Nat
    BY <1>1, <1>3, Induction
  <1>5. m \in S /\ m <= m
    BY <1>4
  <1> QED
    BY <1>5 DEF S

\* What the recursive definition of FlattenSeq defines.
Flattens(g, s) == g = [k \in 1..Len(s) |-> IF k = 1 THEN s[k] ELSE Joined(g[k - 1], s[k])]

\* The texts of the first pieces are such a function, and the only one.
LEMMA PrefixesFlatten ==
    ASSUME NEW A, NEW s \in Seq(Seq(A)), NEW f, Prefixes(f, s, A, Len(s))
    PROVE  /\ Flattens([k \in 1..Len(s) |-> f[k]], s)
           /\ \A g : Flattens(g, s) => \A k \in 1..Len(s) : g[k] = f[k]
  <1>0. PICK n \in Nat : n = Len(s)
    OBVIOUS
  <1>1. f[0] = <<>> /\ \A k \in 1..n : f[k] = Joined(f[k - 1], s[k]) /\ s[k] \in Seq(A)
    <2>1. \A k \in 1..n : s[k] \in Seq(A)
      BY <1>0
    <2> QED
      BY <1>0, <2>1 DEF Prefixes
  <1>2. 1 \in 1..n => f[1] = s[1]
    <2> SUFFICES ASSUME 1 \in 1..n PROVE f[1] = s[1]
      OBVIOUS
    <2>1. f[1] = Joined(f[1 - 1], s[1]) /\ s[1] \in Seq(A) /\ 1 - 1 = 0
      BY <1>1
    <2>2. f[1] = Joined(<<>>, s[1])
      BY <1>1, <2>1
    <2> QED
      BY <2>1, <2>2, ConcatEmptySeq DEF Joined
  <1>3. Flattens([k \in 1..Len(s) |-> f[k]], s)
    <2> DEFINE h == [k \in 1..n |-> f[k]]
    <2>1. \A k \in 1..n : h[k] = f[k]
      OBVIOUS
    <2>2. \A k \in 1..n : h[k] = IF k = 1 THEN s[k] ELSE Joined(h[k - 1], s[k])
      <3> SUFFICES ASSUME NEW k \in 1..n, k # 1 PROVE h[k] = Joined(h[k - 1], s[k])
        BY <1>2
      <3>1. k - 1 \in 1..n /\ f[k] = Joined(f[k - 1], s[k])
        BY <1>1, SMTT(30)
      <3> HIDE DEF h
      <3> QED
        BY <2>1, <3>1
    <2>3. h = [k \in 1..n |-> h[k]]
      OBVIOUS
    <2> HIDE DEF h
    <2>4. h = [k \in 1..n |-> IF k = 1 THEN s[k] ELSE Joined(h[k - 1], s[k])]
      BY <2>2, <2>3
    <2> QED
      BY <1>0, <2>4 DEF h, Flattens
  <1>4. ASSUME NEW g, Flattens(g, s)
        PROVE  \A k \in 1..n : g[k] = f[k]
    <2> DEFINE S == {k \in Nat : k \in 1..n => g[k] = f[k]}
    <2>1. \A k \in 1..n : g[k] = IF k = 1 THEN s[k] ELSE Joined(g[k - 1], s[k])
      BY <1>0, <1>4 DEF Flattens
    <2>2. 0 \in S
      OBVIOUS
    <2>3. ASSUME NEW k \in S
          PROVE  k + 1 \in S
      <3> SUFFICES ASSUME k + 1 \in 1..n PROVE g[k + 1] = f[k + 1]
        OBVIOUS
      <3>1. CASE k = 0
        BY <1>2, <2>1, <3>1
      <3>2. CASE k # 0
        <4>1. k \in 1..n /\ g[k] = f[k] /\ (k + 1) - 1 = k /\ k + 1 # 1
          BY <3>2
        <4>2. g[k + 1] = Joined(g[k], s[k + 1])
          BY <2>1, <4>1
        <4>3. f[k + 1] = Joined(f[k], s[k + 1])
          BY <1>1, <4>1
        <4> QED
          BY <4>1, <4>2, <4>3
      <3> QED
        BY <3>1, <3>2
    <2> HIDE DEF S
    <2>4. S \in SUBSET Nat /\ \A k \in S : k + 1 \in S
      BY <2>3 DEF S
    <2>5. S = Nat
      BY <2>2, <2>4, Induction
    <2> QED
      BY <2>5 DEF S
  <1> QED
    BY <1>0, <1>3, <1>4

\* FlattenSeq is the last of them.
LEMMA FlattenIsLast ==
    ASSUME NEW A, NEW s \in Seq(Seq(A))
    PROVE  \E f : Prefixes(f, s, A, Len(s)) /\ Imp!FlattenSeq(s) = f[Len(s)]
  <1>1. Len(s) \in Nat /\ \A k \in 1..Len(s) : s[k] \in Seq(A)
    OBVIOUS
  <1>2. PICK f : Prefixes(f, s, A, Len(s))
    BY <1>1, PrefixesExist
  <1>3. CASE Len(s) = 0
    <2>1. s = <<>>
      BY <1>3, EmptySeq
    <2>2. Imp!FlattenSeq(s) = s
      BY <1>3 DEF Imp!FlattenSeq
    <2> QED
      BY <1>2, <1>3, <2>1, <2>2 DEF Prefixes
  <1>4. CASE Len(s) # 0
    <2>1. \E g : Flattens(g, s)
      BY <1>2, PrefixesFlatten
    <2>2. \E g : Flattens(g, s) /\ Imp!FlattenSeq(s) = g[Len(s)]
      BY <1>4, <2>1 DEF Imp!FlattenSeq, Flattens, Joined
    <2>3. PICK g : Flattens(g, s) /\ Imp!FlattenSeq(s) = g[Len(s)]
      BY <2>2
    <2>4. Len(s) \in 1..Len(s)
      BY <1>1, <1>4
    <2>5. \A k \in 1..Len(s) : g[k] = f[k]
      <3>1. \A e : Flattens(e, s) => \A k \in 1..Len(s) : e[k] = f[k]
        BY <1>2, PrefixesFlatten, ZenonT(40)
      <3> QED
        BY <2>3, <3>1, Zenon
    <2>6. g[Len(s)] = f[Len(s)]
      BY <2>4, <2>5
    <2> QED
      BY <1>2, <2>3, <2>6
  <1> QED
    BY <1>3, <1>4

\* A text in which names and commas take turns, and which ends with a name.
IsComma(x) == x = Imp!Comma
Separated(t) ==
    /\ \A c \in 1..(Len(t) - 1) : IsComma(t[c]) # IsComma(t[c + 1])
    /\ Len(t) > 0 => ~IsComma(t[Len(t)])

\* One that starts with a comma.
Led(t) == Len(t) > 0 => IsComma(t[1])

\* What can be joined to a text, and what comes of it.
LEMMA JoinSeparated ==
    ASSUME NEW A, NEW t \in Seq(A), NEW u \in Seq(A), Separated(t), Separated(u), Led(u)
    PROVE  /\ Joined(t, u) \in Seq(A)
           /\ Separated(Joined(t, u))
           /\ Led(t) => Led(Joined(t, u))
           /\ Len(t) > 0 => Len(Joined(t, u)) > 0 /\ Joined(t, u)[1] = t[1]
  <1>1. PICK j : j = Joined(t, u)
    OBVIOUS
  <1>2. PICK m \in Nat : m = Len(t)
    OBVIOUS
  <1>3. PICK n \in Nat : n = Len(u)
    OBVIOUS
  <1>4. /\ j \in Seq(A) /\ Len(j) = m + n
        /\ \A c \in 1..m : j[c] = t[c]
        /\ \A c \in 1..n : j[m + c] = u[c]
    BY <1>1, <1>2, <1>3, ConcatProperties DEF Joined
  <1>5. ASSUME NEW c \in 1..(m + n - 1)
        PROVE  IsComma(j[c]) # IsComma(j[c + 1])
    <2>1. CASE c + 1 <= m
      <3>1. c \in 1..(m - 1) /\ c \in 1..m /\ c + 1 \in 1..m
        BY <2>1
      <3>2. j[c] = t[c] /\ j[c + 1] = t[c + 1]
        BY <1>4, <3>1
      <3>3. IsComma(t[c]) # IsComma(t[c + 1])
        BY <1>2, <3>1 DEF Separated
      <3> QED
        BY <3>2, <3>3
    <2>2. CASE c = m
      <3>1. m > 0 /\ n > 0 /\ m \in 1..m /\ 1 \in 1..n
        BY <2>2
      <3>2. j[c] = t[m] /\ j[c + 1] = u[1]
        BY <1>4, <2>2, <3>1
      <3>3. ~IsComma(t[m]) /\ IsComma(u[1])
        BY <1>2, <1>3, <3>1 DEF Separated, Led
      <3> QED
        BY <3>2, <3>3
    <2>3. CASE c > m
      <3>1. PICK d \in 1..(n - 1) : c = m + d
        <4>1. c - m \in 1..(n - 1) /\ c = m + (c - m)
          BY <2>3
        <4> QED
          BY <4>1
      <3>2. d \in 1..n /\ d + 1 \in 1..n /\ c + 1 = m + (d + 1)
        BY <3>1
      <3>3. j[c] = u[d] /\ j[c + 1] = u[d + 1]
        BY <1>4, <3>1, <3>2
      <3>4. IsComma(u[d]) # IsComma(u[d + 1])
        BY <1>3, <3>1 DEF Separated
      <3> QED
        BY <3>3, <3>4
    <2> QED
      BY <2>1, <2>2, <2>3
  <1>6. m + n > 0 => ~IsComma(j[m + n])
    <2>1. CASE n > 0
      <3>1. n \in 1..n /\ ~IsComma(u[n])
        BY <1>3, <2>1 DEF Separated
      <3> QED
        BY <1>4, <3>1
    <2>2. CASE n = 0 /\ m > 0
      <3>1. m \in 1..m /\ m + n = m /\ ~IsComma(t[m])
        BY <1>2, <2>2 DEF Separated
      <3> QED
        BY <1>4, <3>1
    <2> QED
      BY <2>1, <2>2
  <1>7. Separated(j)
    BY <1>4, <1>5, <1>6 DEF Separated
  <1>8. m > 0 => Len(j) > 0 /\ j[1] = t[1]
    <2> SUFFICES ASSUME m > 0 PROVE Len(j) > 0 /\ j[1] = t[1]
      OBVIOUS
    <2>1. 1 \in 1..m /\ m + n > 0
      OBVIOUS
    <2> QED
      BY <1>4, <2>1
  <1>9. Led(t) => Led(j)
    <2>1. CASE m > 0
      BY <1>2, <1>8, <2>1 DEF Led
    <2>2. CASE m = 0
      <3>1. Len(j) = n /\ (n > 0 => 1 \in 1..n /\ m + 1 = 1)
        BY <1>4, <2>2
      <3>2. n > 0 => j[1] = u[1]
        BY <1>4, <2>2, <3>1
      <3> QED
        BY <1>3, <3>1, <3>2 DEF Led
    <2> QED
      BY <2>1, <2>2
  <1> QED
    BY <1>1, <1>2, <1>4, <1>7, <1>8, <1>9

\* The same of all the pieces of a text: all but the first one start with a comma.
LEMMA FlattenSeparated ==
    ASSUME NEW A, NEW s \in Seq(Seq(A)),
           \A k \in 1..Len(s) : Separated(s[k]) /\ (k # 1 => Led(s[k]))
    PROVE  LET text == Imp!FlattenSeq(s)
           IN  /\ text \in Seq(A)
               /\ Separated(text)
               /\ Len(s) = 0 => text = <<>>
               /\ (Len(s) > 0 => Led(s[1])) => Led(text)
               /\ Len(s) > 0 /\ Len(s[1]) > 0 => Len(text) > 0 /\ text[1] = s[1][1]
  <1>1. PICK f : Prefixes(f, s, A, Len(s)) /\ Imp!FlattenSeq(s) = f[Len(s)]
    BY FlattenIsLast
  <1>2. PICK n \in Nat : n = Len(s)
    OBVIOUS
  <1>3. /\ f[0] = <<>> /\ \A k \in 0..n : f[k] \in Seq(A)
        /\ \A k \in 1..n : f[k] = Joined(f[k - 1], s[k])
    BY <1>1, <1>2 DEF Prefixes
  <1>4. \A k \in 1..n : s[k] \in Seq(A)
    BY <1>2
  <1> DEFINE Good(t, k) ==
                 /\ Separated(t)
                 /\ (n > 0 => Led(s[1])) => Led(t)
                 /\ k > 0 /\ Len(s[1]) > 0 => Len(t) > 0 /\ t[1] = s[1][1]
             S == {k \in Nat : k <= n => Good(f[k], k)}
  <1>5. 0 \in S
    <2>1. Len(<<>>) = 0 /\ Separated(<<>>) /\ Led(<<>>)
      BY DEF Separated, Led
    <2> QED
      BY <1>3, <2>1
  <1>6. ASSUME NEW k \in S
        PROVE  k + 1 \in S
    <2> SUFFICES ASSUME k + 1 <= n PROVE Good(f[k + 1], k + 1)
      OBVIOUS
    <2>1. k \in Nat /\ k \in 0..n /\ k + 1 \in 1..n /\ (k + 1) - 1 = k /\ n > 0
      OBVIOUS
    <2>2. Good(f[k], k)
      BY <2>1
    <2>3. f[k + 1] = Joined(f[k], s[k + 1]) /\ f[k] \in Seq(A) /\ s[k + 1] \in Seq(A)
      BY <1>3, <1>4, <2>1
    <2>4. Separated(s[k + 1]) /\ (k + 1 # 1 => Led(s[k + 1]))
      BY <1>2, <2>1
    <2>5. CASE k = 0
      <3>1. s[1] \in Seq(A) /\ f[1] = Joined(<<>>, s[1])
        BY <1>3, <2>3, <2>5
      <3>2. f[1] = s[1]
        BY <3>1, ConcatEmptySeq DEF Joined
      <3> QED
        BY <2>1, <2>4, <2>5, <3>2
    <2>6. CASE k # 0
      <3>1. Led(s[k + 1]) /\ k > 0 /\ Separated(f[k])
        BY <2>1, <2>2, <2>4, <2>6
      <3>2. /\ Separated(f[k + 1])
            /\ Led(f[k]) => Led(f[k + 1])
            /\ Len(f[k]) > 0 => Len(f[k + 1]) > 0 /\ f[k + 1][1] = f[k][1]
        BY <2>3, <2>4, <3>1, JoinSeparated
      <3> QED
        BY <2>2, <3>1, <3>2
    <2> QED
      BY <2>5, <2>6
  <1> HIDE DEF S
  <1>7. S \in SUBSET Nat /\ \A k \in S : k + 1 \in S
    BY <1>6 DEF S
  <1>8. S = Nat
    BY <1>5, <1>7, Induction
  <1>9. Good(f[n], n) /\ f[n] \in Seq(A)
    BY <1>3, <1>8 DEF S
  <1> QED
    BY <1>1, <1>2, <1>3, <1>9

\* The tokens of the text.
NameToken ==
    {Imp!Numbered} \cup {e.name : e \in LookupEntries}
                   \cup {OrdinalMap[q] : q \in DOMAIN OrdinalMap}
Token == {Imp!Comma} \cup NameToken

\* A name is no comma.
LEMMA NamesAreNoCommas ==
    ASSUME NEW x \in NameToken
    PROVE  ~IsComma(x)
  <1>1. Imp!Numbered # Imp!Comma
    BY Zenon DEF Imp!Numbered, Imp!Comma
  <1>2. \A e \in LookupEntries : e.name # Imp!Comma
    BY FunctionNamesAssumption, Zenon DEF Imp!Comma
  <1>3. \A q \in DOMAIN OrdinalMap : OrdinalMap[q] # Imp!Comma
    BY FunctionNamesAssumption, Zenon DEF Imp!Comma
  <1> QED
    BY <1>1, <1>2, <1>3, Zenon DEF NameToken, IsComma

LEMMA NamesAreTokens ==
    ASSUME NEW dll, NEW e \in LookupEntries
    PROVE  Imp!NameIn(dll, e) \in NameToken
  BY Zenon DEF Imp!NameIn, NameToken

\* The functions of a library have names.
LEMMA NamedIsSequence ==
    ASSUME kept \in Seq(ImpLibrary), NEW j \in DOMAIN kept
    PROVE  Imp!Named(j) \in Seq(NameToken) /\ Len(Imp!Named(j)) = Len(kept[j].functions)
  <1>1. kept[j].functions \in Seq(LookupEntries)
    <2>1. kept[j] \in ImpLibrary
      OBVIOUS
    <2> QED
      BY <2>1 DEF ImpLibrary
  <1>2. PICK fs \in Seq(LookupEntries) : fs = kept[j].functions
    BY <1>1
  <1>3. PICK n \in Nat : n = Len(fs) /\ DOMAIN fs = 1..n
    BY <1>2
  <1>4. \A f \in 1..n : fs[f] \in LookupEntries
    BY <1>2, <1>3
  <1>5. Imp!Named(j) = [f \in 1..n |-> Imp!NameIn(kept[j].name, fs[f])]
    BY <1>2, <1>3 DEF Imp!Named
  <1>6. \A f \in 1..n : Imp!NameIn(kept[j].name, fs[f]) \in NameToken
    BY <1>4, NamesAreTokens
  <1>7. [f \in 1..n |-> Imp!NameIn(kept[j].name, fs[f])] \in Seq(NameToken)
    BY <1>6
  <1> QED
    BY <1>2, <1>3, <1>5, <1>7

\* The part of the text that one library contributes.
LEMMA HashOfLibrary ==
    ASSUME kept \in Seq(ImpLibrary), NEW k \in DOMAIN kept
    PROVE  /\ Imp!HashOf(k) \in Seq(Token)
           /\ Separated(Imp!HashOf(k))
           /\ k # 1 => Led(Imp!HashOf(k))
           /\ k = 1 /\ kept[1].functions = <<>> => Imp!HashOf(k) = <<>>
           /\ k = 1 /\ kept[1].functions # <<>>
                  => Len(Imp!HashOf(k)) > 0 /\ ~IsComma(Imp!HashOf(k)[1])
  <1>1. PICK j \in 1..k : j \in DOMAIN kept /\ Imp!Shown(k) = Imp!Named(j)
    BY FirstOfName
  <1>2. PICK names \in Seq(NameToken) :
            Imp!Shown(k) = names /\ Len(names) = Len(kept[j].functions)
    BY <1>1, NamedIsSequence
  <1>3. PICK n \in Nat : n = Len(names) /\ DOMAIN names = 1..n
    OBVIOUS
  <1>4. k = 1 => (kept[1].functions = <<>> <=> n = 0)
    <2>1. k = 1 => j = 1
      OBVIOUS
    <2>2. kept[k] \in ImpLibrary
      OBVIOUS
    <2>3. kept[k].functions \in Seq(LookupEntries)
      BY <2>2 DEF ImpLibrary
    <2>4. kept[k].functions = <<>> <=> Len(kept[k].functions) = 0
      BY <2>3, EmptySeq
    <2> QED
      BY <1>2, <1>3, <2>1, <2>4
  <1> DEFINE Piece(f) == IF k = 1 /\ f = 1 THEN <<names[f]>> ELSE <<Imp!Comma, names[f]>>
             pieces == [f \in 1..n |-> Piece(f)]
  <1>5. Imp!HashOf(k) = Imp!FlattenSeq(pieces)
    BY <1>2, <1>3 DEF Imp!HashOf
  <1>6. ASSUME NEW f \in 1..n
        PROVE  /\ Piece(f) \in Seq(Token)
               /\ Separated(Piece(f))
               /\ k # 1 \/ f # 1 => Led(Piece(f))
               /\ k = 1 /\ f = 1 => Len(Piece(f)) > 0 /\ ~IsComma(Piece(f)[1])
    <2>1. names[f] \in NameToken /\ names[f] \in Token
      BY <1>3 DEF Token
    <2>2. PICK x : x = names[f]
      OBVIOUS
    <2>3. ~IsComma(x) /\ x \in Token
      BY <2>1, <2>2, NamesAreNoCommas
    <2>4. PICK c : c = Imp!Comma
      OBVIOUS
    <2>5. IsComma(c) /\ c \in Token
      BY <2>4 DEF IsComma, Token
    <2>6. CASE k = 1 /\ f = 1
      <3>1. Piece(f) = <<x>>
        BY <2>2, <2>6
      <3>2. <<x>> \in Seq(Token) /\ Len(<<x>>) = 1 /\ <<x>>[1] = x
        BY <2>3
      <3> QED
        BY <2>3, <2>6, <3>1, <3>2 DEF Separated
    <2>7. CASE k # 1 \/ f # 1
      <3>1. Piece(f) = <<c, x>>
        BY <2>2, <2>4, <2>7
      <3>2. <<c, x>> \in Seq(Token) /\ Len(<<c, x>>) = 2 /\ <<c, x>>[1] = c /\ <<c, x>>[2] = x
        BY <2>3, <2>5
      <3>3. Separated(<<c, x>>)
        BY <2>3, <2>5, <3>2 DEF Separated
      <3>4. Led(<<c, x>>)
        BY <2>5, <3>2 DEF Led
      <3> QED
        BY <2>7, <3>1, <3>2, <3>3, <3>4
    <2> QED
      BY <2>6, <2>7
  <1> HIDE DEF Piece
  <1>7. /\ pieces \in Seq(Seq(Token)) /\ Len(pieces) = n
        /\ \A f \in 1..n : pieces[f] = Piece(f)
    BY <1>6
  <1> HIDE DEF pieces
  <1>8. \A f \in 1..Len(pieces) : Separated(pieces[f]) /\ (f # 1 => Led(pieces[f]))
    BY <1>6, <1>7
  <1>9. PICK text : text = Imp!HashOf(k)
    OBVIOUS
  <1>10. /\ text \in Seq(Token)
         /\ Separated(text)
         /\ n = 0 => text = <<>>
         /\ (n > 0 => Led(pieces[1])) => Led(text)
         /\ n > 0 /\ Len(pieces[1]) > 0 => Len(text) > 0 /\ text[1] = pieces[1][1]
    BY <1>5, <1>7, <1>8, <1>9, FlattenSeparated
  <1>11. n > 0 => 1 \in 1..n
    OBVIOUS
  <1>12. k # 1 => Led(text)
    BY <1>6, <1>7, <1>10, <1>11
  <1>13. k = 1 /\ n > 0 => Len(text) > 0 /\ ~IsComma(text[1])
    BY <1>6, <1>7, <1>10, <1>11
  <1> QED
    BY <1>4, <1>9, <1>10, <1>12, <1>13

\* For any libraries and functions, in the text that hash_imports hashes a comma stands
\* between any two functions and nowhere else, except at the start if the first library
\* has no functions and another one has (import_hash.cpp:44-47).
THEOREM HashIsAlwaysSeparated == Spec => []HashIsSeparated
  <1>1. ImpOK => HashIsSeparated
    <2> SUFFICES ASSUME ImpInv PROVE Imp!HashIsSeparated
      BY DEF ImpOK, HashIsSeparated
    <2>1. kept \in Seq(ImpLibrary)
      BY DEF ImpInv, ImpTypes
    <2>2. PICK n \in Nat : n = Len(kept) /\ DOMAIN kept = 1..n
      BY <2>1
    <2> DEFINE parts == [k \in 1..n |-> Imp!HashOf(k)]
    <2>3. PICK text : text = Imp!HashText
      OBVIOUS
    <2>4. text = Imp!FlattenSeq(parts)
      BY <2>2, <2>3 DEF Imp!HashText
    <2>5. /\ parts \in Seq(Seq(Token)) /\ Len(parts) = n
          /\ \A k \in 1..n : parts[k] = Imp!HashOf(k)
      BY <2>1, <2>2, HashOfLibrary
    <2> HIDE DEF parts
    <2>6. \A k \in 1..Len(parts) : Separated(parts[k]) /\ (k # 1 => Led(parts[k]))
      BY <2>1, <2>2, <2>5, HashOfLibrary
    <2>7. /\ text \in Seq(Token)
          /\ Separated(text)
          /\ n = 0 => text = <<>>
          /\ (n > 0 => Led(parts[1])) => Led(text)
          /\ n > 0 /\ Len(parts[1]) > 0 => Len(text) > 0 /\ text[1] = parts[1][1]
      BY <2>4, <2>5, <2>6, FlattenSeparated
    <2> SUFFICES ASSUME text # <<>>
                 PROVE  /\ \A c \in 1..(Len(text) - 1) : IsComma(text[c]) # IsComma(text[c + 1])
                        /\ ~IsComma(text[Len(text)])
                        /\ IsComma(text[1]) <=> kept[1].functions = <<>>
      BY <2>3, Zenon DEF Imp!HashIsSeparated, IsComma
    <2>8. Len(text) \in Nat /\ Len(text) # 0
      BY <2>7, EmptySeq
    <2>9. n > 0 /\ 1 \in 1..n
      BY <2>2, <2>7
    <2>10. parts[1] = Imp!HashOf(1) /\ 1 \in DOMAIN kept
      BY <2>2, <2>5, <2>9
    <2>11. CASE kept[1].functions = <<>>
      <3>1. parts[1] = <<>>
        BY <2>1, <2>10, <2>11, HashOfLibrary
      <3>2. Led(parts[1])
        BY <3>1 DEF Led
      <3>3. IsComma(text[1])
        BY <2>7, <2>8, <3>2 DEF Led
      <3> QED
        BY <2>7, <2>8, <2>11, <3>3 DEF Separated
    <2>12. CASE kept[1].functions # <<>>
      <3>1. Len(parts[1]) > 0 /\ ~IsComma(parts[1][1])
        BY <2>1, <2>10, <2>12, HashOfLibrary
      <3>2. ~IsComma(text[1])
        BY <2>7, <2>9, <3>1
      <3> QED
        BY <2>7, <2>8, <2>12, <3>2 DEF Separated
    <2> QED
      BY <2>11, <2>12
  <1> QED
    BY <1>1, ImpAlways, PTL

-------------------------------------------------------------------------------
(* Exports.                                                                *)

\* The name of a function that has none.
NoName == ""
ExportName == ExportNames \cup {NoName}

\* A function of the export directory.
ExpFunction == [to : {"code", "forward", "nowhere"}, name : ExportName]

ExpTypes ==
    /\ pc \in {"directory", "functions", "tables", "names", "done"}
    /\ item \in [functions : Nat, names : Nat]
    /\ kept \in Seq(ExpFunction)
    /\ values \in Seq([ord : Nat, name : ExportName, there : BOOLEAN])
    /\ Len(kept) <= item.functions /\ Len(values) <= item.names

\* A function has the name of the last pair for it.
NamesFollow ==
    \A o \in DOMAIN kept :
        \/ Exp!PairsOf(o - 1) = {} /\ kept[o].name = NoName
        \/ \E p \in Exp!PairsOf(o - 1) :
               kept[o].name = values[p].name /\ \A q \in Exp!PairsOf(o - 1) : q <= p

\* The inductive invariant.
ExpInv ==
    /\ ExpTypes
    /\ NamesFollow
    /\ \A p \in 1..(Len(values) - 1) : values[p].there /\ values[p].name # NoName
    /\ pc = "names" => \A p \in DOMAIN values : values[p].there /\ values[p].name # NoName
    /\ pc \in {"directory", "functions", "tables"} => values = <<>>
    /\ pc = "directory" => kept = <<>>
    /\ pc \in {"tables", "names"} => Len(kept) = item.functions
    /\ values # <<>> => Len(kept) = item.functions

ExpOK == directory = "exports" => ExpInv

\* ExpInv is true when _parse_exports is called.
LEMMA ExpInit ==
    ASSUME Exp!Init
    PROVE  ExpInv
  <1>1. /\ pc = "directory" /\ item = [functions |-> 0, names |-> 0]
        /\ kept = <<>> /\ values = <<>> /\ Len(kept) = 0 /\ Len(values) = 0
        /\ DOMAIN kept = {} /\ DOMAIN values = {}
    BY DEF Exp!Init
  <1>2. item \in [functions : Nat, names : Nat] /\ item.functions = 0 /\ item.names = 0
    BY <1>1
  <1>3. ExpTypes
    BY <1>1, <1>2 DEF ExpTypes
  <1> QED
    BY <1>1, <1>3 DEF ExpInv, NamesFollow

\* The steps that leave the tables alone keep ExpInv.
LEMMA ExpTurn ==
    ASSUME ExpInv,
           \/ Exp!NoDirectory \/ Exp!FunctionFails \/ Exp!EndFunctions \/ Exp!ReadTables
           \/ Exp!EndNames
    PROVE  ExpInv'
  <1>1. /\ UNCHANGED <<kept, values, item>> /\ pc' \in {"tables", "names", "done"}
        /\ \/ pc = "directory" /\ pc' = "done"
           \/ pc = "functions" /\ (pc' = "done" \/ Len(kept) = item.functions)
           \/ pc = "tables" \/ (pc = "names" /\ pc' = "done")
        /\ pc' = "tables" => pc = "functions"
        /\ pc' = "names" => pc = "tables"
    BY DEF Exp!NoDirectory, Exp!FunctionFails, Exp!EndFunctions, Exp!ReadTables, Exp!EndNames
  <1>2. ExpTypes'
    BY <1>1 DEF ExpInv, ExpTypes
  <1>3. NamesFollow'
    BY <1>1 DEF ExpInv, NamesFollow, Exp!PairsOf
  <1>4. pc' = "names" => values' = <<>> /\ DOMAIN values' = {}
    BY <1>1 DEF ExpInv
  <1> QED
    BY <1>1, <1>2, <1>3, <1>4 DEF ExpInv

\* Reading the directory keeps ExpInv.
LEMMA ExpReadDirectory ==
    ASSUME ExpInv, Exp!ReadDirectory
    PROVE  ExpInv'
  <1>1. UNCHANGED <<kept, values>> /\ pc = "directory" /\ pc' = "functions"
    BY DEF Exp!ReadDirectory
  <1>2. PICK f \in 1..MaxFunctions, n \in 0..MaxNames : item' = [functions |-> f, names |-> n]
    BY DEF Exp!ReadDirectory
  <1>3. f \in Nat /\ n \in Nat
    BY ExportAssumption
  <1>4. item' \in [functions : Nat, names : Nat] /\ item'.functions = f /\ item'.names = n
    BY <1>2, <1>3
  <1>5. /\ kept = <<>> /\ values = <<>> /\ Len(kept) = 0 /\ Len(values) = 0
        /\ DOMAIN kept = {} /\ DOMAIN values = {}
    BY <1>1 DEF ExpInv
  <1>6. ExpTypes'
    BY <1>1, <1>3, <1>4, <1>5 DEF ExpInv, ExpTypes
  <1> QED
    BY <1>1, <1>5, <1>6 DEF ExpInv, NamesFollow

\* Reading an address keeps ExpInv.
LEMMA ExpReadFunction ==
    ASSUME ExpInv, Exp!ReadFunction
    PROVE  ExpInv'
  <1>1. UNCHANGED <<pc, item, values>> /\ pc = "functions" /\ Len(kept) < item.functions
    BY DEF Exp!ReadFunction
  <1>2. PICK t \in {"code", "forward", "nowhere"} :
           kept' = Append(kept, [to |-> t, name |-> NoName])
    BY Zenon DEF Exp!ReadFunction, NoName
  <1>3. /\ values = <<>> /\ DOMAIN values = {} /\ Len(kept) \in Nat /\ item.functions \in Nat
        /\ kept \in Seq(ExpFunction)
    BY <1>1 DEF ExpInv, ExpTypes
  <1> DEFINE new == [to |-> t, name |-> NoName]
  <1>4. new \in ExpFunction /\ new.name = NoName
    BY DEF ExportName, ExpFunction
  <1>5. kept' = Append(kept, new)
    BY <1>2
  <1> HIDE DEF new
  <1>6. /\ kept' \in Seq(ExpFunction)
        /\ Len(kept') = Len(kept) + 1
        /\ \A o \in DOMAIN kept' : kept'[o] = new \/ (o \in DOMAIN kept /\ kept'[o] = kept[o])
    BY <1>3, <1>4, <1>5
  <1>7. PICK n \in Nat, f \in Nat : n = Len(kept) /\ f = item.functions /\ n + 1 <= f
    BY <1>1, <1>3
  <1>8. ExpTypes'
    BY <1>1, <1>6, <1>7 DEF ExpInv, ExpTypes
  <1>9. NamesFollow'
    <2>1. \A o \in DOMAIN kept : kept[o].name = NoName
      BY <1>3 DEF ExpInv, NamesFollow, Exp!PairsOf
    <2>2. \A o \in DOMAIN kept' : kept'[o].name = NoName
      BY <1>4, <1>6, <2>1
    <2>3. \A o \in DOMAIN kept' : (Exp!PairsOf(o - 1))' = {}
      BY <1>1, <1>3 DEF Exp!PairsOf
    <2> QED
      BY <2>2, <2>3 DEF NamesFollow
  <1> QED
    BY <1>1, <1>3, <1>8, <1>9 DEF ExpInv

\* The pairs that name a function, after one more pair.
LEMMA PairsAppend ==
    ASSUME values \in Seq([ord : Nat, name : ExportName, there : BOOLEAN]),
           NEW v \in [ord : Nat, name : ExportName, there : BOOLEAN],
           values' = Append(values, v)
    PROVE  /\ values' \in Seq([ord : Nat, name : ExportName, there : BOOLEAN])
           /\ Len(values') = Len(values) + 1 /\ values'[Len(values) + 1] = v
           /\ \A p \in DOMAIN values : values'[p] = values[p]
           /\ \A o : v.there /\ v.ord = o =>
                  (Exp!PairsOf(o))' = Exp!PairsOf(o) \cup {Len(values) + 1}
           /\ \A o : ~(v.there /\ v.ord = o) => (Exp!PairsOf(o))' = Exp!PairsOf(o)
           /\ \A o : Exp!PairsOf(o) \subseteq 1..Len(values)
  <1>1. PICK n \in Nat : n = Len(values)
    OBVIOUS
  <1>2. DOMAIN values = 1..n
    BY <1>1
  <1>3. /\ values' \in Seq([ord : Nat, name : ExportName, there : BOOLEAN])
        /\ Len(values') = n + 1
    BY <1>1
  <1>4. values'[n + 1] = v /\ \A p \in 1..n : values'[p] = values[p]
    BY <1>1
  <1>5. DOMAIN values' = 1..(n + 1)
    BY <1>3
  <1>6. \A p \in 1..(n + 1) : p = n + 1 \/ p \in 1..n
    OBVIOUS
  <1>7. \A p \in 1..n : p \in 1..(n + 1) /\ p # n + 1
    OBVIOUS
  <1>8. n + 1 \in 1..(n + 1)
    OBVIOUS
  <1>9. \A o : v.there /\ v.ord = o => (Exp!PairsOf(o))' = Exp!PairsOf(o) \cup {n + 1}
    BY <1>2, <1>4, <1>5, <1>6, <1>7, <1>8 DEF Exp!PairsOf
  <1>10. \A o : ~(v.there /\ v.ord = o) => (Exp!PairsOf(o))' = Exp!PairsOf(o)
    BY <1>2, <1>4, <1>5, <1>6, <1>7, <1>8 DEF Exp!PairsOf
  <1>11. \A o : Exp!PairsOf(o) \subseteq 1..n
    BY <1>2 DEF Exp!PairsOf
  <1> QED
    BY <1>1, <1>2, <1>3, <1>4, <1>9, <1>10, <1>11

\* A function that gets a name.
WithName(s, k, n) == [s EXCEPT ![k].name = n]

\* Nothing else of the functions is changed.
LEMMA NameOne ==
    ASSUME NEW s \in Seq(ExpFunction),
           NEW k \in DOMAIN s, NEW n \in ExportName, NEW t, t = WithName(s, k, n)
    PROVE  /\ t \in Seq(ExpFunction)
           /\ Len(t) = Len(s) /\ DOMAIN t = DOMAIN s /\ t[k].name = n
           /\ \A j \in DOMAIN s : j # k => t[j] = s[j]
  <1>1. s[k] \in ExpFunction
    BY ElementOf, Zenon
  <1> DEFINE w == [s[k] EXCEPT !.name = n]
  <1>2. t = [s EXCEPT ![k] = w]
    BY DEF WithName
  <1>3. w \in ExpFunction /\ w.name = n
    BY <1>1 DEF ExpFunction
  <1> HIDE DEF w
  <1>4. /\ [s EXCEPT ![k] = w] \in Seq(ExpFunction)
        /\ Len([s EXCEPT ![k] = w]) = Len(s)
    BY <1>3
  <1> QED
    BY <1>2, <1>3, <1>4

\* Matching a name keeps ExpInv: the pair is the last one for its function.
LEMMA ExpMatchName ==
    ASSUME ExpInv, Exp!MatchName
    PROVE  ExpInv'
  <1>1. UNCHANGED item /\ pc = "names" /\ Len(values) < item.names
    BY Zenon DEF Exp!MatchName
  <1>2. PICK ord \in 0..MaxFunctions, n \in ExportName :
           /\ ord < Len(kept)
           /\ values' = Append(values, [ord |-> ord, name |-> n, there |-> TRUE])
           /\ kept' = [kept EXCEPT ![ord + 1].name = n]
           /\ pc' = IF n = NoName THEN "done" ELSE pc
    BY Zenon DEF Exp!MatchName, NoName, ExportName
  <1>3. /\ kept \in Seq(ExpFunction)
        /\ values \in Seq([ord : Nat, name : ExportName, there : BOOLEAN])
        /\ Len(kept) \in Nat /\ Len(values) \in Nat
        /\ item.names \in Nat /\ Len(kept) = item.functions /\ NamesFollow
    BY <1>1 DEF ExpInv, ExpTypes
  <1>4. ord \in Nat /\ ord + 1 \in DOMAIN kept
    BY <1>2, <1>3, ExportAssumption
  <1>5. PICK i \in DOMAIN kept : i = ord + 1
    BY <1>4
  <1> DEFINE new == [ord |-> ord, name |-> n, there |-> TRUE]
  <1>6. /\ new \in [ord : Nat, name : ExportName, there : BOOLEAN]
        /\ new.there /\ new.ord = ord /\ new.name = n
    BY <1>4
  <1>7. values' = Append(values, new) /\ kept' = WithName(kept, i, n)
    BY <1>2, <1>5 DEF WithName
  <1> HIDE DEF new
  <1>8. /\ values' \in Seq([ord : Nat, name : ExportName, there : BOOLEAN])
        /\ Len(values') = Len(values) + 1 /\ values'[Len(values) + 1] = new
        /\ \A p \in DOMAIN values : values'[p] = values[p]
        /\ (Exp!PairsOf(ord))' = Exp!PairsOf(ord) \cup {Len(values) + 1}
        /\ \A o : o # ord => (Exp!PairsOf(o))' = Exp!PairsOf(o)
        /\ \A o : Exp!PairsOf(o) \subseteq 1..Len(values)
    BY <1>3, <1>6, <1>7, PairsAppend
  <1>9. /\ kept' \in Seq(ExpFunction)
        /\ Len(kept') = Len(kept) /\ DOMAIN kept' = DOMAIN kept /\ kept'[i].name = n
        /\ \A j \in DOMAIN kept : j # i => kept'[j] = kept[j]
    <2>1. kept' = WithName(kept, i, n)
      BY <1>7
    <2>2. kept \in Seq(ExpFunction)
      BY <1>3
    <2> QED
      BY <2>1, <2>2, NameOne
  <1>10. PICK m \in Nat, z \in Nat : m = Len(values) /\ z = item.names /\ m + 1 <= z
    BY <1>1, <1>3
  <1>11. pc' \in {"names", "done"} /\ (pc' = "names" => n # NoName)
    BY <1>1, <1>2
  <1>12. ExpTypes'
    <2>1. pc' \in {"directory", "functions", "tables", "names", "done"}
      BY <1>11
    <2> QED
      BY <1>1, <1>8, <1>9, <1>10, <2>1 DEF ExpInv, ExpTypes
  <1>13. ASSUME NEW o \in DOMAIN kept'
         PROVE  \/ (Exp!PairsOf(o - 1))' = {} /\ kept'[o].name = NoName
                \/ \E p \in (Exp!PairsOf(o - 1))' :
                       kept'[o].name = values'[p].name /\ \A q \in (Exp!PairsOf(o - 1))' : q <= p
    <2>0. o \in DOMAIN kept /\ o \in Nat
      BY <1>3, <1>9
    <2>1. CASE o = i
      <3>1. o - 1 = ord
        BY <1>4, <1>5, <2>1
      <3>2. m + 1 \in (Exp!PairsOf(o - 1))' /\ kept'[o].name = values'[m + 1].name
        BY <1>6, <1>8, <1>9, <1>10, <2>1, <3>1
      <3>3. (Exp!PairsOf(o - 1))' \subseteq 1..(m + 1)
        <4>1. Exp!PairsOf(ord) \subseteq 1..m
          BY <1>8, <1>10
        <4>2. 1..m \subseteq 1..(m + 1) /\ m + 1 \in 1..(m + 1)
          OBVIOUS
        <4> QED
          BY <1>8, <1>10, <3>1, <4>1, <4>2
      <3>4. \A q \in (Exp!PairsOf(o - 1))' : q <= m + 1
        BY <3>3
      <3> QED
        BY <3>2, <3>4
    <2>2. CASE o # i
      <3>1. o - 1 # ord
        BY <1>4, <1>5, <2>0, <2>2
      <3>2. (Exp!PairsOf(o - 1))' = Exp!PairsOf(o - 1) /\ kept'[o] = kept[o]
        BY <1>8, <1>9, <2>0, <2>2, <3>1
      <3>3. \A p \in Exp!PairsOf(o - 1) : values'[p] = values[p]
        BY <1>8 DEF Exp!PairsOf
      <3>4. \/ Exp!PairsOf(o - 1) = {} /\ kept[o].name = NoName
            \/ \E p \in Exp!PairsOf(o - 1) :
                   kept[o].name = values[p].name /\ \A q \in Exp!PairsOf(o - 1) : q <= p
        BY <1>3, <2>0 DEF NamesFollow
      <3> QED
        BY <3>2, <3>3, <3>4
    <2> QED
      BY <2>1, <2>2
  <1>14. NamesFollow'
    BY <1>13 DEF NamesFollow
  <1>15. \A p \in 1..m : values'[p].there /\ values'[p].name # NoName
    <2>1. \A p \in 1..m : p \in DOMAIN values
      BY <1>3, <1>10
    <2> QED
      BY <1>1, <1>8, <2>1 DEF ExpInv
  <1>16. \A p \in 1..(Len(values') - 1) : values'[p].there /\ values'[p].name # NoName
    <2>1. Len(values') - 1 = m
      BY <1>8, <1>10
    <2> QED
      BY <1>15, <2>1
  <1>17. pc' = "names" => \A p \in DOMAIN values' : values'[p].there /\ values'[p].name # NoName
    <2>1. \A p \in DOMAIN values' : p \in 1..m \/ p = m + 1
      BY <1>8, <1>10
    <2> QED
      BY <1>6, <1>8, <1>10, <1>11, <1>15, <2>1
  <1> QED
    BY <1>1, <1>3, <1>9, <1>11, <1>12, <1>14, <1>16, <1>17 DEF ExpInv

\* A pair that cannot be matched keeps ExpInv.
LEMMA ExpMatchFails ==
    ASSUME ExpInv, Exp!MatchFails
    PROVE  ExpInv'
  <1>1. UNCHANGED <<item, kept>> /\ pc = "names" /\ pc' = "done" /\ Len(values) < item.names
    BY Zenon DEF Exp!MatchFails
  <1>2. PICK ord \in 0..MaxFunctions :
           values' = Append(values, [ord |-> ord, name |-> NoName, there |-> FALSE])
    BY Zenon DEF Exp!MatchFails, NoName
  <1>3. /\ values \in Seq([ord : Nat, name : ExportName, there : BOOLEAN])
        /\ Len(values) \in Nat
        /\ item.names \in Nat /\ Len(kept) = item.functions /\ NamesFollow
    BY <1>1 DEF ExpInv, ExpTypes
  <1>4. ord \in Nat
    BY ExportAssumption
  <1> DEFINE new == [ord |-> ord, name |-> NoName, there |-> FALSE]
  <1>5. new \in [ord : Nat, name : ExportName, there : BOOLEAN] /\ ~new.there
    BY <1>4 DEF ExportName
  <1>6. values' = Append(values, new)
    BY <1>2
  <1> HIDE DEF new
  <1>7. /\ values' \in Seq([ord : Nat, name : ExportName, there : BOOLEAN])
        /\ Len(values') = Len(values) + 1
        /\ \A p \in DOMAIN values : values'[p] = values[p]
        /\ \A o : (Exp!PairsOf(o))' = Exp!PairsOf(o)
    BY <1>3, <1>5, <1>6, PairsAppend
  <1>8. PICK m \in Nat, z \in Nat : m = Len(values) /\ z = item.names /\ m + 1 <= z
    BY <1>1, <1>3
  <1>9. ExpTypes'
    BY <1>1, <1>7, <1>8 DEF ExpInv, ExpTypes
  <1>10. NamesFollow'
    <2>1. \A o : \A p \in Exp!PairsOf(o) : values'[p] = values[p]
      BY <1>7 DEF Exp!PairsOf
    <2>2. \A o : (Exp!PairsOf(o))' = Exp!PairsOf(o)
      BY <1>7
    <2>3. ASSUME NEW o \in DOMAIN kept
          PROVE  \/ (Exp!PairsOf(o - 1))' = {} /\ kept[o].name = NoName
                 \/ \E p \in (Exp!PairsOf(o - 1))' :
                        kept[o].name = values'[p].name /\ \A q \in (Exp!PairsOf(o - 1))' : q <= p
      <3>1. (Exp!PairsOf(o - 1))' = Exp!PairsOf(o - 1)
        BY <2>2
      <3>2. \/ Exp!PairsOf(o - 1) = {} /\ kept[o].name = NoName
            \/ \E p \in Exp!PairsOf(o - 1) :
                   kept[o].name = values[p].name /\ \A q \in Exp!PairsOf(o - 1) : q <= p
        BY <1>3 DEF NamesFollow
      <3> QED
        BY <2>1, <3>1, <3>2
    <2> QED
      BY <1>1, <2>3 DEF NamesFollow
  <1>11. \A p \in 1..(Len(values') - 1) : values'[p].there /\ values'[p].name # NoName
    <2>1. \A p \in 1..(Len(values') - 1) : p \in DOMAIN values
      BY <1>3, <1>7
    <2> QED
      BY <1>1, <1>7, <2>1 DEF ExpInv
  <1> QED
    BY <1>1, <1>3, <1>9, <1>10, <1>11 DEF ExpInv

\* ExpInv is about nothing but the variables of the function.
LEMMA ExpUntouched ==
    ASSUME ExpInv, UNCHANGED vars
    PROVE  ExpInv'
  <1>1. UNCHANGED <<pc, kept, values, item>>
    BY DEF vars, tableVars, richVars
  <1> QED
    BY <1>1 DEF ExpInv, ExpTypes, NamesFollow, Exp!PairsOf

\* ExpInv holds throughout the function.
LEMMA ExpAlways == Spec => []ExpOK
  <1>1. Init => ExpOK
    BY ExpInit DEF Init, ExpOK
  <1>2. ExpOK /\ [Next]_vars => ExpOK'
    <2> SUFFICES ASSUME ExpOK, [Next]_vars, directory' = "exports"
                 PROVE  ExpInv'
      BY DEF ExpOK
    <2>1. ExpInv /\ (Exp!Step \/ UNCHANGED vars)
      BY OneParser DEF ExpOK
    <2> QED
      BY <2>1, ExpTurn, ExpReadDirectory, ExpReadFunction, ExpMatchName, ExpMatchFails,
         ExpUntouched DEF Exp!Step
  <1> QED
    BY <1>1, <1>2, PTL DEF Spec

\* For all tables of names, whatever positions they name and however often, every export
\* has the name of the last pair for it before the first that fails (_parse_exports,
\* pe.cpp:684-776).
THEOREM ExportNamesAreRight == Spec => []ExportNamesFollowTable
  <1>1. ExpOK => ExportNamesFollowTable
    <2> SUFFICES ASSUME ExpInv PROVE Exp!ExportNamesFollowTable
      BY DEF ExpOK, ExportNamesFollowTable
    <2>1. ASSUME NEW o \in DOMAIN kept
          PROVE  kept[o].name =
                     IF Exp!PairsOf(o - 1) = {} THEN NoName
                     ELSE values[CHOOSE p \in Exp!PairsOf(o - 1) :
                                    \A q \in Exp!PairsOf(o - 1) : q <= p].name
      <3>1. Exp!PairsOf(o - 1) \in SUBSET Nat
        BY DEF ExpInv, ExpTypes, Exp!PairsOf
      <3>2. \/ Exp!PairsOf(o - 1) = {} /\ kept[o].name = NoName
            \/ \E p \in Exp!PairsOf(o - 1) :
                   kept[o].name = values[p].name /\ \A q \in Exp!PairsOf(o - 1) : q <= p
        BY DEF ExpInv, NamesFollow
      <3>3. PICK S : S = Exp!PairsOf(o - 1)
        OBVIOUS
      <3>4. CASE S # {}
        <4>1. PICK p \in S : kept[o].name = values[p].name /\ \A q \in S : q <= p
          BY <3>2, <3>3, <3>4
        <4>2. (CHOOSE x \in S : \A q \in S : q <= x) = p
          BY <3>1, <3>3, <4>1, Greatest
        <4> QED
          BY <3>3, <3>4, <4>1, <4>2, Zenon
      <3>5. CASE S = {}
        BY <3>2, <3>3, <3>5
      <3> QED
        BY <3>4, <3>5
    <2>2. \A p \in 1..(Len(values) - 1) : values[p].there /\ values[p].name # NoName
      BY DEF ExpInv
    <2>3. values # <<>> => Len(kept) = item.functions
      BY DEF ExpInv
    <2>4. \A o \in DOMAIN kept : kept[o].to = "forward" => o \in Exp!Shown
      BY DEF Exp!Shown
    <2> QED
      BY <2>1, <2>2, <2>3, <2>4, Zenon DEF Exp!ExportNamesFollowTable, NoName
  <1> QED
    BY <1>1, ExpAlways, PTL
===============================================================================
