--------------------------- MODULE FileReportProofs ---------------------------
(***************************************************************************)
(* Proofs about the tree a report is collected in.  The heap is seen       *)
(* through what it says of a node: its name and its children.              *)
(***************************************************************************)
EXTENDS FileReport, SequenceTheorems, FiniteSetTheorems, WellFoundedInduction, TLAPS

-------------------------------------------------------------------------------
(* Names and their suffixes.                                               *)

\* What names are made of.
Bases ==
    Range(Categories) \cup {name.base : name \in EntryName} \cup {VersionInfo, LangID} \cup
    {"root", "path", "Language", "Plugins", "plugin", "level", "plugin_output", "summary", "info_"}

Names == [base : Bases, index : Nat, dup : Seq(Nat)]

\* The i-th of the names that nodes of the same name are given.
Numbered(name, i) == IF i = 1 THEN name ELSE Suffixed(name, i)

\* A suffix is one number more.
LEMMA SuffixedFields ==
    ASSUME NEW name \in Names, NEW i \in Nat
    PROVE  /\ Suffixed(name, i) \in Names
           /\ Suffixed(name, i).base = name.base
           /\ Suffixed(name, i).index = name.index
           /\ Suffixed(name, i).dup = Append(name.dup, i)
  BY SMTT(30) DEF Suffixed, Names

\* Names are the same if their parts are.
LEMMA SameName ==
    ASSUME NEW a \in Names, NEW b \in Names,
           a.base = b.base, a.index = b.index, a.dup = b.dup
    PROVE  a = b
  BY DEF Names

LEMMA SuffixedIsInjective ==
    ASSUME NEW a \in Names, NEW b \in Names, NEW i \in Nat, NEW j \in Nat,
           Suffixed(a, i) = Suffixed(b, j)
    PROVE  a = b /\ i = j
  <1>1. /\ Suffixed(a, i).base = a.base /\ Suffixed(a, i).index = a.index
        /\ Suffixed(a, i).dup = Append(a.dup, i)
    BY SuffixedFields
  <1>2. /\ Suffixed(b, j).base = b.base /\ Suffixed(b, j).index = b.index
        /\ Suffixed(b, j).dup = Append(b.dup, j)
    BY SuffixedFields
  <1>3. Append(a.dup, i) = Append(b.dup, j)
    BY <1>1, <1>2
  <1>4. a.dup \in Seq(Nat) /\ b.dup \in Seq(Nat)
    BY DEF Names
  <1>5. a.dup = b.dup /\ i = j
    <2>1. PICK s \in Seq(Nat), t \in Seq(Nat) : s = a.dup /\ t = b.dup
      BY <1>4
    <2> QED
      BY <1>3, <2>1, AppendInjective, SMTT(30)
  <1> QED
    BY <1>1, <1>2, <1>5, SameName

LEMMA SuffixedIsLonger ==
    ASSUME NEW a \in Names, NEW i \in Nat
    PROVE  Suffixed(a, i) # a
  <1>1. a.dup \in Seq(Nat)
    BY DEF Names
  <1>2. Len(Append(a.dup, i)) = Len(a.dup) + 1
    BY <1>1
  <1>3. Append(a.dup, i) # a.dup
    BY <1>1, <1>2
  <1> QED
    BY <1>3, SuffixedFields

\* The names nodes of the same name are given are names, and differ.
LEMMA NumberedNames ==
    ASSUME NEW name \in Names, NEW i \in Nat \ {0}
    PROVE  /\ Numbered(name, i) \in Names
           /\ \A j \in Nat \ {0} : Numbered(name, i) = Numbered(name, j) => i = j
           /\ \A other \in Names, j \in Nat \ {0} :
                  i > 1 /\ j > 1 /\ Numbered(name, i) = Numbered(other, j) => name = other /\ i = j
  <1>1. Numbered(name, i) \in Names
    BY SuffixedFields DEF Numbered
  <1>2. ASSUME NEW j \in Nat \ {0}, Numbered(name, i) = Numbered(name, j) PROVE i = j
    BY <1>2, SuffixedIsInjective, SuffixedIsLonger DEF Numbered
  <1>3. ASSUME NEW other \in Names, NEW j \in Nat \ {0}, i > 1, j > 1,
               Numbered(name, i) = Numbered(other, j)
        PROVE  name = other /\ i = j
    BY <1>3, SuffixedIsInjective DEF Numbered
  <1> QED
    BY <1>1, <1>2, <1>3, Zenon

-------------------------------------------------------------------------------
(* Induction.                                                              *)

\* Numbers have a least one among them.
LEMMA LeastNatural ==
    ASSUME NEW S \in SUBSET Nat, S # {}
    PROVE  \E k \in S : \A j \in S : k <= j
  <1>1. PICK R : R = OpToRel(<, Nat)
    BY Zenon
  <1>2. \A x, y \in Nat : x < y => <<x, y>> \in R
    BY <1>1 DEF OpToRel
  <1>3. IsWellFoundedOn(R, Nat)
    BY <1>1, NatLessThanWellFounded, Zenon
  <1>4. PICK k \in S : \A j \in S : ~(<<j, k>> \in R)
    BY <1>3, WFMin, Zenon
  <1>5. \A j \in S : ~(j < k)
    BY <1>2, <1>4
  <1> QED
    BY <1>5

\* Induction over the natural numbers, with a set for the property.
LEMMA Induction ==
    ASSUME NEW S \in SUBSET Nat, 0 \in S, \A n \in S : n + 1 \in S
    PROVE  S = Nat
  <1> SUFFICES ASSUME NEW n \in Nat \ S PROVE FALSE
    OBVIOUS
  <1>1. PICK m \in Nat \ S : \A k \in Nat \ S : m <= k
    BY LeastNatural
  <1>2. m - 1 \in S
    BY <1>1
  <1>3. (m - 1) + 1 \in S
    BY <1>2
  <1> QED
    BY <1>1, <1>3

-------------------------------------------------------------------------------
(* The name a node is given when it is appended.                           *)

\* The pass of append over siblings of the given names, up to the n-th.
IsPass(f, ns, name, n) ==
    f = [k \in 0..n |->
            IF k = 0 THEN [current |-> name, i |-> 2]
            ELSE IF ns[k] = f[k - 1].current
                 THEN [current |-> Suffixed(name, f[k - 1].i), i |-> f[k - 1].i + 1]
                 ELSE f[k - 1]]

\* One of the first n siblings has the name.
Has(ns, n, name) == \E j \in 1..n : ns[j] = name

\* The file gives no name of this text that ends in a number already.
Free(name) == ~NumberedByFile(name)

\* No sibling with such a name has a number before one has the number before it.
Ordered(ns, n) ==
    \A k \in 1..n, b \in Names, i \in Nat \ {0} :
        (Free(b) /\ ns[k] = Numbered(b, i + 1)) => Has(ns, k - 1, Numbered(b, i))

\* A number makes no difference to whether the file numbers a name.
LEMMA FreeFamily ==
    ASSUME NEW name \in Names, NEW i \in Nat \ {0}
    PROVE  Free(Numbered(name, i)) <=> Free(name)
  <1>1. Numbered(name, i).base = name.base /\ Numbered(name, i).index = name.index
    BY SuffixedFields DEF Numbered
  <1> QED
    BY <1>1, Zenon DEF Free, NumberedByFile

LEMMA PassExists ==
    ASSUME NEW ns, NEW name, NEW m \in Nat
    PROVE  \E f : IsPass(f, ns, name, m)
  <1> DEFINE S == {n \in Nat : \E f : IsPass(f, ns, name, n)}
  <1>1. 0 \in S
    <2>1. IsPass([k \in 0..0 |-> [current |-> name, i |-> 2]], ns, name, 0)
      BY DEF IsPass
    <2> QED
      BY <2>1
  <1>2. ASSUME NEW n \in S
        PROVE  n + 1 \in S
    <2>1. n \in Nat
      OBVIOUS
    <2>2. PICK f : IsPass(f, ns, name, n)
      OBVIOUS
    <2> DEFINE g == [k \in 0..(n + 1) |->
                        IF k = n + 1
                        THEN IF ns[n + 1] = f[n].current
                             THEN [current |-> Suffixed(name, f[n].i), i |-> f[n].i + 1]
                             ELSE f[n]
                        ELSE f[k]]
    <2>3. ASSUME NEW k \in 0..(n + 1)
          PROVE  g[k] = IF k = 0 THEN [current |-> name, i |-> 2]
                        ELSE IF ns[k] = g[k - 1].current
                             THEN [current |-> Suffixed(name, g[k - 1].i), i |-> g[k - 1].i + 1]
                             ELSE g[k - 1]
      <3>1. CASE k = n + 1
        <4>1. k - 1 \in 0..n /\ k - 1 = n /\ k # 0 /\ g[k - 1] = f[n]
          BY <2>1, <3>1
        <4> QED
          BY <2>1, <3>1, <4>1
      <3>2. CASE k \in 0..n /\ k # 0
        <4>1. k - 1 \in 0..n /\ g[k - 1] = f[k - 1] /\ g[k] = f[k]
          BY <2>1, <3>2
        <4> QED
          BY <2>2, <3>2, <4>1, ZenonT(40) DEF IsPass
      <3>3. CASE k = 0
        BY <2>1, <2>2, <3>3 DEF IsPass
      <3> QED
        BY <2>1, <3>1, <3>2, <3>3
    <2>4. IsPass(g, ns, name, n + 1)
      BY <2>3 DEF IsPass
    <2> QED
      BY <2>1, <2>4
  <1> HIDE DEF S
  <1>3. S \in SUBSET Nat /\ \A n \in S : n + 1 \in S
    BY <1>2 DEF S
  <1>4. S = Nat
    BY <1>1, <1>3, Induction
  <1> QED
    BY <1>4 DEF S

\* Where the pass stands after n siblings: at the c-th of the names, the ones
\* before which it has met; it has not met this one.
Stands(ns, name, n, c) ==
    /\ \A d \in 1..(c - 1) : Has(ns, n, Numbered(name, d))
    /\ (Free(name) /\ Ordered(ns, n)) => ~Has(ns, n, Numbered(name, c))

LEMMA HasMore ==
    ASSUME NEW ns, NEW n \in Nat, NEW name
    PROVE  Has(ns, n + 1, name) <=> Has(ns, n, name) \/ ns[n + 1] = name
  BY DEF Has

LEMMA OrderedBefore ==
    ASSUME NEW ns, NEW n \in Nat, Ordered(ns, n + 1)
    PROVE  Ordered(ns, n)
  BY DEF Ordered

LEMMA StandsStep ==
    ASSUME NEW ns, NEW name \in Names, NEW n \in Nat, NEW c \in Nat \ {0},
           Stands(ns, name, n, c)
    PROVE  /\ ns[n + 1] = Numbered(name, c) => Stands(ns, name, n + 1, c + 1)
           /\ ns[n + 1] # Numbered(name, c) => Stands(ns, name, n + 1, c)
  <1>1. \A d \in 1..(c - 1) : Has(ns, n + 1, Numbered(name, d))
    BY HasMore DEF Stands
  <1>2. (Free(name) /\ Ordered(ns, n + 1)) => ~Has(ns, n, Numbered(name, c))
    BY OrderedBefore DEF Stands
  <1>3. ASSUME ns[n + 1] = Numbered(name, c)
        PROVE  Stands(ns, name, n + 1, c + 1)
    <2>1. \A d \in 1..((c + 1) - 1) : Has(ns, n + 1, Numbered(name, d))
      BY <1>1, <1>3, HasMore
    <2>2. ASSUME Free(name), Ordered(ns, n + 1), Has(ns, n + 1, Numbered(name, c + 1))
          PROVE  FALSE
      <3>1. PICK j \in 1..(n + 1) : ns[j] = Numbered(name, c + 1)
        BY <2>2 DEF Has
      <3>2. Numbered(name, c) # Numbered(name, c + 1)
        <4>1. c + 1 \in Nat \ {0} /\ c # c + 1
          OBVIOUS
        <4> QED
          BY <4>1, NumberedNames
      <3>3. j \in 1..n
        BY <1>3, <3>1, <3>2
      <3>4. Has(ns, j - 1, Numbered(name, c))
        BY <2>2, <3>1 DEF Ordered
      <3>5. Has(ns, n, Numbered(name, c))
        BY <3>3, <3>4 DEF Has
      <3> QED
        BY <1>2, <2>2, <3>5
    <2> QED
      BY <2>1, <2>2 DEF Stands
  <1>4. ASSUME ns[n + 1] # Numbered(name, c)
        PROVE  Stands(ns, name, n + 1, c)
    BY <1>1, <1>2, <1>4, HasMore DEF Stands
  <1> QED
    BY <1>3, <1>4

\* What append has tried after k siblings.
Tried(f, ns, name, k) ==
    \E c \in Nat \ {0} :
        f[k].current = Numbered(name, c) /\ f[k].i = c + 1 /\ Stands(ns, name, k, c)

LEMMA PassStands ==
    ASSUME NEW ns, NEW name \in Names, NEW m \in Nat, NEW f, IsPass(f, ns, name, m)
    PROVE  \A k \in 0..m : Tried(f, ns, name, k)
  <1> DEFINE S == {k \in Nat : k <= m => Tried(f, ns, name, k)}
  <1>1. 0 \in S
    <2>1. f[0].current = Numbered(name, 1) /\ f[0].i = 1 + 1
      BY DEF IsPass, Numbered
    <2>2. Stands(ns, name, 0, 1)
      BY DEF Stands, Has
    <2> QED
      BY <2>1, <2>2 DEF Tried
  <1>2. ASSUME NEW k \in S
        PROVE  k + 1 \in S
    <2> SUFFICES ASSUME k + 1 <= m
                 PROVE  Tried(f, ns, name, k + 1)
      OBVIOUS
    <2>1. k \in Nat /\ k + 1 \in 0..m /\ k + 1 # 0 /\ (k + 1) - 1 = k /\ Tried(f, ns, name, k)
      OBVIOUS
    <2>2. PICK c \in Nat \ {0} :
              f[k].current = Numbered(name, c) /\ f[k].i = c + 1 /\ Stands(ns, name, k, c)
      BY <2>1 DEF Tried
    <2>3. f[k + 1] = IF ns[k + 1] = f[k].current
                     THEN [current |-> Suffixed(name, f[k].i), i |-> f[k].i + 1]
                     ELSE f[k]
      BY <2>1 DEF IsPass
    <2>4. /\ ns[k + 1] = Numbered(name, c) => Stands(ns, name, k + 1, c + 1)
          /\ ns[k + 1] # Numbered(name, c) => Stands(ns, name, k + 1, c)
      BY <2>1, <2>2, StandsStep
    <2>5. CASE ns[k + 1] = Numbered(name, c)
      <3>1. f[k + 1].current = Suffixed(name, c + 1) /\ f[k + 1].i = (c + 1) + 1
        BY <2>2, <2>3, <2>5
      <3>2. Suffixed(name, c + 1) = Numbered(name, c + 1) /\ c + 1 \in Nat \ {0}
        BY DEF Numbered
      <3> QED
        BY <2>4, <2>5, <3>1, <3>2 DEF Tried
    <2>6. CASE ns[k + 1] # Numbered(name, c)
      BY <2>2, <2>3, <2>4, <2>6 DEF Tried
    <2> QED
      BY <2>5, <2>6
  <1> HIDE DEF S
  <1>3. S \in SUBSET Nat /\ \A k \in S : k + 1 \in S
    BY <1>2 DEF S
  <1>4. S = Nat
    BY <1>1, <1>3, Induction
  <1> QED
    BY <1>4 DEF S

\* Up to one of the siblings the pass is that over the siblings to this one.
LEMMA PassPrefix ==
    ASSUME NEW ns, NEW ms, NEW name, NEW m \in Nat, NEW f, IsPass(f, ms, name, m),
           NEW n \in 0..m, \A k \in 1..n : ns[k] = ms[k]
    PROVE  IsPass([k \in 0..n |-> f[k]], ns, name, n)
  <1> DEFINE g == [k \in 0..n |-> f[k]]
  <1>1. ASSUME NEW k \in 0..n
        PROVE  g[k] = IF k = 0 THEN [current |-> name, i |-> 2]
                      ELSE IF ns[k] = g[k - 1].current
                           THEN [current |-> Suffixed(name, g[k - 1].i), i |-> g[k - 1].i + 1]
                           ELSE g[k - 1]
    <2>1. k \in 0..m /\ g[k] = f[k]
      OBVIOUS
    <2>2. CASE k = 0
      BY <2>1, <2>2 DEF IsPass
    <2>3. CASE k # 0
      <3>1. k - 1 \in 0..n /\ g[k - 1] = f[k - 1] /\ k \in 1..n
        BY <2>3
      <3>2. ns[k] = ms[k]
        BY <3>1
      <3> HIDE DEF g
      <3> QED
        BY <2>1, <2>3, <3>1, <3>2, ZenonT(40) DEF IsPass
    <2> QED
      BY <2>2, <2>3
  <1> HIDE DEF g
  <1>2. g = [k \in 0..n |-> g[k]]
    BY DEF g
  <1>3. IsPass(g, ns, name, n)
    BY <1>1, <1>2 DEF IsPass
  <1> QED
    BY <1>3 DEF g

\* A step of the pass.
LEMMA PassStep ==
    ASSUME NEW ns, NEW name, NEW m, NEW f, IsPass(f, ns, name, m), NEW k \in 0..m, k # 0
    PROVE  f[k] = IF ns[k] = f[k - 1].current
                  THEN [current |-> Suffixed(name, f[k - 1].i), i |-> f[k - 1].i + 1]
                  ELSE f[k - 1]
  <1>1. f[k] = IF k = 0 THEN [current |-> name, i |-> 2]
               ELSE IF ns[k] = f[k - 1].current
                    THEN [current |-> Suffixed(name, f[k - 1].i), i |-> f[k - 1].i + 1]
                    ELSE f[k - 1]
    BY Zenon DEF IsPass
  <1> QED
    BY <1>1, Zenon

\* There is one pass over the siblings.
LEMMA PassUnique ==
    ASSUME NEW ns, NEW name, NEW m \in Nat, NEW f, NEW g,
           IsPass(f, ns, name, m), IsPass(g, ns, name, m)
    PROVE  f[m] = g[m]
  <1> DEFINE S == {k \in Nat : k <= m => f[k] = g[k]}
  <1>1. 0 \in S
    BY DEF IsPass
  <1>2. ASSUME NEW k \in S
        PROVE  k + 1 \in S
    <2> SUFFICES ASSUME k + 1 <= m
                 PROVE  f[k + 1] = g[k + 1]
      OBVIOUS
    <2>1. PICK l \in 0..m : l = k + 1 /\ l # 0 /\ l - 1 = k /\ f[k] = g[k]
      OBVIOUS
    <2>2. f[l] = IF ns[l] = f[l - 1].current
                 THEN [current |-> Suffixed(name, f[l - 1].i), i |-> f[l - 1].i + 1]
                 ELSE f[l - 1]
      BY <2>1, PassStep, SMTT(30)
    <2>3. g[l] = IF ns[l] = g[l - 1].current
                 THEN [current |-> Suffixed(name, g[l - 1].i), i |-> g[l - 1].i + 1]
                 ELSE g[l - 1]
      BY <2>1, PassStep, SMTT(30)
    <2> QED
      BY <2>1, <2>2, <2>3, Zenon
  <1> HIDE DEF S
  <1>3. S \in SUBSET Nat /\ \A k \in S : k + 1 \in S
    BY <1>2 DEF S
  <1>4. S = Nat
    BY <1>1, <1>3, Induction
  <1>5. m \in S /\ m <= m
    BY <1>4
  <1> QED
    BY <1>5 DEF S

\* The numbers the pass tries only grow.
LEMMA PassGrows ==
    ASSUME NEW ns, NEW name \in Names, NEW m \in Nat, NEW f, IsPass(f, ns, name, m),
           NEW j \in 0..m
    PROVE  /\ f[j].i \in Nat /\ f[m].i \in Nat
           /\ f[j].i <= f[m].i
  <1>a. \A k \in 0..m : Tried(f, ns, name, k)
    BY PassStands
  <1>0. \A k \in 0..m : f[k].i \in Nat
    BY <1>a DEF Tried
  <1> DEFINE S == {d \in Nat : j + d <= m => f[j].i <= f[j + d].i}
  <1>1. 0 \in S
    <2>1. j + 0 = j /\ f[j].i \in Nat
      BY <1>0
    <2> QED
      BY <2>1
  <1>2. ASSUME NEW d \in S
        PROVE  d + 1 \in S
    <2> SUFFICES ASSUME j + (d + 1) <= m
                 PROVE  f[j].i <= f[j + (d + 1)].i
      OBVIOUS
    <2>1. PICK k \in Nat : k = j + d
      OBVIOUS
    <2>2. k + 1 \in 0..m /\ k \in 0..m /\ k + 1 # 0 /\ (k + 1) - 1 = k /\ k + 1 = j + (d + 1) /\ f[j].i <= f[k].i
      BY <2>1
    <2>3. f[k + 1] = IF ns[k + 1] = f[k].current
                     THEN [current |-> Suffixed(name, f[k].i), i |-> f[k].i + 1]
                     ELSE f[k]
      BY <2>2 DEF IsPass
    <2>4. PICK a, b, c \in Nat : a = f[j].i /\ b = f[k].i /\ c = f[k + 1].i
      BY <1>0, <2>2
    <2>5. c = b + 1 \/ c = b
      BY <2>3, <2>4
    <2> QED
      BY <2>2, <2>4, <2>5
  <1> HIDE DEF S
  <1>3. S \in SUBSET Nat /\ \A d \in S : d + 1 \in S
    BY <1>2 DEF S
  <1>4. S = Nat
    BY <1>1, <1>3, Induction
  <1>5. m - j \in S /\ j + (m - j) = m
    BY <1>4
  <1>6. f[j].i <= f[m].i
    BY <1>5 DEF S
  <1> QED
    BY <1>0, <1>6

\* The name came with a number that the pass over the siblings before it would
\* not have given.
Odd(ns, j) ==
    \E b \in Names, i \in Nat :
        /\ ns[j] = Suffixed(b, i)
        /\ \E f : IsPass(f, ns, b, j - 1) /\ f[j - 1].current # ns[j]

\* Two siblings have the same name only if the file numbers such names and the
\* first of them came with its number.
Apart(ns, n) ==
    \A j, k \in 1..n : (j < k /\ ns[j] = ns[k]) => (~Free(ns[j]) /\ Odd(ns, j))

LEMMA OddKept ==
    ASSUME NEW ns, NEW ms, NEW j \in Nat \ {0}, \A k \in 1..j : ns[k] = ms[k], Odd(ms, j)
    PROVE  Odd(ns, j)
  <1>1. PICK b \in Names, i \in Nat :
            /\ ms[j] = Suffixed(b, i)
            /\ \E f : IsPass(f, ms, b, j - 1) /\ f[j - 1].current # ms[j]
    BY DEF Odd
  <1>2. PICK f : IsPass(f, ms, b, j - 1) /\ f[j - 1].current # ms[j]
    BY <1>1
  <1>3. PICK n \in Nat : n = j - 1
    OBVIOUS
  <1>4. n \in 0..n /\ (\A k \in 1..n : ns[k] = ms[k]) /\ ns[j] = ms[j]
    BY <1>3
  <1>5. PICK g : g = [k \in 0..n |-> f[k]]
    OBVIOUS
  <1>6. IsPass(g, ns, b, n) /\ g[n] = f[n]
    BY <1>2, <1>3, <1>4, <1>5, PassPrefix
  <1> QED
    BY <1>1, <1>2, <1>3, <1>4, <1>6 DEF Odd

\* If a sibling has the name which the pass ends with, that one was passed
\* before the pass had come to its number.
LEMMA PassMissesOdd ==
    ASSUME NEW ns, NEW name \in Names, NEW m \in Nat, NEW f, IsPass(f, ns, name, m),
           NEW j \in 1..m, ns[j] = f[m].current
    PROVE  Odd(ns, j)
  <1>1. PICK n \in Nat : n = j - 1
    OBVIOUS
  <1>2. n \in 0..m /\ j \in 0..m /\ m \in 0..m /\ j # 0 /\ j = n + 1
    BY <1>1
  <1>a. Tried(f, ns, name, m) /\ Tried(f, ns, name, n)
    BY <1>2, PassStands
  <1>3. PICK c \in Nat \ {0} : f[m].current = Numbered(name, c) /\ f[m].i = c + 1
    BY <1>a DEF Tried
  <1>4. PICK d \in Nat \ {0} : f[n].current = Numbered(name, d) /\ f[n].i = d + 1
    BY <1>a DEF Tried
  <1>5. f[j] = IF ns[j] = f[n].current
               THEN [current |-> Suffixed(name, f[n].i), i |-> f[n].i + 1]
               ELSE f[n]
    BY <1>1, <1>2 DEF IsPass
  <1>6. f[n].current # ns[j]
    <2> SUFFICES ASSUME f[n].current = ns[j] PROVE FALSE
      OBVIOUS
    <2>1. c = d
      BY <1>3, <1>4, NumberedNames
    <2>a. f[j] = [current |-> Suffixed(name, f[n].i), i |-> f[n].i + 1]
      BY <1>5
    <2>2. f[j].i = (d + 1) + 1
      BY <1>4, <2>a
    <2>3. f[j].i <= f[m].i
      BY <1>2, PassGrows
    <2> QED
      BY <1>3, <2>1, <2>2, <2>3
  <1>7. c # 1
    <2> SUFFICES ASSUME c = 1 PROVE FALSE
      OBVIOUS
    <2>1. f[n].i <= f[m].i
      BY <1>2, PassGrows
    <2>2. d = 1
      BY <1>3, <1>4, <2>1
    <2> QED
      BY <1>3, <1>4, <1>6, <2>2
  <1>8. ns[j] = Suffixed(name, c)
    BY <1>3, <1>7 DEF Numbered
  <1>9. PICK g : g = [k \in 0..n |-> f[k]]
    OBVIOUS
  <1>10. IsPass(g, ns, name, n) /\ g[n] = f[n]
    BY <1>2, <1>9, PassPrefix
  <1> QED
    BY <1>1, <1>6, <1>8, <1>10 DEF Odd

\* The heap: its nodes have a name and a sequence of children.
Node == [name : Names, kids : Seq(Nat), value : Nat]
Heap == {h \in Seq(Node) : \A n \in DOMAIN h : Range(h[n].kids) \subseteq DOMAIN h}

Kids(h, n) == h[n].kids
NameIn(h, n) == h[n].name

\* The names of the children of a list.
KidNames(h, parent) == [k \in 1..Len(Kids(h, parent)) |-> NameIn(h, Kids(h, parent)[k])]
KidsHave(h, parent, name) == Has(KidNames(h, parent), Len(Kids(h, parent)), name)
KidsOrdered(h, parent) == Ordered(KidNames(h, parent), Len(Kids(h, parent)))
KidsApart(h, parent) == Apart(KidNames(h, parent), Len(Kids(h, parent)))

\* The children of a list have these names.
AreNamed(h, parent, ns, m) ==
    m = Len(h[parent].kids) /\ \A k \in 1..m : ns[k] = h[h[parent].kids[k]].name

\* The name a node is given is the one the pass ends with.
LEMMA AppendedByPass ==
    ASSUME NEW h, NEW parent, NEW name, NEW ns, NEW m \in Nat, AreNamed(h, parent, ns, m)
    PROVE  \E f : IsPass(f, ns, name, m) /\ AppendedName(h, parent, name) = f[m].current
  <1>1. \E f : IsPass(f, ns, name, m)
    BY PassExists
  <1>2. \A f : IsPass(f, ns, name, m) <=>
                 f = [k \in 0..Len(h[parent].kids) |->
                        IF k = 0 THEN [current |-> name, i |-> 2]
                        ELSE IF h[h[parent].kids[k]].name = f[k - 1].current
                             THEN [current |-> Suffixed(name, f[k - 1].i), i |-> f[k - 1].i + 1]
                             ELSE f[k - 1]]
    BY DEF IsPass, AreNamed
  <1> QED
    BY <1>1, <1>2 DEF AppendedName, AreNamed

\* The name a node is given: the first of the numbered ones that no sibling has,
\* or one that came with its number before its turn.
LEMMA AppendedNameIs ==
    ASSUME NEW h \in Heap, NEW parent \in DOMAIN h, NEW name \in Names
    PROVE  \E c \in Nat \ {0} :
               /\ AppendedName(h, parent, name) = Numbered(name, c)
               /\ \A d \in 1..(c - 1) : KidsHave(h, parent, Numbered(name, d))
               /\ (Free(name) /\ KidsOrdered(h, parent)) => ~KidsHave(h, parent, Numbered(name, c))
               /\ \A j \in 1..Len(Kids(h, parent)) :
                      KidNames(h, parent)[j] = Numbered(name, c) => Odd(KidNames(h, parent), j)
  <1> DEFINE ns == KidNames(h, parent)
             m  == Len(Kids(h, parent))
  <1>1. h[parent] \in Node
    BY DEF Heap
  <1>2. m \in Nat /\ m = Len(h[parent].kids)
    BY <1>1 DEF Node, Kids
  <1>3. \A k \in 1..m : ns[k] = h[h[parent].kids[k]].name
    BY DEF KidNames, Kids, NameIn
  <1> HIDE DEF ns, m
  <1>4. PICK f : IsPass(f, ns, name, m) /\ AppendedName(h, parent, name) = f[m].current
    <2>1. AreNamed(h, parent, ns, m)
      BY <1>2, <1>3 DEF AreNamed
    <2> QED
      BY <1>2, <2>1, AppendedByPass
  <1>5. m \in 0..m
    BY <1>2
  <1>6. Tried(f, ns, name, m)
    BY <1>2, <1>4, <1>5, PassStands
  <1>7. \A j \in 1..m : ns[j] = f[m].current => Odd(ns, j)
    BY <1>2, <1>4, PassMissesOdd
  <1>8. PICK c \in Nat \ {0} : f[m].current = Numbered(name, c) /\ Stands(ns, name, m, c)
    BY <1>6 DEF Tried
  <1>9. \A j \in 1..m : ns[j] = Numbered(name, c) => Odd(ns, j)
    BY <1>7, <1>8
  <1> QED
    BY <1>4, <1>8, <1>9 DEF Stands, KidsHave, KidsOrdered, ns, m

-------------------------------------------------------------------------------
(* What the operations do to the names and the children.                   *)

LEMMA HeapNodes ==
    ASSUME NEW h \in Heap, NEW n \in DOMAIN h
    PROVE  /\ NameIn(h, n) \in Names
           /\ Kids(h, n) \in Seq(Nat)
           /\ \A k \in DOMAIN Kids(h, n) : Kids(h, n)[k] \in DOMAIN h
  <1>1. h[n] \in Node /\ Range(h[n].kids) \subseteq DOMAIN h
    BY DEF Heap
  <1> QED
    BY <1>1 DEF Node, NameIn, Kids, Range

\* A heap is known by the names and the children of its nodes.
LEMMA HeapIs ==
    ASSUME NEW h \in Seq(Node),
           \A n \in DOMAIN h : \A k \in DOMAIN Kids(h, n) : Kids(h, n)[k] \in DOMAIN h
    PROVE  h \in Heap
  BY DEF Heap, Range, Kids

\* The heap r has a node more than h.
IsNew(h, r, name, new) ==
    /\ r \in Heap
    /\ Len(r) = new /\ new \notin DOMAIN h
    /\ DOMAIN r = DOMAIN h \cup {new}
    /\ Kids(r, new) = <<>> /\ NameIn(r, new) = name
    /\ \A n \in DOMAIN h : Kids(r, n) = Kids(h, n) /\ NameIn(r, n) = NameIn(h, n)

LEMMA NewNodeFacts ==
    ASSUME NEW h \in Heap, NEW name \in Names, NEW value \in Nat
    PROVE  IsNew(h, NewNode(h, name, value), name, Len(NewNode(h, name, value)))
  <1>0. PICK r : r = NewNode(h, name, value)
    OBVIOUS
  <1> DEFINE new == Len(h) + 1
  <1> DEFINE node == [name |-> name, kids |-> <<>>, value |-> value]
  <1>1. node \in Node /\ node.kids = <<>> /\ node.name = name
    BY DEF Node
  <1>2. h \in Seq(Node) /\ r = Append(h, node)
    BY <1>0 DEF Heap, NewNode
  <1> HIDE DEF node
  <1>3. /\ r \in Seq(Node)
        /\ Len(r) = new /\ new \in Nat /\ new \notin DOMAIN h
        /\ DOMAIN r = DOMAIN h \cup {new}
        /\ r[new] = node
        /\ \A n \in DOMAIN h : r[n] = h[n]
    BY <1>1, <1>2
  <1>4. /\ Kids(r, new) = <<>> /\ NameIn(r, new) = name
        /\ \A n \in DOMAIN h : Kids(r, n) = Kids(h, n) /\ NameIn(r, n) = NameIn(h, n)
    BY <1>1, <1>3 DEF Kids, NameIn
  <1>5. ASSUME NEW n \in DOMAIN r, NEW k \in DOMAIN Kids(r, n)
        PROVE  Kids(r, n)[k] \in DOMAIN r
    <2>1. CASE n \in DOMAIN h
      BY <1>3, <1>4, <1>5, <2>1, HeapNodes
    <2>2. CASE n = new
      BY <1>4, <1>5, <2>2
    <2> QED
      BY <1>3, <2>1, <2>2
  <1>6. r \in Heap
    BY <1>3, <1>5, HeapIs
  <1> QED
    BY <1>0, <1>3, <1>4, <1>6 DEF IsNew

\* The heap r has the node at the end of the list.
IsAppended(h, r, parent, node) ==
    /\ r \in Heap
    /\ Len(r) = Len(h) /\ DOMAIN r = DOMAIN h
    /\ Kids(r, parent) = Append(Kids(h, parent), node)
    /\ NameIn(r, node) = AppendedName(h, parent, NameIn(h, node))
    /\ \A n \in DOMAIN h \ {parent} : Kids(r, n) = Kids(h, n)
    /\ \A n \in DOMAIN h \ {node} : NameIn(r, n) = NameIn(h, n)

LEMMA AppendNodeFacts ==
    ASSUME NEW h \in Heap, NEW parent \in DOMAIN h, NEW node \in DOMAIN h, parent # node
    PROVE  IsAppended(h, AppendNode(h, parent, node), parent, node)
  <1>0. PICK r : r = AppendNode(h, parent, node)
    OBVIOUS
  <1> DEFINE name == AppendedName(h, parent, NameIn(h, node))
  <1>1. name \in Names
    <2>1. NameIn(h, node) \in Names
      BY HeapNodes
    <2>2. PICK c \in Nat \ {0} : name = Numbered(NameIn(h, node), c)
      BY <2>1, AppendedNameIs
    <2> QED
      BY <2>1, <2>2, NumberedNames
  <1>2. r = [h EXCEPT ![node].name = name, ![parent].kids = Append(@, node)]
    BY <1>0 DEF AppendNode, NameIn
  <1> HIDE DEF name
  <1>3. h \in Seq(Node) /\ h[node] \in Node /\ h[parent] \in Node /\ node \in Nat
    BY DEF Heap
  <1>4. PICK a : a = [h[node] EXCEPT !.name = name]
    OBVIOUS
  <1>5. PICK b : b = [h[parent] EXCEPT !.kids = Append(h[parent].kids, node)]
    OBVIOUS
  <1>a. a \in Node /\ a.name = name /\ a.kids = h[node].kids
    BY <1>1, <1>3, <1>4 DEF Node
  <1>b. b \in Node /\ b.name = h[parent].name /\ b.kids = Append(h[parent].kids, node)
    <2>1. PICK t \in Seq(Nat) : t = h[parent].kids
      BY <1>3 DEF Node
    <2>a. Append(t, node) \in Seq(Nat)
      BY <1>3
    <2>2. PICK s \in Seq(Nat) : s = Append(h[parent].kids, node)
      BY <2>1, <2>a
    <2>3. b = [h[parent] EXCEPT !.kids = s]
      BY <1>5, <2>2
    <2> QED
      BY <1>3, <2>2, <2>3 DEF Node
  <1>c. r = [n \in DOMAIN h |-> IF n = parent THEN b ELSE IF n = node THEN a ELSE h[n]]
    BY <1>2, <1>4, <1>5
  <1>6. /\ r \in Seq(Node) /\ Len(r) = Len(h) /\ DOMAIN r = DOMAIN h
        /\ r[node] = a /\ r[parent] = b
        /\ \A n \in DOMAIN h \ {parent, node} : r[n] = h[n]
    BY <1>3, <1>a, <1>b, <1>c
  <1>7. /\ Kids(r, parent) = Append(Kids(h, parent), node)
        /\ NameIn(r, node) = name
        /\ \A n \in DOMAIN h \ {parent} : Kids(r, n) = Kids(h, n)
        /\ \A n \in DOMAIN h \ {node} : NameIn(r, n) = NameIn(h, n)
    BY <1>a, <1>b, <1>6 DEF Kids, NameIn
  <1>8. ASSUME NEW n \in DOMAIN r, NEW k \in DOMAIN Kids(r, n)
        PROVE  Kids(r, n)[k] \in DOMAIN r
    <2>1. CASE n = parent
      <3>1. Kids(h, parent) \in Seq(Nat) /\ \A j \in DOMAIN Kids(h, parent) : Kids(h, parent)[j] \in DOMAIN h
        BY HeapNodes
      <3>2. Append(Kids(h, parent), node)[k] \in DOMAIN h
        BY <1>3, <1>7, <1>8, <2>1, <3>1
      <3> QED
        BY <1>6, <1>7, <2>1, <3>2
    <2>2. CASE n \in DOMAIN h \ {parent}
      BY <1>6, <1>7, <1>8, <2>2, HeapNodes
    <2> QED
      BY <1>6, <2>1, <2>2
  <1>9. r \in Heap
    BY <1>6, <1>8, HeapIs
  <1> QED
    BY <1>0, <1>6, <1>7, <1>9 DEF name, IsAppended

\* The heap r has other values: they are no part of the tree.
IsSame(h, r) ==
    /\ r \in Heap
    /\ Len(r) = Len(h) /\ DOMAIN r = DOMAIN h
    /\ \A m \in DOMAIN h : Kids(r, m) = Kids(h, m) /\ NameIn(r, m) = NameIn(h, m)

LEMMA StoreFacts ==
    ASSUME NEW h \in Heap, NEW n \in DOMAIN h, NEW value \in Nat
    PROVE  IsSame(h, [h EXCEPT ![n].value = value])
  <1>0. PICK r : r = [h EXCEPT ![n].value = value]
    OBVIOUS
  <1>1. h \in Seq(Node) /\ h[n] \in Node
    BY DEF Heap
  <1>2. /\ [h[n] EXCEPT !.value = value] \in Node
        /\ [h[n] EXCEPT !.value = value].name = h[n].name
        /\ [h[n] EXCEPT !.value = value].kids = h[n].kids
    BY <1>1 DEF Node
  <1>3. /\ r \in Seq(Node) /\ Len(r) = Len(h) /\ DOMAIN r = DOMAIN h
        /\ r[n] = [h[n] EXCEPT !.value = value]
        /\ \A m \in DOMAIN h \ {n} : r[m] = h[m]
    BY <1>0, <1>1, <1>2
  <1>4. \A m \in DOMAIN h : Kids(r, m) = Kids(h, m) /\ NameIn(r, m) = NameIn(h, m)
    BY <1>2, <1>3 DEF Kids, NameIn
  <1>5. \A m \in DOMAIN r : \A k \in DOMAIN Kids(r, m) : Kids(r, m)[k] \in DOMAIN r
    BY <1>3, <1>4, HeapNodes
  <1>6. r \in Heap
    BY <1>3, <1>5, HeapIs
  <1> QED
    BY <1>0, <1>3, <1>4, <1>6 DEF IsSame

\* find_node finds the first child of the name, if there is one.
LEMMA FindNodeFacts ==
    ASSUME NEW h \in Heap, NEW parent \in DOMAIN h, NEW name,
           NEW f, f = FindNode(h, parent, name)
    PROVE  /\ f = 0 <=> ~KidsHave(h, parent, name)
           /\ f # 0 => \E k \in DOMAIN Kids(h, parent) :
                           /\ f = Kids(h, parent)[k] /\ f \in DOMAIN h /\ NameIn(h, f) = name
                           /\ \A j \in DOMAIN Kids(h, parent) :
                                  NameIn(h, Kids(h, parent)[j]) = name => k <= j
  <1> DEFINE at == Matches(h, parent, name)
  <1>1. /\ Kids(h, parent) \in Seq(Nat)
        /\ \A k \in DOMAIN Kids(h, parent) : Kids(h, parent)[k] \in DOMAIN h
    BY HeapNodes
  <1>2. at = {k \in DOMAIN Kids(h, parent) : NameIn(h, Kids(h, parent)[k]) = name}
    BY DEF Matches, Kids, NameIn
  <1>3. h \in Seq(Node) /\ DOMAIN Kids(h, parent) = 1..Len(Kids(h, parent))
    BY <1>1 DEF Heap
  <1>4. at \in SUBSET Nat /\ (at = {} <=> ~KidsHave(h, parent, name))
    BY <1>1, <1>2, <1>3, SMTT(30) DEF KidsHave, Has, KidNames
  <1>5. f = IF at = {} THEN 0 ELSE Kids(h, parent)[CHOOSE k \in at : \A j \in at : k <= j]
    BY DEF FindNode, Kids
  <1> HIDE DEF at
  <1>6. CASE at = {}
    BY <1>4, <1>5, <1>6
  <1>7. CASE at # {}
    <2>1. \E k \in at : \A j \in at : k <= j
      BY <1>4, <1>7, LeastNatural
    <2>2. PICK k : /\ k = CHOOSE c \in at : \A j \in at : c <= j
                   /\ k \in at /\ \A j \in at : k <= j
      BY <2>1
    <2>3. k \in DOMAIN Kids(h, parent) /\ f = Kids(h, parent)[k] /\ NameIn(h, f) = name
      BY <1>2, <1>5, <1>7, <2>2
    <2>4. f \in DOMAIN h
      BY <1>1, <2>3
    <2>5. f # 0
      BY <1>3, <2>4
    <2>6. \A j \in DOMAIN Kids(h, parent) : NameIn(h, Kids(h, parent)[j]) = name => k <= j
      BY <1>2, <2>2
    <2> QED
      BY <1>4, <1>7, <2>3, <2>4, <2>5, <2>6
  <1> QED
    BY <1>6, <1>7

-------------------------------------------------------------------------------
(* Trees in a heap: the nodes A, all whose children are among them, have    *)
(* one place at most each in the lists of A; those of T have none.          *)

Closed(h, A) == \A p \in A : \A k \in DOMAIN Kids(h, p) : Kids(h, p)[k] \in A

OnePlace(h, A) ==
    \A p, q \in A : \A j \in DOMAIN Kids(h, p), k \in DOMAIN Kids(h, q) :
        Kids(h, p)[j] = Kids(h, q)[k] => p = q /\ j = k

NoPlace(h, A, T) == \A p \in A : \A k \in DOMAIN Kids(h, p) : Kids(h, p)[k] \notin T

Tree(h, A, T) ==
    /\ h \in Heap
    /\ A \subseteq DOMAIN h /\ T \subseteq A
    /\ Closed(h, A) /\ OnePlace(h, A) /\ NoPlace(h, A, T)

\* No two names are the same in the lists of A, nor will be, but for those the
\* file numbers.
Distinct(h, A) == \A p \in A : KidsApart(h, p) /\ KidsOrdered(h, p)

\* Two heaps that agree on A are the same to it.
LEMMA TreeAgrees ==
    ASSUME NEW h, NEW r \in Heap, NEW A, NEW T, Tree(h, A, T), DOMAIN h \subseteq DOMAIN r,
           \A n \in A : Kids(r, n) = Kids(h, n)
    PROVE  Tree(r, A, T)
  <1>1. h \in Heap /\ A \subseteq DOMAIN r /\ T \subseteq A
    BY DEF Tree
  <1>2. Closed(r, A)
    BY DEF Tree, Closed
  <1>3. OnePlace(r, A)
    BY DEF Tree, OnePlace
  <1>4. NoPlace(r, A, T)
    BY DEF Tree, NoPlace
  <1> QED
    BY <1>1, <1>2, <1>3, <1>4 DEF Tree

LEMMA TreeFewer ==
    ASSUME NEW h, NEW A, NEW T, NEW U, Tree(h, A, T), U \subseteq T
    PROVE  Tree(h, A, U)
  BY DEF Tree, NoPlace

\* A new node has no place yet.
LEMMA TreeNew ==
    ASSUME NEW h, NEW A, NEW T, Tree(h, A, T), NEW r, NEW name, NEW new, IsNew(h, r, name, new)
    PROVE  Tree(r, A \cup {new}, T \cup {new}) /\ new \notin A
  <1>1. h \in Heap /\ A \subseteq DOMAIN h /\ T \subseteq A
    BY DEF Tree
  <1>2. /\ r \in Heap
        /\ new \notin DOMAIN h
        /\ DOMAIN r = DOMAIN h \cup {new}
        /\ Kids(r, new) = <<>>
        /\ \A n \in DOMAIN h : Kids(r, n) = Kids(h, n) /\ NameIn(r, n) = NameIn(h, n)
    BY DEF IsNew
  <1>3. Tree(r, A, T)
    BY <1>1, <1>2, TreeAgrees
  <1>4. DOMAIN Kids(r, new) = {}
    BY <1>2
  <1>5. Closed(r, A \cup {new})
    BY <1>3, <1>4 DEF Tree, Closed
  <1>6. OnePlace(r, A \cup {new})
    <2> SUFFICES ASSUME NEW p \in A \cup {new}, NEW q \in A \cup {new},
                        NEW j \in DOMAIN Kids(r, p), NEW k \in DOMAIN Kids(r, q),
                        Kids(r, p)[j] = Kids(r, q)[k]
                 PROVE  p = q /\ j = k
      BY Zenon DEF OnePlace
    <2>1. p \in A /\ q \in A
      BY <1>4
    <2>2. OnePlace(r, A)
      BY <1>3 DEF Tree
    <2> QED
      BY <2>1, <2>2 DEF OnePlace
  <1>7. NoPlace(r, A \cup {new}, T \cup {new})
    <2>1. \A p \in A : \A k \in DOMAIN Kids(r, p) : Kids(r, p)[k] \in A
      BY <1>3 DEF Tree, Closed
    <2> QED
      BY <1>1, <1>2, <1>3, <1>4, <2>1 DEF Tree, NoPlace
  <1> QED
    BY <1>1, <1>2, <1>5, <1>6, <1>7 DEF Tree

\* A list is the same in two heaps that agree on its children and their names.
Agrees(h, r, p) ==
    /\ Kids(r, p) = Kids(h, p)
    /\ \A k \in DOMAIN Kids(h, p) : NameIn(r, Kids(h, p)[k]) = NameIn(h, Kids(h, p)[k])

LEMMA NamesAgree ==
    ASSUME NEW h \in Heap, NEW p \in DOMAIN h, NEW r, Agrees(h, r, p)
    PROVE  /\ KidNames(r, p) = KidNames(h, p)
           /\ KidsApart(r, p) <=> KidsApart(h, p)
           /\ KidsOrdered(r, p) <=> KidsOrdered(h, p)
           /\ \A name : KidsHave(r, p, name) <=> KidsHave(h, p, name)
  <1>1. DOMAIN Kids(h, p) = 1..Len(Kids(h, p))
    BY HeapNodes
  <1>2. KidNames(r, p) = KidNames(h, p)
    BY <1>1 DEF KidNames, Agrees
  <1> QED
    BY <1>2 DEF KidsApart, KidsOrdered, KidsHave, Agrees

LEMMA DistinctNew ==
    ASSUME NEW h, NEW A, NEW T, Tree(h, A, T), Distinct(h, A),
           NEW r, NEW name, NEW new, IsNew(h, r, name, new)
    PROVE  Distinct(r, A \cup {new})
  <1>0. /\ Kids(r, new) = <<>> /\ h \in Heap /\ A \subseteq DOMAIN h
        /\ \A n \in A : Kids(r, n) = Kids(h, n) /\ NameIn(r, n) = NameIn(h, n)
    BY DEF IsNew, Tree
  <1>1. ASSUME NEW p \in A PROVE KidsApart(r, p) /\ KidsOrdered(r, p)
    <2>1. Agrees(h, r, p)
      BY <1>0 DEF Tree, Closed, Agrees
    <2>2. KidsApart(h, p) /\ KidsOrdered(h, p)
      BY DEF Distinct
    <2> QED
      BY <1>0, <2>1, <2>2, NamesAgree
  <1>2. KidsApart(r, new)
    BY <1>0 DEF KidsApart, Apart
  <1>3. KidsOrdered(r, new)
    BY <1>0 DEF KidsOrdered, Ordered
  <1> QED
    BY <1>1, <1>2, <1>3 DEF Distinct

\* Other values.
LEMMA TreeSame ==
    ASSUME NEW h, NEW A, NEW T, Tree(h, A, T), NEW r, IsSame(h, r)
    PROVE  Tree(r, A, T) /\ (Distinct(h, A) => Distinct(r, A))
  <1>1. h \in Heap /\ r \in Heap /\ A \subseteq DOMAIN h /\ DOMAIN h \subseteq DOMAIN r
    BY DEF Tree, IsSame
  <1>2. \A n \in A : Kids(r, n) = Kids(h, n) /\ NameIn(r, n) = NameIn(h, n)
    BY <1>1 DEF IsSame
  <1>3. Tree(r, A, T)
    BY <1>1, <1>2, TreeAgrees
  <1>4. ASSUME Distinct(h, A), NEW p \in A PROVE KidsApart(r, p) /\ KidsOrdered(r, p)
    <2>1. Agrees(h, r, p)
      BY <1>2 DEF Tree, Closed, Agrees
    <2>2. KidsApart(h, p) /\ KidsOrdered(h, p)
      BY <1>4 DEF Distinct
    <2> QED
      BY <1>1, <2>1, <2>2, NamesAgree
  <1> QED
    BY <1>3, <1>4 DEF Distinct

\* A node without a place gets one.
LEMMA TreeAppend ==
    ASSUME NEW h, NEW A, NEW T, Tree(h, A, T), NEW parent \in A, NEW node \in T, parent # node,
           NEW r, IsAppended(h, r, parent, node)
    PROVE  Tree(r, A, T \ {node})
  <1>1. /\ h \in Heap /\ r \in Heap /\ A \subseteq DOMAIN r /\ T \ {node} \subseteq A
        /\ A \subseteq DOMAIN h /\ node \in A
    BY DEF Tree, IsAppended
  <1>2. PICK m \in Nat : m = Len(Kids(h, parent))
    BY <1>1, HeapNodes
  <1>3. /\ DOMAIN Kids(h, parent) = 1..m
        /\ DOMAIN Kids(r, parent) = 1..(m + 1)
        /\ Kids(r, parent)[m + 1] = node
        /\ \A k \in 1..m : Kids(r, parent)[k] = Kids(h, parent)[k]
    <2>1. Kids(h, parent) \in Seq(Nat) /\ node \in Nat
      BY <1>1, HeapNodes DEF Heap
    <2> QED
      BY <1>2, <2>1 DEF IsAppended
  <1>4. \A n \in A \ {parent} : Kids(r, n) = Kids(h, n)
    BY <1>1 DEF IsAppended
  <1>5. ASSUME NEW p \in A, NEW k \in DOMAIN Kids(r, p)
        PROVE  \/ k \in DOMAIN Kids(h, p) /\ Kids(r, p)[k] = Kids(h, p)[k]
               \/ p = parent /\ k = m + 1 /\ Kids(r, p)[k] = node
    BY <1>3, <1>4, <1>5
  <1>6. ASSUME NEW p \in A, NEW k \in DOMAIN Kids(h, p)
        PROVE  Kids(h, p)[k] # node /\ Kids(h, p)[k] \in A /\ Kids(h, p)[k] \notin T
    BY <1>6 DEF Tree, NoPlace, Closed
  <1>7. Closed(r, A)
    BY <1>1, <1>5, <1>6 DEF Closed
  <1>8. OnePlace(r, A)
    <2> SUFFICES ASSUME NEW p \in A, NEW q \in A,
                        NEW j \in DOMAIN Kids(r, p), NEW k \in DOMAIN Kids(r, q),
                        Kids(r, p)[j] = Kids(r, q)[k]
                 PROVE  p = q /\ j = k
      BY Zenon DEF OnePlace
    <2>1. OnePlace(h, A)
      BY DEF Tree
    <2>2. CASE j \in DOMAIN Kids(h, p) /\ Kids(r, p)[j] = Kids(h, p)[j]
      <3>1. Kids(h, p)[j] # node
        BY <1>6, <2>2
      <3>2. k \in DOMAIN Kids(h, q) /\ Kids(r, q)[k] = Kids(h, q)[k]
        BY <1>5, <2>2, <3>1
      <3>3. Kids(h, p)[j] = Kids(h, q)[k]
        BY <2>2, <3>2
      <3> QED
        BY <2>1, <2>2, <3>2, <3>3, SMT DEF OnePlace
    <2>3. CASE p = parent /\ j = m + 1 /\ Kids(r, p)[j] = node
      <3>1. ~(k \in DOMAIN Kids(h, q) /\ Kids(r, q)[k] = Kids(h, q)[k])
        BY <1>6, <2>3
      <3>2. q = parent /\ k = m + 1
        BY <1>5, <3>1
      <3> QED
        BY <2>3, <3>2
    <2> QED
      BY <1>5, <2>2, <2>3
  <1>9. NoPlace(r, A, T \ {node})
    BY <1>5, <1>6 DEF NoPlace
  <1> QED
    BY <1>1, <1>7, <1>8, <1>9 DEF Tree

\* A name that may be the next of a list: the one it follows is there.
Preceded(h, parent, name) ==
    \A b \in Names, i \in Nat \ {0} :
        (Free(b) /\ name = Numbered(b, i + 1)) => KidsHave(h, parent, Numbered(b, i))

\* The names of a list a node was appended to.
LEMMA AppendedNames ==
    ASSUME NEW h, NEW A, NEW T, Tree(h, A, T), NEW parent \in A, NEW node \in T, parent # node,
           NEW r, IsAppended(h, r, parent, node), NEW m, m = Len(Kids(h, parent))
    PROVE  /\ m \in Nat /\ Len(Kids(r, parent)) = m + 1
           /\ KidNames(r, parent)[m + 1] = NameIn(r, node)
           /\ \A k \in 1..m : KidNames(r, parent)[k] = KidNames(h, parent)[k]
           /\ \A p \in A \ {parent} : Agrees(h, r, p)
  <1>1. h \in Heap /\ A \subseteq DOMAIN h /\ node \in A /\ NoPlace(h, A, {node}) /\ Closed(h, A)
    BY DEF Tree, NoPlace
  <1>2. /\ Kids(h, parent) \in Seq(Nat) /\ node \in Nat
        /\ \A k \in DOMAIN Kids(h, parent) : Kids(h, parent)[k] \in A \ {node}
    BY <1>1, HeapNodes DEF NoPlace, Closed, Heap
  <1>3. PICK s \in Seq(Nat) : s = Kids(h, parent)
    BY <1>2
  <1>4. Kids(r, parent) = Append(s, node)
    BY <1>3 DEF IsAppended
  <1>5. /\ m \in Nat /\ m = Len(s) /\ DOMAIN s = 1..m /\ Len(Append(s, node)) = m + 1
        /\ Append(s, node)[m + 1] = node
        /\ \A k \in 1..m : Append(s, node)[k] = s[k]
    BY <1>2, <1>3
  <1>6. \A n \in A \ {node} : NameIn(r, n) = NameIn(h, n)
    BY <1>1 DEF IsAppended
  <1>7. KidNames(r, parent) = [k \in 1..(m + 1) |-> NameIn(r, Append(s, node)[k])]
    BY <1>4, <1>5 DEF KidNames
  <1>8. KidNames(h, parent) = [k \in 1..m |-> NameIn(h, s[k])]
    BY <1>3, <1>5 DEF KidNames
  <1>9. ASSUME NEW k \in 1..m PROVE KidNames(r, parent)[k] = KidNames(h, parent)[k]
    <2>1. s[k] \in A \ {node} /\ Append(s, node)[k] = s[k] /\ k \in 1..(m + 1)
      BY <1>2, <1>3, <1>5
    <2>2. KidNames(r, parent)[k] = NameIn(r, s[k])
      BY <1>7, <2>1
    <2>3. KidNames(h, parent)[k] = NameIn(h, s[k])
      BY <1>8
    <2> QED
      BY <1>6, <2>1, <2>2, <2>3
  <1>10. ASSUME NEW p \in A \ {parent} PROVE Agrees(h, r, p)
    <2>1. Kids(r, p) = Kids(h, p)
      BY <1>1 DEF IsAppended
    <2> QED
      BY <1>1, <1>6, <2>1 DEF Agrees, NoPlace, Closed
  <1>11. KidNames(r, parent)[m + 1] = NameIn(r, node)
    BY <1>5, <1>7
  <1>12. m \in Nat /\ Len(Kids(r, parent)) = m + 1
    BY <1>4, <1>5
  <1> QED
    BY <1>9, <1>10, <1>11, <1>12, Zenon

\* The other lists are the same.
LEMMA OthersAgree ==
    ASSUME NEW h, NEW A, NEW T, Tree(h, A, T), NEW parent \in A, NEW node \in T, parent # node,
           NEW r, IsAppended(h, r, parent, node), NEW p \in A, p # parent
    PROVE  Agrees(h, r, p)
  <1>1. PICK m : m = Len(Kids(h, parent))
    OBVIOUS
  <1> QED
    BY <1>1, AppendedNames

\* What was among the names is there still, and so is the name the node came with.
LEMMA AppendedHave ==
    ASSUME NEW h, NEW A, NEW T, Tree(h, A, T), NEW parent \in A, NEW node \in T, parent # node,
           NEW r, IsAppended(h, r, parent, node)
    PROVE  /\ \A name : KidsHave(h, parent, name) => KidsHave(r, parent, name)
           /\ KidsHave(r, parent, NameIn(h, node))
  <1>1. PICK m : m = Len(Kids(h, parent))
    OBVIOUS
  <1>2. /\ m \in Nat /\ Len(Kids(r, parent)) = m + 1
        /\ KidNames(r, parent)[m + 1] = NameIn(r, node)
        /\ \A k \in 1..m : KidNames(r, parent)[k] = KidNames(h, parent)[k]
    BY <1>1, AppendedNames
  <1>3. \A name : KidsHave(h, parent, name) => KidsHave(r, parent, name)
    BY <1>1, <1>2 DEF KidsHave, Has
  <1>4. KidsHave(r, parent, NameIn(r, node))
    BY <1>2 DEF KidsHave, Has
  <1>5. h \in Heap /\ parent \in DOMAIN h /\ NameIn(h, node) \in Names
    BY HeapNodes DEF Tree
  <1>6. PICK c \in Nat \ {0} :
            /\ AppendedName(h, parent, NameIn(h, node)) = Numbered(NameIn(h, node), c)
            /\ \A d \in 1..(c - 1) : KidsHave(h, parent, Numbered(NameIn(h, node), d))
    BY <1>5, AppendedNameIs
  <1>7. NameIn(r, node) = Numbered(NameIn(h, node), c)
    BY <1>6 DEF IsAppended
  <1>8. Numbered(NameIn(h, node), 1) = NameIn(h, node)
    BY DEF Numbered
  <1>9. c = 1 => KidsHave(r, parent, NameIn(h, node))
    BY <1>4, <1>7, <1>8
  <1>10. c # 1 => KidsHave(r, parent, NameIn(h, node))
    BY <1>3, <1>6, <1>8
  <1> QED
    BY <1>3, <1>9, <1>10

\* The names of the list stay different, and their numbers in order.
LEMMA DistinctAppend ==
    ASSUME NEW h, NEW A, NEW T, Tree(h, A, T), Distinct(h, A),
           NEW parent \in A, NEW node \in T, parent # node,
           NEW r, IsAppended(h, r, parent, node), Preceded(h, parent, NameIn(h, node))
    PROVE  Distinct(r, A)
  <1> DEFINE name == NameIn(h, node)
             ms   == KidNames(h, parent)
             ns   == KidNames(r, parent)
  <1>1. PICK m : m = Len(Kids(h, parent))
    OBVIOUS
  <1>2. /\ m \in Nat /\ Len(Kids(r, parent)) = m + 1
        /\ ns[m + 1] = NameIn(r, node)
        /\ \A k \in 1..m : ns[k] = ms[k]
        /\ \A p \in A \ {parent} : Agrees(h, r, p)
    BY <1>1, AppendedNames
  <1>3. h \in Heap /\ r \in Heap /\ A \subseteq DOMAIN h /\ DOMAIN r = DOMAIN h /\ name \in Names
    BY HeapNodes DEF Tree, IsAppended
  <1>4. Apart(ms, m) /\ Ordered(ms, m)
    BY <1>1 DEF Distinct, KidsApart, KidsOrdered
  <1>5. PICK c \in Nat \ {0} :
            /\ NameIn(r, node) = Numbered(name, c)
            /\ \A d \in 1..(c - 1) : Has(ms, m, Numbered(name, d))
            /\ Free(name) => ~Has(ms, m, Numbered(name, c))
            /\ \A j \in 1..m : ms[j] = Numbered(name, c) => Odd(ms, j)
    <2>1. parent \in DOMAIN h /\ KidsOrdered(h, parent)
      BY <1>1, <1>3, <1>4 DEF KidsOrdered
    <2>2. PICK c \in Nat \ {0} :
              /\ AppendedName(h, parent, name) = Numbered(name, c)
              /\ \A d \in 1..(c - 1) : KidsHave(h, parent, Numbered(name, d))
              /\ (Free(name) /\ KidsOrdered(h, parent)) => ~KidsHave(h, parent, Numbered(name, c))
              /\ \A j \in 1..Len(Kids(h, parent)) :
                     KidNames(h, parent)[j] = Numbered(name, c) => Odd(KidNames(h, parent), j)
      BY <1>3, <2>1, AppendedNameIs, Zenon
    <2>3. \A x : KidsHave(h, parent, x) <=> Has(ms, m, x)
      BY <1>1 DEF KidsHave
    <2>4. NameIn(r, node) = Numbered(name, c)
      BY <2>2 DEF IsAppended
    <2>5. \A j \in 1..m : ms[j] = Numbered(name, c) => Odd(ms, j)
      BY <1>1, <2>2
    <2> HIDE DEF ms, name
    <2>6. \A d \in 1..(c - 1) : Has(ms, m, Numbered(name, d))
      BY <2>2, <2>3
    <2> QED
      BY <2>1, <2>2, <2>3, <2>4, <2>5, <2>6
  <1> HIDE DEF ms, ns, name
  <1>6. \A n \in Nat : \A x : n <= m /\ Has(ms, n, x) => Has(ns, n, x)
    BY <1>2 DEF Has
  <1>7. Ordered(ns, m + 1)
    <2> SUFFICES ASSUME NEW k \in 1..(m + 1), NEW b \in Names, NEW i \in Nat \ {0},
                        Free(b), ns[k] = Numbered(b, i + 1)
                 PROVE  Has(ns, k - 1, Numbered(b, i))
      BY Zenon DEF Ordered
    <2>1. CASE k \in 1..m
      <3>1. Has(ms, k - 1, Numbered(b, i))
        BY <1>2, <1>4, <2>1 DEF Ordered
      <3>2. k - 1 \in Nat /\ k - 1 <= m
        BY <1>2, <2>1
      <3> QED
        BY <1>6, <3>1, <3>2
    <2>2. CASE k = m + 1
      <3>1. Numbered(name, c) = Numbered(b, i + 1)
        BY <1>2, <1>5, <2>2
      <3>2. Has(ms, m, Numbered(b, i))
        <4>1. CASE c = 1
          <5>1. name = Numbered(b, i + 1)
            BY <3>1, <4>1 DEF Numbered
          <5> QED
            BY <1>1, <5>1 DEF Preceded, KidsHave, name, ms
        <4>2. CASE c # 1
          <5>1. c > 1 /\ i + 1 > 1 /\ i + 1 \in Nat \ {0}
            BY <4>2
          <5>2. name = b /\ c = i + 1
            BY <1>3, <3>1, <5>1, NumberedNames
          <5>3. i \in 1..(c - 1)
            BY <5>2
          <5> QED
            BY <1>5, <5>2, <5>3
        <4> QED
          BY <4>1, <4>2
      <3>3. m \in Nat /\ m <= m /\ k - 1 = m
        BY <1>2, <2>2
      <3> QED
        BY <1>6, <3>2, <3>3
    <2> QED
      BY <1>2, <2>1, <2>2
  <1>8. Apart(ns, m + 1)
    <2> SUFFICES ASSUME NEW j \in 1..(m + 1), NEW k \in 1..(m + 1), j < k, ns[j] = ns[k]
                 PROVE  ~Free(ns[j]) /\ Odd(ns, j)
      BY Zenon DEF Apart
    <2>1. j \in 1..m /\ j \in Nat \ {0} /\ ns[j] = ms[j] /\ \A l \in 1..j : ns[l] = ms[l]
      BY <1>2
    <2>2. ~Free(ms[j]) /\ Odd(ms, j)
      <3>1. CASE k \in 1..m
        BY <1>2, <1>4, <2>1, <3>1 DEF Apart
      <3>2. CASE k = m + 1
        <4>1. ms[j] = Numbered(name, c)
          BY <1>2, <1>5, <2>1, <3>2
        <4>2. ~Free(name)
          BY <1>5, <2>1, <4>1 DEF Has
        <4> QED
          BY <1>3, <1>5, <2>1, <4>1, <4>2, FreeFamily
      <3> QED
        BY <1>2, <3>1, <3>2
    <2> QED
      BY <2>1, <2>2, OddKept
  <1>9. KidsOrdered(r, parent)
    BY <1>2, <1>7 DEF KidsOrdered, ns
  <1>10. ASSUME NEW p \in A \ {parent} PROVE KidsApart(r, p) /\ KidsOrdered(r, p)
    <2>1. Agrees(h, r, p) /\ KidsApart(h, p) /\ KidsOrdered(h, p)
      BY <1>2 DEF Distinct
    <2> QED
      BY <1>3, <2>1, NamesAgree
  <1>11. KidsApart(r, parent)
    BY <1>2, <1>8 DEF KidsApart, ns
  <1> QED
    BY <1>9, <1>10, <1>11 DEF Distinct

\* Nodes that are in no other list can be left out.
LEMMA TreeWithout ==
    ASSUME NEW h, NEW A, NEW T, Tree(h, A, T), NEW D, NEW U, U \subseteq A \ D,
           \A p \in A \ D : \A k \in DOMAIN Kids(h, p) :
               Kids(h, p)[k] \notin D /\ Kids(h, p)[k] \notin U
    PROVE  /\ Tree(h, A \ D, U)
           /\ Distinct(h, A) => Distinct(h, A \ D)
  <1>1. Closed(h, A \ D) /\ NoPlace(h, A \ D, U)
    BY DEF Tree, Closed, NoPlace
  <1>2. OnePlace(h, A \ D)
    <2>1. OnePlace(h, A)
      BY DEF Tree
    <2> QED
      BY <2>1, Zenon DEF OnePlace
  <1>3. Distinct(h, A) => Distinct(h, A \ D)
    BY DEF Distinct
  <1> QED
    BY <1>1, <1>2, <1>3 DEF Tree

-------------------------------------------------------------------------------
(* The tree of a report.  The nodes that are not in a list yet have no      *)
(* number, but for those the file numbers.                                  *)

Unnumbered(name) == Free(name) => name.dup = <<>>

Good(h, A, T) ==
    /\ Tree(h, A, T) /\ Distinct(h, A)
    /\ \A t \in T : Unnumbered(NameIn(h, t))

\* A name without numbers follows no other.
LEMMA PlainIsPreceded ==
    ASSUME NEW h, NEW parent, NEW name \in Names, Unnumbered(name)
    PROVE  Preceded(h, parent, name)
  <1> SUFFICES ASSUME NEW b \in Names, NEW i \in Nat \ {0}, Free(b), name = Numbered(b, i + 1)
               PROVE  FALSE
    BY DEF Preceded
  <1>1. i + 1 \in Nat \ {0} /\ i + 1 # 1
    OBVIOUS
  <1>a. name.dup = <<>>
    BY <1>1, FreeFamily DEF Unnumbered
  <1>2. name.dup = Append(b.dup, i + 1)
    BY <1>1, SuffixedFields DEF Numbered
  <1>3. PICK s \in Seq(Nat) : s = b.dup
    BY DEF Names
  <1>4. Len(Append(s, i + 1)) = Len(s) + 1 /\ Len(s) \in Nat
    BY <1>1
  <1>5. Append(s, i + 1) # <<>>
    BY <1>4
  <1> QED
    BY <1>a, <1>2, <1>3, <1>5

LEMMA GoodNew ==
    ASSUME NEW h, NEW A, NEW T, Good(h, A, T), NEW r, NEW name, NEW new, IsNew(h, r, name, new),
           Unnumbered(name)
    PROVE  Good(r, A \cup {new}, T \cup {new}) /\ new \notin A
  <1>1. Tree(h, A, T) /\ Tree(r, A \cup {new}, T \cup {new}) /\ new \notin A
    BY TreeNew DEF Good
  <1>2. Distinct(r, A \cup {new})
    BY <1>1, DistinctNew DEF Good
  <1>3. /\ NameIn(r, new) = name
        /\ \A t \in T : NameIn(r, t) = NameIn(h, t)
    BY <1>1 DEF Tree, IsNew
  <1> QED
    BY <1>1, <1>2, <1>3 DEF Good

LEMMA GoodAppend ==
    ASSUME NEW h, NEW A, NEW T, Good(h, A, T), NEW parent \in A, NEW node \in T, parent # node
    PROVE  /\ Good(AppendNode(h, parent, node), A, T \ {node})
           /\ IsAppended(h, AppendNode(h, parent, node), parent, node)
  <1>1. Tree(h, A, T) /\ h \in Heap /\ A \subseteq DOMAIN h /\ T \subseteq A
    BY DEF Good, Tree
  <1>2. PICK r : r = AppendNode(h, parent, node)
    OBVIOUS
  <1>3. IsAppended(h, r, parent, node)
    BY <1>1, <1>2, AppendNodeFacts
  <1>4. Tree(r, A, T \ {node})
    BY <1>1, <1>3, TreeAppend
  <1>5. Distinct(r, A)
    <2>1. Distinct(h, A) /\ Unnumbered(NameIn(h, node)) /\ NameIn(h, node) \in Names
      BY <1>1, HeapNodes DEF Good
    <2>2. Preceded(h, parent, NameIn(h, node))
      BY <2>1, PlainIsPreceded
    <2> QED
      BY <1>1, <1>3, <2>1, <2>2, DistinctAppend
  <1>6. \A t \in T \ {node} : NameIn(r, t) = NameIn(h, t)
    BY <1>1, <1>3 DEF IsAppended
  <1> QED
    BY <1>2, <1>3, <1>4, <1>5, <1>6 DEF Good

LEMMA GoodSame ==
    ASSUME NEW h, NEW A, NEW T, Good(h, A, T), NEW r, IsSame(h, r)
    PROVE  Good(r, A, T)
  <1>1. Tree(h, A, T) /\ Tree(r, A, T) /\ (Distinct(h, A) => Distinct(r, A))
    BY TreeSame DEF Good
  <1>2. \A t \in T : NameIn(r, t) = NameIn(h, t)
    BY <1>1 DEF IsSame, Tree
  <1> QED
    BY <1>1, <1>2 DEF Good

LEMMA GoodFewer ==
    ASSUME NEW h, NEW A, NEW T, Good(h, A, T), NEW U, U \subseteq T
    PROVE  Good(h, A, U)
  BY TreeFewer DEF Good

\* The heap r has a new node at the end of a list.
IsAppendedNew(h, r, parent, name, new) ==
    /\ r \in Heap
    /\ Len(r) = new /\ new \notin DOMAIN h
    /\ DOMAIN r = DOMAIN h \cup {new}
    /\ Kids(r, parent) = Append(Kids(h, parent), new)
    /\ Kids(r, new) = <<>>
    /\ ~KidsHave(h, parent, name) => NameIn(r, new) = name
    /\ \A n \in DOMAIN h \ {parent} : Kids(r, n) = Kids(h, n)
    /\ \A n \in DOMAIN h : NameIn(r, n) = NameIn(h, n)

LEMMA AppendNewFacts ==
    ASSUME NEW h \in Heap, NEW parent \in DOMAIN h, NEW name \in Names, NEW value \in Nat
    PROVE  IsAppendedNew(h, AppendNew(h, parent, name, value), parent, name,
                         Len(AppendNew(h, parent, name, value)))
  <1>1. PICK g : g = NewNode(h, name, value)
    OBVIOUS
  <1>2. PICK new : new = Len(g)
    OBVIOUS
  <1>3. IsNew(h, g, name, new)
    BY <1>1, <1>2, NewNodeFacts
  <1>4. /\ g \in Heap /\ parent \in DOMAIN g /\ new \in DOMAIN g /\ parent # new
        /\ new \notin DOMAIN h /\ DOMAIN g = DOMAIN h \cup {new}
        /\ Kids(g, new) = <<>> /\ NameIn(g, new) = name
        /\ \A n \in DOMAIN h : Kids(g, n) = Kids(h, n) /\ NameIn(g, n) = NameIn(h, n)
    BY <1>3 DEF IsNew
  <1>5. PICK r : r = AppendNode(g, parent, new)
    OBVIOUS
  <1>6. r = AppendNew(h, parent, name, value)
    BY <1>1, <1>2, <1>5 DEF AppendNew
  <1>7. IsAppended(g, r, parent, new)
    BY <1>4, <1>5, AppendNodeFacts
  <1>8. /\ r \in Heap /\ Len(r) = new /\ DOMAIN r = DOMAIN h \cup {new}
        /\ Kids(r, parent) = Append(Kids(h, parent), new)
        /\ Kids(r, new) = <<>>
        /\ \A n \in DOMAIN h \ {parent} : Kids(r, n) = Kids(h, n)
        /\ \A n \in DOMAIN h : NameIn(r, n) = NameIn(h, n)
    BY <1>2, <1>4, <1>7 DEF IsAppended
  <1>9. ASSUME ~KidsHave(h, parent, name)
        PROVE  NameIn(r, new) = name
    <2>1. Agrees(h, g, parent)
      BY <1>4, HeapNodes DEF Agrees
    <2>2. ~KidsHave(g, parent, name)
      BY <1>9, <2>1, NamesAgree
    <2>3. PICK c \in Nat \ {0} :
              /\ AppendedName(g, parent, name) = Numbered(name, c)
              /\ \A d \in 1..(c - 1) : KidsHave(g, parent, Numbered(name, d))
      BY <1>4, AppendedNameIs
    <2>4. Numbered(name, 1) = name
      BY DEF Numbered
    <2>5. c = 1
      BY <2>2, <2>3, <2>4
    <2> QED
      BY <1>4, <1>7, <2>3, <2>4, <2>5 DEF IsAppended
  <1> QED
    BY <1>4, <1>6, <1>8, <1>9 DEF IsAppendedNew

LEMMA GoodAppendNew ==
    ASSUME NEW h, NEW A, NEW T, Good(h, A, T), NEW parent \in A, NEW name \in Names,
           Unnumbered(name), NEW value \in Nat, NEW r, r = AppendNew(h, parent, name, value)
    PROVE  /\ Good(r, A \cup {Len(r)}, T)
           /\ IsAppendedNew(h, r, parent, name, Len(r))
  <1>1. h \in Heap /\ parent \in DOMAIN h /\ A \subseteq DOMAIN h /\ T \subseteq A
    BY DEF Good, Tree
  <1>2. PICK new : new = Len(r)
    OBVIOUS
  <1>3. IsAppendedNew(h, r, parent, name, new)
    BY <1>1, <1>2, AppendNewFacts
  <1>4. PICK g : g = NewNode(h, name, value)
    OBVIOUS
  <1>5. IsNew(h, g, name, Len(g))
    BY <1>1, <1>4, NewNodeFacts
  <1>6. r = AppendNode(g, parent, Len(g))
    BY <1>4 DEF AppendNew
  <1>7. PICK m : m = Len(g)
    OBVIOUS
  <1>8. Good(g, A \cup {m}, T \cup {m}) /\ m \notin A
    BY <1>5, <1>7, GoodNew
  <1>a. PICK B, U : B = A \cup {m} /\ U = T \cup {m}
    OBVIOUS
  <1>b. Good(g, B, U) /\ parent \in B /\ m \in U /\ parent # m
    BY <1>8, <1>a
  <1>9. /\ Good(r, A \cup {m}, (T \cup {m}) \ {m})
        /\ IsAppended(g, r, parent, m)
    BY <1>6, <1>7, <1>a, <1>b, GoodAppend, SMTT(30)
  <1>10. m = new
    BY <1>2, <1>7, <1>9 DEF IsAppended
  <1>11. (T \cup {m}) \ {m} = T
    BY <1>1, <1>8
  <1> QED
    BY <1>2, <1>3, <1>9, <1>10, <1>11

-------------------------------------------------------------------------------
(* add_data.                                                               *)

LEMMA PlainNames ==
    ASSUME NEW base \in Bases
    PROVE  /\ Plain(base) \in Names /\ Plain(base).dup = <<>> /\ Plain(base).base = base
           /\ Unnumbered(Plain(base))
  <1>1. <<>> \in Seq(Nat)
    BY EmptySeq
  <1> QED
    BY <1>1 DEF Plain, Names, Unnumbered

\* The names of the program.
LEMMA KnownBases ==
    /\ VersionInfo \in Bases /\ LangID \in Bases
    /\ "root" \in Bases /\ "path" \in Bases /\ "Language" \in Bases
    /\ "Plugins" \in Bases /\ "plugin" \in Bases /\ "level" \in Bases
    /\ "plugin_output" \in Bases /\ "summary" \in Bases /\ "info_" \in Bases
  BY DEF Bases

LEMMA PathName == Path \in Names /\ Unnumbered(Path)
  BY KnownBases, PlainNames DEF Path, Unnumbered

\* The names of the file.
LEMMA EntryNames == EntryName \subseteq Names /\ \A name \in EntryName : Unnumbered(name)
  <1> SUFFICES ASSUME NEW name \in EntryName PROVE name \in Names /\ Unnumbered(name)
    OBVIOUS
  <1>a. Unnumbered(name)
    BY Zenon DEF Unnumbered, Free, NumberedByFile
  <1>1. name.base \in Bases
    BY DEF Bases
  <1>2. name \in [base : STRING, index : Nat, dup : Seq(Nat)]
    BY ReportAssumption
  <1> QED
    BY <1>a, <1>1, <1>2 DEF Names

\* Every list of h is still there in r, with nothing taken out of it.
Longer(h, r) ==
    \A n \in DOMAIN h : \A k \in DOMAIN Kids(h, n) :
        k \in DOMAIN Kids(r, n) /\ Kids(r, n)[k] = Kids(h, n)[k]

\* The heap r is one that h has become.
Grew(h, r) == r \in Heap /\ DOMAIN h \subseteq DOMAIN r /\ Longer(h, r)

LEMMA AppendLonger ==
    ASSUME NEW h \in Heap, NEW parent \in DOMAIN h, NEW node \in Nat, NEW r,
           Kids(r, parent) = Append(Kids(h, parent), node),
           \A n \in DOMAIN h \ {parent} : Kids(r, n) = Kids(h, n)
    PROVE  Longer(h, r) /\ node \in Range(Kids(r, parent))
  <1>1. PICK s \in Seq(Nat) : s = Kids(h, parent)
    BY HeapNodes
  <1>2. PICK t : t = Append(s, node)
    OBVIOUS
  <1>3. /\ Len(t) = Len(s) + 1 /\ t[Len(s) + 1] = node /\ DOMAIN t = 1..(Len(s) + 1)
        /\ \A k \in 1..Len(s) : t[k] = s[k]
    BY <1>2
  <1>4. \A k \in DOMAIN s : k \in DOMAIN t /\ t[k] = s[k]
    BY <1>3, SMTT(30)
  <1>5. Len(s) + 1 \in DOMAIN t
    BY <1>3
  <1>6. node \in Range(t)
    BY <1>3, <1>5 DEF Range
  <1>7. Kids(r, parent) = t
    BY <1>1, <1>2
  <1> QED
    BY <1>1, <1>4, <1>6, <1>7 DEF Longer

LEMMA AppendNodeGrows ==
    ASSUME NEW h \in Heap, NEW parent \in DOMAIN h, NEW node \in DOMAIN h
    PROVE  /\ Grew(h, AppendNode(h, parent, node))
           /\ node \in Range(Kids(AppendNode(h, parent, node), parent))
  <1>1. CASE parent # node
    <2>1. IsAppended(h, AppendNode(h, parent, node), parent, node)
      BY <1>1, AppendNodeFacts
    <2>2. node \in Nat
      BY DEF Heap
    <2>3. /\ Longer(h, AppendNode(h, parent, node))
          /\ node \in Range(Kids(AppendNode(h, parent, node), parent))
      BY <2>1, <2>2, AppendLonger DEF IsAppended
    <2> QED
      BY <2>1, <2>3 DEF IsAppended, Grew
  <1>2. CASE parent = node
    <2>1. PICK name : name = AppendedName(h, node, NameIn(h, node))
      OBVIOUS
    <2>2. name \in Names
      <3>1. NameIn(h, node) \in Names
        BY HeapNodes
      <3>2. PICK c \in Nat \ {0} : name = Numbered(NameIn(h, node), c)
        BY <2>1, <3>1, AppendedNameIs
      <3> QED
        BY <3>1, <3>2, NumberedNames
    <2>3. h \in Seq(Node) /\ h[node] \in Node /\ node \in Nat
      BY DEF Heap
    <2>4. PICK s \in Seq(Nat) : s = Kids(h, node)
      BY HeapNodes
    <2>a. Append(s, node) \in Seq(Nat)
      BY <2>3
    <2>5. PICK t \in Seq(Nat) : t = Append(s, node)
      BY <2>a
    <2>6. PICK x : x = [h[node] EXCEPT !.name = name, !.kids = t]
      OBVIOUS
    <2>7. x \in Node /\ x.kids = t
      BY <2>2, <2>3, <2>6 DEF Node
    <2>8. PICK r : r = AppendNode(h, parent, node)
      OBVIOUS
    <2>9. r = [h EXCEPT ![node] = x]
      BY <1>2, <2>1, <2>3, <2>4, <2>5, <2>6, <2>8 DEF AppendNode, NameIn, Kids, Node
    <2>10. /\ r \in Seq(Node) /\ DOMAIN r = DOMAIN h /\ Kids(r, node) = t
           /\ \A n \in DOMAIN h \ {node} : Kids(r, n) = Kids(h, n)
      BY <2>3, <2>7, <2>9 DEF Kids
    <2>11. \A k \in DOMAIN s : s[k] \in DOMAIN h
      BY <2>4, HeapNodes
    <2>12. \A k \in DOMAIN t : t[k] \in DOMAIN h
      BY <2>3, <2>5, <2>11
    <2>13. \A n \in DOMAIN r : \A k \in DOMAIN Kids(r, n) : Kids(r, n)[k] \in DOMAIN r
      BY <2>10, <2>12, HeapNodes
    <2>14. Longer(h, r) /\ node \in Range(Kids(r, node))
      BY <2>3, <2>4, <2>5, <2>10, AppendLonger
    <2> QED
      BY <1>2, <2>8, <2>10, <2>13, <2>14, HeapIs DEF Grew
  <1> QED
    BY <1>1, <1>2

LEMMA GrewTransitive ==
    ASSUME NEW g, NEW h, NEW r, Grew(g, h), Grew(h, r)
    PROVE  Grew(g, r)
  BY DEF Grew, Longer

LEMMA GrewItself ==
    ASSUME NEW h \in Heap
    PROVE  Grew(h, h)
  BY DEF Grew, Longer

LEMMA NewNodeGrows ==
    ASSUME NEW h \in Heap, NEW name \in Names, NEW value \in Nat,
           NEW r, r = NewNode(h, name, value)
    PROVE  Grew(h, r) /\ Len(r) \in DOMAIN r
  <1>1. PICK new : new = Len(r)
    OBVIOUS
  <1>2. IsNew(h, r, name, new)
    BY <1>1, NewNodeFacts
  <1>3. Longer(h, r)
    BY <1>2 DEF IsNew, Longer
  <1>4. r \in Heap /\ DOMAIN r = DOMAIN h \cup {new}
    BY <1>2 DEF IsNew
  <1> QED
    BY <1>1, <1>3, <1>4 DEF Grew

LEMMA AppendNewGrows ==
    ASSUME NEW h \in Heap, NEW parent \in DOMAIN h, NEW name \in Names, NEW value \in Nat
    PROVE  Grew(h, AppendNew(h, parent, name, value))
  <1>1. PICK r : r = AppendNew(h, parent, name, value)
    OBVIOUS
  <1>2. IsAppendedNew(h, r, parent, name, Len(r))
    BY <1>1, AppendNewFacts
  <1>3. Len(r) \in Nat
    <2>1. r \in Heap
      BY <1>2 DEF IsAppendedNew
    <2>2. r \in Seq(Node)
      BY <2>1 DEF Heap
    <2> QED
      BY <2>2
  <1>4. Longer(h, r)
    BY <1>2, <1>3, AppendLonger DEF IsAppendedNew
  <1> QED
    BY <1>1, <1>2, <1>4 DEF IsAppendedNew, Grew

\* add_data puts the node into the list of the file, and that into the report.
Delivered(r, node) ==
    \E file \in Range(Kids(r, Root)) : file \in DOMAIN r /\ node \in Range(Kids(r, file))

LEMMA AddDataGrows ==
    ASSUME NEW h \in Heap, Root \in DOMAIN h, NEW node \in DOMAIN h
    PROVE  Grew(h, AddData(h, node)) /\ Delivered(AddData(h, node), node)
  <1>1. PICK file : file = FindNode(h, Root, Path)
    OBVIOUS
  <1>2. PICK r : r = AddData(h, node)
    OBVIOUS
  <1>3. CASE file # 0
    <2>1. file \in DOMAIN h /\ \E k \in DOMAIN Kids(h, Root) : file = Kids(h, Root)[k]
      BY <1>1, <1>3, FindNodeFacts
    <2>2. r = AppendNode(h, file, node)
      BY <1>1, <1>2, <1>3 DEF AddData
    <2>3. Grew(h, r) /\ node \in Range(Kids(r, file))
      BY <2>1, <2>2, AppendNodeGrows
    <2>4. file \in Range(Kids(r, Root)) /\ file \in DOMAIN r
      BY <2>1, <2>3 DEF Grew, Longer, Range
    <2> QED
      BY <1>2, <2>3, <2>4 DEF Delivered
  <1>4. CASE file = 0
    <2>1. PICK new : new = NewNode(h, Path, 0)
      OBVIOUS
    <2>2. Grew(h, new) /\ Len(new) \in DOMAIN new
      BY <2>1, PathName, NewNodeGrows
    <2>3. PICK full : full = AppendNode(new, Len(new), node)
      OBVIOUS
    <2>4. Grew(new, full) /\ node \in Range(Kids(full, Len(new)))
      BY <2>2, <2>3, AppendNodeGrows DEF Grew
    <2>5. r = AppendNode(full, Root, Len(new))
      BY <1>1, <1>2, <1>4, <2>1, <2>3 DEF AddData
    <2>6. Grew(full, r) /\ Len(new) \in Range(Kids(r, Root))
      BY <2>2, <2>4, <2>5, AppendNodeGrows DEF Grew
    <2>7. Len(new) \in DOMAIN full /\ Len(new) \in DOMAIN r
      BY <2>2, <2>4, <2>6 DEF Grew
    <2>8. node \in Range(Kids(r, Len(new)))
      BY <2>4, <2>6, <2>7 DEF Grew, Longer, Range
    <2>9. Grew(h, r)
      BY <2>2, <2>4, <2>6, GrewTransitive
    <2> QED
      BY <1>2, <2>6, <2>7, <2>8, <2>9 DEF Delivered
  <1> QED
    BY <1>3, <1>4

\* What find_node finds in a tree is in it, and has a place.
LEMMA FoundInTree ==
    ASSUME NEW h, NEW A, NEW T, Good(h, A, T), NEW parent \in A, NEW name,
           NEW f, f = FindNode(h, parent, name), f # 0
    PROVE  f \in A \ T /\ NameIn(h, f) = name
  <1>1. h \in Heap /\ parent \in DOMAIN h
    BY DEF Good, Tree
  <1>2. PICK k \in DOMAIN Kids(h, parent) : f = Kids(h, parent)[k] /\ NameIn(h, f) = name
    BY <1>1, FindNodeFacts
  <1> QED
    BY <1>2 DEF Good, Tree, Closed, NoPlace

\* The report has no list of that name yet.
Fresh(h, name) ==
    LET file == FindNode(h, Root, Path) IN file # 0 => ~KidsHave(h, file, name)

\* Where two heaps agree, they find the same.
LEMMA FindAgrees ==
    ASSUME NEW h \in Heap, NEW parent \in DOMAIN h, NEW r, Agrees(h, r, parent), NEW name
    PROVE  FindNode(r, parent, name) = FindNode(h, parent, name)
  <1>1. Kids(r, parent) = Kids(h, parent)
    BY DEF Agrees
  <1>2. Matches(r, parent, name) = Matches(h, parent, name)
    BY DEF Agrees, Matches, Kids, NameIn
  <1> QED
    BY <1>1, <1>2 DEF FindNode, Kids

LEMMA FreshAgrees ==
    ASSUME NEW h \in Heap, Root \in DOMAIN h, NEW r, NEW name, Fresh(h, name),
           Agrees(h, r, Root),
           NEW file, file = FindNode(h, Root, Path), file # 0 => Agrees(h, r, file)
    PROVE  Fresh(r, name)
  <1>1. FindNode(r, Root, Path) = file
    BY FindAgrees
  <1>2. CASE file = 0
    BY <1>1, <1>2 DEF Fresh
  <1>3. CASE file # 0
    <2>1. file \in DOMAIN h
      BY <1>3, FindNodeFacts
    <2>2. ~KidsHave(h, file, name)
      BY <1>3 DEF Fresh
    <2>3. ~KidsHave(r, file, name)
      BY <1>3, <2>1, <2>2, NamesAgree
    <2> QED
      BY <1>1, <2>3 DEF Fresh
  <1> QED
    BY <1>2, <1>3

\* The name a node gets has the same base.
LEMMA AppendedBase ==
    ASSUME NEW h \in Heap, NEW parent \in DOMAIN h, NEW name \in Names
    PROVE  AppendedName(h, parent, name).base = name.base
  <1>1. PICK c \in Nat \ {0} : AppendedName(h, parent, name) = Numbered(name, c)
    BY AppendedNameIs
  <1> QED
    BY <1>1, SuffixedFields DEF Numbered

\* The names of a list a node was appended to, by their bases.
LEMMA StillWithout ==
    ASSUME NEW h, NEW A, NEW T, Good(h, A, T), NEW parent \in A, NEW node \in T, parent # node,
           NEW r, IsAppended(h, r, parent, node), NEW name,
           NameIn(h, node).base # name.base, ~KidsHave(h, parent, name)
    PROVE  ~KidsHave(r, parent, name)
  <1>1. Tree(h, A, T) /\ h \in Heap /\ parent \in DOMAIN h /\ NameIn(h, node) \in Names
    BY HeapNodes DEF Good, Tree
  <1>2. PICK m : m = Len(Kids(h, parent))
    OBVIOUS
  <1>3. /\ m \in Nat /\ Len(Kids(r, parent)) = m + 1
        /\ KidNames(r, parent)[m + 1] = NameIn(r, node)
        /\ \A k \in 1..m : KidNames(r, parent)[k] = KidNames(h, parent)[k]
    BY <1>1, <1>2, AppendedNames, SMTT(30)
  <1>4. NameIn(r, node) # name
    <2>1. NameIn(r, node) = AppendedName(h, parent, NameIn(h, node))
      BY DEF IsAppended
    <2>2. NameIn(r, node).base = NameIn(h, node).base
      BY <1>1, <2>1, AppendedBase
    <2> QED
      BY <2>2
  <1> QED
    BY <1>2, <1>3, <1>4 DEF KidsHave, Has

\* add_data gives the node its place in the tree.
LEMMA GoodAddData ==
    ASSUME NEW h, NEW A, NEW T, Good(h, A, T), Root \in T, NEW node \in T, node # Root
    PROVE  /\ \E B : A \subseteq B /\ Good(AddData(h, node), B, T \ {node})
           /\ \A name : NameIn(h, node).base # name.base /\ Fresh(h, name)
                            => Fresh(AddData(h, node), name)
  <1> DEFINE r == AddData(h, node)
  <1>1. h \in Heap /\ A \subseteq DOMAIN h /\ T \subseteq A /\ Root \in A
    BY DEF Good, Tree
  <1>2. PICK file : file = FindNode(h, Root, Path)
    OBVIOUS
  <1>3. CASE file # 0
    <2>1. file \in A \ T
      BY <1>1, <1>2, <1>3, FoundInTree
    <2>2. r = AppendNode(h, file, node)
      BY <1>2, <1>3 DEF AddData
    <2>3. Good(r, A, T \ {node}) /\ IsAppended(h, r, file, node)
      BY <2>1, <2>2, GoodAppend
    <2> HIDE DEF r
    <2>4. ASSUME NEW name, NameIn(h, node).base # name.base, Fresh(h, name)
          PROVE  Fresh(r, name)
      <3>1. ~KidsHave(h, file, name)
        BY <1>2, <1>3, <2>4 DEF Fresh
      <3>2. ~KidsHave(r, file, name)
        BY <2>1, <2>3, <2>4, <3>1, StillWithout
      <3>3. Agrees(h, r, Root)
        BY <1>1, <2>1, <2>3, OthersAgree DEF Good
      <3>4. FindNode(r, Root, Path) = file
        BY <1>1, <1>2, <3>3, FindAgrees
      <3> QED
        BY <3>2, <3>4 DEF Fresh
    <2> QED
      BY <2>3, <2>4 DEF r
  <1>4. CASE file = 0
    <2>1. PICK g : g = NewNode(h, Path, 0)
      OBVIOUS
    <2>2. PICK new : new = Len(g)
      OBVIOUS
    <2>3. IsNew(h, g, Path, new)
      BY <1>1, <2>1, <2>2, PathName, NewNodeFacts
    <2>4. PICK B, U : B = A \cup {new} /\ U = T \cup {new}
      OBVIOUS
    <2>5. Good(g, B, U) /\ new \notin A
      BY <2>3, <2>4, PathName, GoodNew
    <2>6. PICK full : full = AppendNode(g, new, node)
      OBVIOUS
    <2>7. new \in B /\ node \in U /\ new # node /\ Root \in B /\ new \in U /\ Root # new
      BY <1>1, <2>4, <2>5
    <2>8. Good(full, B, U \ {node}) /\ IsAppended(g, full, new, node)
      BY <2>5, <2>6, <2>7, GoodAppend
    <2>9. PICK V : V = U \ {node}
      OBVIOUS
    <2>10. r = AppendNode(full, Root, new)
      BY <1>2, <1>4, <2>1, <2>2, <2>6 DEF AddData
    <2>11. Good(full, B, V) /\ new \in V
      BY <2>7, <2>8, <2>9
    <2>12. Good(r, B, V \ {new}) /\ IsAppended(full, r, Root, new)
      BY <2>7, <2>10, <2>11, GoodAppend
    <2>13. V \ {new} = T \ {node} /\ A \subseteq B
      BY <1>1, <2>4, <2>5, <2>9
    <2> HIDE DEF r
    <2>14. ASSUME NEW name, NameIn(h, node).base # name.base
           PROVE  Fresh(r, name)
      <3>1. Tree(g, B, U) /\ Tree(full, B, V) /\ g \in Heap /\ full \in Heap /\ B \subseteq DOMAIN g
            /\ B \subseteq DOMAIN full /\ V \subseteq B /\ r \in Heap /\ B \subseteq DOMAIN r
        BY <2>5, <2>11, <2>12 DEF Good, Tree
      <3>2. ~KidsHave(h, Root, Path)
        BY <1>1, <1>2, <1>4, FindNodeFacts
      <3>3. Agrees(h, g, Root)
        BY <1>1, <2>3, HeapNodes DEF Agrees, IsNew
      <3>4. Agrees(g, full, Root)
        BY <2>7, <2>8, <3>1, OthersAgree
      <3>5. ~KidsHave(full, Root, Path)
        BY <1>1, <2>7, <3>1, <3>2, <3>3, <3>4, NamesAgree
      <3>6. NameIn(g, node) = NameIn(h, node) /\ Kids(g, new) = <<>>
        BY <1>1, <2>3 DEF IsNew
      <3>7. ~KidsHave(g, new, name)
        BY <3>6 DEF KidsHave, Has
      <3>8. ~KidsHave(full, new, name)
        BY <2>5, <2>7, <2>8, <2>14, <3>6, <3>7, StillWithout
      <3>9. Agrees(full, r, new)
        BY <2>7, <2>11, <2>12, <3>1, OthersAgree
      <3>10. ~KidsHave(r, new, name)
        BY <2>7, <3>1, <3>8, <3>9, NamesAgree
      <3>11. ASSUME NEW f, f = FindNode(r, Root, Path), f # 0 PROVE f = new
        <4>1. PICK k \in DOMAIN Kids(r, Root) :
                  f = Kids(r, Root)[k] /\ NameIn(r, f) = Path
          BY <2>7, <3>1, <3>11, FindNodeFacts
        <4>2. PICK s \in Seq(Nat) : s = Kids(full, Root)
          BY <2>7, <3>1, HeapNodes
        <4>3. new \in Nat /\ Kids(r, Root) = Append(s, new)
          BY <2>7, <2>12, <3>1, <4>2 DEF IsAppended, Heap
        <4>4. CASE k \in DOMAIN s
          <5>1. s[k] = f
            BY <4>1, <4>3, <4>4
          <5>2. s[k] \in B /\ s[k] # new
            BY <2>7, <2>11, <4>2, <4>4 DEF Good, Tree, Closed, NoPlace
          <5>3. NameIn(r, s[k]) = NameIn(full, s[k])
            BY <2>12, <3>1, <5>2 DEF IsAppended
          <5>4. KidNames(full, Root)[k] = Path /\ k \in 1..Len(Kids(full, Root))
            BY <4>1, <4>2, <4>4, <5>1, <5>3 DEF KidNames
          <5> QED
            BY <3>5, <5>4 DEF KidsHave, Has
        <4>5. CASE k \notin DOMAIN s
          BY <4>1, <4>3, <4>5
        <4> QED
          BY <4>4, <4>5
      <3> QED
        BY <3>10, <3>11 DEF Fresh
    <2> QED
      BY <2>12, <2>13, <2>14 DEF r
  <1> QED
    BY <1>3, <1>4

-------------------------------------------------------------------------------
(* Result::merge: the children of one list are appended to another.        *)

IsMerge(f, h, to, kids, n) ==
    f = [k \in 0..n |-> IF k = 0 THEN h ELSE AppendNode(f[k - 1], to, kids[k])]

LEMMA MergeExists ==
    ASSUME NEW h, NEW to, NEW kids, NEW m \in Nat
    PROVE  \E f : IsMerge(f, h, to, kids, m)
  <1> DEFINE S == {n \in Nat : \E f : IsMerge(f, h, to, kids, n)}
  <1>1. 0 \in S
    <2>1. IsMerge([k \in 0..0 |-> h], h, to, kids, 0)
      BY DEF IsMerge
    <2> QED
      BY <2>1
  <1>2. ASSUME NEW n \in S
        PROVE  n + 1 \in S
    <2>1. n \in Nat
      OBVIOUS
    <2>2. PICK f : IsMerge(f, h, to, kids, n)
      OBVIOUS
    <2> DEFINE g == [k \in 0..(n + 1) |->
                        IF k = n + 1 THEN AppendNode(f[n], to, kids[n + 1]) ELSE f[k]]
    <2>3. ASSUME NEW k \in 0..(n + 1)
          PROVE  g[k] = IF k = 0 THEN h ELSE AppendNode(g[k - 1], to, kids[k])
      <3>1. CASE k = n + 1
        <4>1. k - 1 \in 0..n /\ k - 1 = n /\ k # 0 /\ g[k - 1] = f[n]
          BY <2>1, <3>1
        <4> QED
          BY <2>1, <3>1, <4>1
      <3>2. CASE k \in 0..n /\ k # 0
        <4>1. k - 1 \in 0..n /\ g[k - 1] = f[k - 1] /\ g[k] = f[k]
          BY <2>1, <3>2
        <4> QED
          BY <2>2, <3>2, <4>1 DEF IsMerge
      <3>3. CASE k = 0
        BY <2>1, <2>2, <3>3 DEF IsMerge
      <3> QED
        BY <2>1, <3>1, <3>2, <3>3
    <2>4. IsMerge(g, h, to, kids, n + 1)
      BY <2>3 DEF IsMerge
    <2> QED
      BY <2>1, <2>4
  <1> HIDE DEF S
  <1>3. S \in SUBSET Nat /\ \A n \in S : n + 1 \in S
    BY <1>2 DEF S
  <1>4. S = Nat
    BY <1>1, <1>3, Induction
  <1> QED
    BY <1>4 DEF S

\* The lists of two results, and what is moved from the one to the other.
Lists(h, A, T, d1, d2, to, from, K) ==
    /\ Tree(h, A, T) /\ d1 \in T /\ d2 \in T /\ d1 # d2
    /\ \E a \in DOMAIN Kids(h, d1) : to = Kids(h, d1)[a]
    /\ \E b \in DOMAIN Kids(h, d2) : from = Kids(h, d2)[b]
    /\ K = Kids(h, from)

Moved(K, k) == {K[j] : j \in 1..k}

\* Without the second result and its list, the nodes to move have no place.
Freed(h, A, T, d1, d2, to, from, K) ==
    /\ Tree(h, A \ {d2, from}, (T \ {d2}) \cup Range(K))
    /\ Distinct(h, A) => Distinct(h, A \ {d2, from})
    /\ to \in A \ {d2, from} /\ to \notin T \cup Range(K) /\ from \in A \ T
    /\ K \in Seq(Nat) /\ \A i, j \in DOMAIN K : K[i] = K[j] => i = j
    /\ \A k \in DOMAIN Kids(h, d1) : Kids(h, d1)[k] \notin Range(K)
    /\ Range(K) \cap T = {}

LEMMA MergeStarts ==
    ASSUME NEW h, NEW A, NEW T, NEW d1, NEW d2, NEW to, NEW from, NEW K,
           Lists(h, A, T, d1, d2, to, from, K)
    PROVE  Freed(h, A, T, d1, d2, to, from, K)
  <1>1. /\ Tree(h, A, T) /\ h \in Heap /\ A \subseteq DOMAIN h /\ T \subseteq A
        /\ d1 \in A /\ d2 \in A /\ K = Kids(h, from)
        /\ Closed(h, A) /\ OnePlace(h, A) /\ NoPlace(h, A, T)
        /\ d1 \in T /\ d2 \in T /\ d1 # d2
    BY DEF Lists, Tree
  <1>2. PICK a \in DOMAIN Kids(h, d1) : to = Kids(h, d1)[a]
    BY DEF Lists
  <1>3. PICK b \in DOMAIN Kids(h, d2) : from = Kids(h, d2)[b]
    BY DEF Lists
  <1>4. from \in A \ T /\ to \in A \ T
    BY <1>1, <1>2, <1>3 DEF Closed, NoPlace
  <1>5. K \in Seq(Nat) /\ \A j \in DOMAIN K : K[j] \in A \ T
    BY <1>1, <1>4, HeapNodes DEF Closed, NoPlace
  <1>6. ASSUME NEW p \in A, NEW k \in DOMAIN Kids(h, p), NEW j \in DOMAIN K, Kids(h, p)[k] = K[j]
        PROVE  p = from /\ k = j
    BY <1>1, <1>4, <1>6 DEF OnePlace
  <1>7. ASSUME NEW p \in A, NEW k \in DOMAIN Kids(h, p), Kids(h, p)[k] = from
        PROVE  p = d2
    BY <1>1, <1>3, <1>7 DEF OnePlace
  <1>8. \A j \in DOMAIN K : K[j] # from
    BY <1>1, <1>4, <1>7
  <1>9. to # from
    BY <1>1, <1>2, <1>7
  <1>10. \A j \in DOMAIN K : to # K[j]
    BY <1>1, <1>2, <1>4, <1>6
  <1>11. \A i, j \in DOMAIN K : K[i] = K[j] => i = j
    BY <1>1, <1>4, <1>6
  <1>12. ASSUME NEW k \in DOMAIN Kids(h, d1) PROVE Kids(h, d1)[k] \notin Range(K)
    BY <1>1, <1>4, <1>6, <1>12 DEF Range
  <1>13. ASSUME NEW p \in A \ {d2, from}, NEW k \in DOMAIN Kids(h, p)
         PROVE  Kids(h, p)[k] \notin {d2, from} /\ Kids(h, p)[k] \notin (T \ {d2}) \cup Range(K)
    <2>1. Kids(h, p)[k] \notin T
      BY <1>1, <1>13 DEF NoPlace
    <2>2. Kids(h, p)[k] # from
      BY <1>7, <1>13
    <2>3. Kids(h, p)[k] \notin Range(K)
      BY <1>6, <1>13 DEF Range
    <2> QED
      BY <1>1, <2>1, <2>2, <2>3
  <1>14. (T \ {d2}) \cup Range(K) \subseteq A \ {d2, from}
    BY <1>1, <1>4, <1>5, <1>8 DEF Range
  <1>15. /\ Tree(h, A \ {d2, from}, (T \ {d2}) \cup Range(K))
         /\ Distinct(h, A) => Distinct(h, A \ {d2, from})
    BY <1>1, <1>13, <1>14, TreeWithout
  <1>16. to \in A \ {d2, from} /\ to \notin T \cup Range(K) /\ Range(K) \cap T = {}
    BY <1>1, <1>4, <1>5, <1>9, <1>10 DEF Range
  <1> QED
    BY <1>4, <1>5, <1>11, <1>12, <1>15, <1>16 DEF Freed

\* The names of the nodes to move are in order.
InOrder(h, K) == Ordered([k \in 1..Len(K) |-> NameIn(h, K[k])], Len(K))

\* What there is to merge, and into which list.
Mergeable(h, B, T, to, K) ==
    /\ Tree(h, B, T \cup Range(K)) /\ T \cap Range(K) = {}
    /\ to \in B /\ to \notin T \cup Range(K)
    /\ K \in Seq(Nat) /\ \A i, j \in DOMAIN K : K[i] = K[j] => i = j
    /\ Distinct(h, B) /\ InOrder(h, K)

\* The heap g when k of the nodes have been moved.
Merging(g, h, B, T, to, K, k) ==
    /\ Tree(g, B, T \cup (Range(K) \ Moved(K, k)))
    /\ Distinct(g, B)
    /\ DOMAIN g = DOMAIN h
    /\ \A m \in DOMAIN h \ {to} : Kids(g, m) = Kids(h, m)
    /\ \A m \in DOMAIN h \ Moved(K, k) : NameIn(g, m) = NameIn(h, m)
    /\ \A j \in 1..k : KidsHave(g, to, NameIn(h, K[j]))
    /\ Longer(h, g) /\ Moved(K, k) \subseteq Range(Kids(g, to))

LEMMA MergeStep ==
    ASSUME NEW g, NEW h, NEW B, NEW T, NEW to, NEW K, NEW k \in Nat, k + 1 \in DOMAIN K,
           Mergeable(h, B, T, to, K), Merging(g, h, B, T, to, K, k)
    PROVE  Merging(AppendNode(g, to, K[k + 1]), h, B, T, to, K, k + 1)
  <1>1. PICK node : node = K[k + 1]
    OBVIOUS
  <1>2. PICK r : r = AppendNode(g, to, node)
    OBVIOUS
  <1>3. PICK U : U = T \cup (Range(K) \ Moved(K, k))
    OBVIOUS
  <1>4. Moved(K, k + 1) = Moved(K, k) \cup {node}
    BY <1>1 DEF Moved
  <1>5. node \in Range(K) /\ node \notin Moved(K, k)
    <2>1. node \in Range(K)
      BY <1>1 DEF Range
    <2>2. ASSUME NEW j \in 1..k PROVE K[j] # node
      <3>1. j \in DOMAIN K /\ j # k + 1
        BY <2>2 DEF Mergeable
      <3> QED
        BY <1>1, <3>1 DEF Mergeable
    <2> QED
      BY <2>1, <2>2 DEF Moved
  <1>6. Tree(g, B, U) /\ to \in B /\ node \in U /\ to # node /\ g \in Heap /\ B \subseteq DOMAIN g
        /\ DOMAIN g = DOMAIN h /\ node \in DOMAIN g
    BY <1>3, <1>5 DEF Merging, Mergeable, Tree
  <1>7. IsAppended(g, r, to, node)
    BY <1>2, <1>6, AppendNodeFacts
  <1>8. Tree(r, B, U \ {node})
    BY <1>6, <1>7, TreeAppend
  <1>9. U \ {node} = T \cup (Range(K) \ Moved(K, k + 1))
    BY <1>3, <1>4, <1>5 DEF Mergeable
  <1>10. NameIn(g, node) = NameIn(h, node)
    BY <1>5, <1>6 DEF Merging
  <1>11. Distinct(r, B)
    <2>1. Distinct(g, B) /\ InOrder(h, K)
      BY DEF Merging, Mergeable
    <2>2. ASSUME NEW b \in Names, NEW i \in Nat \ {0}, Free(b), NameIn(g, node) = Numbered(b, i + 1)
          PROVE  KidsHave(g, to, Numbered(b, i))
      <3>1. PICK ns : ns = [j \in 1..Len(K) |-> NameIn(h, K[j])]
        OBVIOUS
      <3>2. PICK n \in Nat : n = Len(K) /\ DOMAIN K = 1..n
        BY DEF Mergeable
      <3>3. k + 1 \in 1..n /\ \A j \in 1..n : ns[j] = NameIn(h, K[j])
        BY <3>1, <3>2
      <3>4. Ordered(ns, n)
        BY <2>1, <3>1, <3>2 DEF InOrder
      <3>5. ns[k + 1] = Numbered(b, i + 1)
        BY <1>1, <1>10, <2>2, <3>3
      <3>6. Has(ns, (k + 1) - 1, Numbered(b, i))
        <4>1. \A l \in 1..n, d \in Names, c \in Nat \ {0} :
                  (Free(d) /\ ns[l] = Numbered(d, c + 1)) => Has(ns, l - 1, Numbered(d, c))
          BY <3>4, Zenon DEF Ordered
        <4> QED
          BY <2>2, <3>3, <3>5, <4>1, Zenon
      <3>7. PICK j \in 1..k : ns[j] = Numbered(b, i)
        BY <3>6 DEF Has
      <3>8. NameIn(h, K[j]) = Numbered(b, i)
        BY <3>3, <3>7
      <3> QED
        BY <3>8 DEF Merging
    <2>3. Preceded(g, to, NameIn(g, node))
      BY <2>2 DEF Preceded
    <2> QED
      BY <1>6, <1>7, <2>1, <2>3, DistinctAppend
  <1>12. DOMAIN r = DOMAIN h /\ \A m \in DOMAIN h \ {to} : Kids(r, m) = Kids(h, m)
    BY <1>6, <1>7 DEF IsAppended, Merging
  <1>13. \A m \in DOMAIN h \ Moved(K, k + 1) : NameIn(r, m) = NameIn(h, m)
    BY <1>4, <1>6, <1>7 DEF IsAppended, Merging
  <1>14. /\ \A name : KidsHave(g, to, name) => KidsHave(r, to, name)
         /\ KidsHave(r, to, NameIn(g, node))
    BY <1>6, <1>7, AppendedHave
  <1>15. ASSUME NEW j \in 1..(k + 1) PROVE KidsHave(r, to, NameIn(h, K[j]))
    <2>1. CASE j = k + 1
      BY <1>1, <1>10, <1>14, <2>1
    <2>2. CASE j \in 1..k
      BY <1>14, <2>2 DEF Merging
    <2> QED
      BY <2>1, <2>2
  <1>16. Longer(g, r) /\ node \in Range(Kids(r, to))
    <2>1. node \in Nat /\ to \in DOMAIN g
      BY <1>6 DEF Heap
    <2> QED
      BY <1>6, <1>7, <2>1, AppendLonger DEF IsAppended
  <1>17. Longer(h, r)
    BY <1>6, <1>16 DEF Merging, Longer
  <1>18. Moved(K, k + 1) \subseteq Range(Kids(r, to))
    <2>1. Moved(K, k) \subseteq Range(Kids(g, to)) /\ to \in DOMAIN g
      BY <1>6 DEF Merging
    <2>2. Range(Kids(g, to)) \subseteq Range(Kids(r, to))
      BY <1>16, <2>1 DEF Longer, Range
    <2> QED
      BY <1>4, <1>16, <2>1, <2>2
  <1> QED
    BY <1>1, <1>2, <1>8, <1>9, <1>11, <1>12, <1>13, <1>15, <1>17, <1>18 DEF Merging

LEMMA MergeAll ==
    ASSUME NEW h, NEW B, NEW T, NEW to, NEW K, Mergeable(h, B, T, to, K),
           NEW f, NEW n \in Nat, n = Len(K), IsMerge(f, h, to, K, n)
    PROVE  Merging(f[n], h, B, T, to, K, n)
  <1> DEFINE S == {k \in Nat : k <= n => Merging(f[k], h, B, T, to, K, k)}
  <1>0. K \in Seq(Nat) /\ DOMAIN K = 1..n
    BY DEF Mergeable
  <1>1. 0 \in S
    <2>1. f[0] = h
      BY DEF IsMerge
    <2>2. Moved(K, 0) = {}
      BY DEF Moved
    <2>3. T \cup (Range(K) \ Moved(K, 0)) = T \cup Range(K)
      BY <2>2
    <2>4. Tree(h, B, T \cup (Range(K) \ Moved(K, 0))) /\ Distinct(h, B)
      <3>1. Tree(h, B, T \cup Range(K)) /\ Distinct(h, B)
        BY Zenon DEF Mergeable
      <3> QED
        BY <2>3, <3>1
    <2>5. \A j \in 1..0 : KidsHave(h, to, NameIn(h, K[j]))
      OBVIOUS
    <2>6. Longer(h, h) /\ Moved(K, 0) \subseteq Range(Kids(h, to))
      BY <2>2 DEF Longer
    <2>7. Merging(h, h, B, T, to, K, 0)
      BY <2>4, <2>5, <2>6, Zenon DEF Merging
    <2> QED
      BY <2>1, <2>7
  <1>2. ASSUME NEW k \in S
        PROVE  k + 1 \in S
    <2> SUFFICES ASSUME k + 1 <= n
                 PROVE  Merging(f[k + 1], h, B, T, to, K, k + 1)
      OBVIOUS
    <2>0. k \in Nat /\ k <= n /\ (k <= n => Merging(f[k], h, B, T, to, K, k))
      OBVIOUS
    <2>1. k \in Nat /\ k + 1 \in 0..n /\ k + 1 \in DOMAIN K /\ Merging(f[k], h, B, T, to, K, k)
      BY <1>0, <2>0
    <2>2. f[k + 1] = AppendNode(f[(k + 1) - 1], to, K[k + 1])
      BY <2>1 DEF IsMerge
    <2>3. f[k + 1] = AppendNode(f[k], to, K[k + 1])
      BY <2>1, <2>2
    <2>4. PICK g : g = f[k]
      OBVIOUS
    <2> QED
      BY <2>1, <2>3, <2>4, MergeStep
  <1> HIDE DEF S
  <1>3. S \in SUBSET Nat /\ \A k \in S : k + 1 \in S
    BY <1>2 DEF S
  <1>4. S = Nat
    BY <1>1, <1>3, Induction
  <1>5. n \in S /\ n <= n
    BY <1>4
  <1> QED
    BY <1>5 DEF S

-------------------------------------------------------------------------------
(* The results of a plugin: a level, the list of information and, once it   *)
(* was given, a summary.                                                    *)

LevelName   == Plain("level")
OutputName  == Plain("plugin_output")
SummaryName == Plain("summary")

LEMMA ResultNames ==
    /\ LevelName \in Names /\ OutputName \in Names /\ SummaryName \in Names
    /\ Unnumbered(LevelName) /\ Unnumbered(OutputName) /\ Unnumbered(SummaryName)
    /\ LevelName.base = "level" /\ OutputName.base = "plugin_output" /\ SummaryName.base = "summary"
    /\ LevelName # OutputName /\ LevelName # SummaryName /\ OutputName # SummaryName
  <1>1. LevelName \in Names /\ Unnumbered(LevelName) /\ LevelName.base = "level"
    BY KnownBases, PlainNames DEF LevelName
  <1>2. OutputName \in Names /\ Unnumbered(OutputName) /\ OutputName.base = "plugin_output"
    BY KnownBases, PlainNames DEF OutputName
  <1>3. SummaryName \in Names /\ Unnumbered(SummaryName) /\ SummaryName.base = "summary"
    BY KnownBases, PlainNames DEF SummaryName
  <1> QED
    BY <1>1, <1>2, <1>3

Whole(h, d) ==
    /\ Len(Kids(h, d)) \in {2, 3}
    /\ NameIn(h, Kids(h, d)[1]) = LevelName
    /\ NameIn(h, Kids(h, d)[2]) = OutputName
    /\ Len(Kids(h, d)) = 3 => NameIn(h, Kids(h, d)[3]) = SummaryName

LEMMA WholeAgrees ==
    ASSUME NEW h \in Heap, NEW d \in DOMAIN h, NEW r, Whole(h, d), Agrees(h, r, d)
    PROVE  Whole(r, d)
  <1>1. PICK s \in Seq(Nat) : s = Kids(h, d)
    BY HeapNodes
  <1>2. Kids(r, d) = s /\ \A k \in DOMAIN s : NameIn(r, s[k]) = NameIn(h, s[k])
    BY <1>1 DEF Agrees
  <1>3. /\ Len(s) \in {2, 3}
        /\ NameIn(h, s[1]) = LevelName
        /\ NameIn(h, s[2]) = OutputName
        /\ Len(s) = 3 => NameIn(h, s[3]) = SummaryName
    BY <1>1 DEF Whole
  <1>4. 1 \in DOMAIN s /\ 2 \in DOMAIN s /\ (Len(s) = 3 => 3 \in DOMAIN s)
    BY <1>3
  <1>5. NameIn(r, s[1]) = LevelName /\ NameIn(r, s[2]) = OutputName
    BY <1>2, <1>3, <1>4
  <1>6. Len(s) = 3 => NameIn(r, s[3]) = SummaryName
    BY <1>2, <1>3, <1>4
  <1> QED
    BY <1>2, <1>3, <1>5, <1>6, Zenon DEF Whole

\* The lookups by name succeed, and find the right node.
LEMMA WholeFinds ==
    ASSUME NEW h \in Heap, NEW d \in DOMAIN h, Whole(h, d)
    PROVE  /\ FindNode(h, d, LevelName) = Kids(h, d)[1]
           /\ FindNode(h, d, OutputName) = Kids(h, d)[2]
           /\ Len(Kids(h, d)) = 3 => FindNode(h, d, SummaryName) = Kids(h, d)[3]
           /\ Len(Kids(h, d)) = 2 => FindNode(h, d, SummaryName) = 0
           /\ 1 \in DOMAIN Kids(h, d) /\ 2 \in DOMAIN Kids(h, d)
           /\ Len(Kids(h, d)) = 3 => 3 \in DOMAIN Kids(h, d)
  <1>1. PICK s \in Seq(Nat) : s = Kids(h, d)
    BY HeapNodes
  <1>2. PICK n \in Nat : n = Len(s) /\ (n = 2 \/ n = 3)
    BY <1>1 DEF Whole
  <1>3. /\ DOMAIN s = 1..n /\ 1 \in DOMAIN s /\ 2 \in DOMAIN s /\ (n = 3 => 3 \in DOMAIN s)
        /\ NameIn(h, s[1]) = LevelName /\ NameIn(h, s[2]) = OutputName
        /\ n = 3 => NameIn(h, s[3]) = SummaryName
    <2>1. DOMAIN s = 1..n
      BY <1>2
    <2>2. 1 \in 1..n /\ 2 \in 1..n /\ (n = 3 => 3 \in 1..n)
      BY <1>2
    <2>3. /\ NameIn(h, s[1]) = LevelName /\ NameIn(h, s[2]) = OutputName
          /\ Len(s) = 3 => NameIn(h, s[3]) = SummaryName
      BY <1>1 DEF Whole
    <2> QED
      BY <1>2, <2>1, <2>2, <2>3
  <1>4. ASSUME NEW name, NEW i \in DOMAIN s, NameIn(h, s[i]) = name,
               \A j \in 1..(i - 1) : NameIn(h, s[j]) # name
        PROVE  FindNode(h, d, name) = s[i]
    <2>1. PICK f : f = FindNode(h, d, name)
      OBVIOUS
    <2>2. KidsHave(h, d, name)
      <3>1. i \in 1..Len(Kids(h, d)) /\ KidNames(h, d)[i] = name
        BY <1>1, <1>2, <1>3, <1>4 DEF KidNames
      <3> QED
        BY <3>1 DEF KidsHave, Has
    <2>3. f # 0
      BY <2>1, <2>2, FindNodeFacts
    <2>4. PICK k \in DOMAIN Kids(h, d) :
              /\ f = Kids(h, d)[k] /\ NameIn(h, f) = name
              /\ \A j \in DOMAIN Kids(h, d) : NameIn(h, Kids(h, d)[j]) = name => k <= j
      BY <2>1, <2>3, FindNodeFacts
    <2>5. k \in 1..n /\ k <= i /\ f = s[k] /\ NameIn(h, s[k]) = name
      BY <1>1, <1>3, <1>4, <2>4
    <2>6. k = i
      BY <1>3, <1>4, <2>5
    <2> QED
      BY <2>1, <2>5, <2>6
  <1>5. FindNode(h, d, LevelName) = s[1]
    BY <1>3, <1>4
  <1>6. FindNode(h, d, OutputName) = s[2]
    <2>1. \A j \in 1..(2 - 1) : NameIn(h, s[j]) # OutputName
      BY <1>3, ResultNames
    <2> QED
      BY <1>3, <1>4, <2>1
  <1>7. ASSUME n = 3 PROVE FindNode(h, d, SummaryName) = s[3]
    <2>1. \A j \in 1..(3 - 1) : j = 1 \/ j = 2
      OBVIOUS
    <2>2. \A j \in 1..(3 - 1) : NameIn(h, s[j]) # SummaryName
      BY <1>3, <2>1, ResultNames
    <2> QED
      BY <1>3, <1>4, <1>7, <2>2
  <1>8. ASSUME n = 2 PROVE FindNode(h, d, SummaryName) = 0
    <2>1. \A j \in 1..n : j = 1 \/ j = 2
      BY <1>8
    <2>2. \A j \in 1..n : NameIn(h, s[j]) # SummaryName
      BY <1>3, <2>1, ResultNames
    <2>3. \A j \in 1..Len(Kids(h, d)) : KidNames(h, d)[j] # SummaryName
      BY <1>1, <1>2, <2>2 DEF KidNames
    <2>4. ~KidsHave(h, d, SummaryName)
      BY <2>3 DEF KidsHave, Has
    <2> QED
      BY <2>4, FindNodeFacts
  <1> QED
    BY <1>1, <1>2, <1>3, <1>5, <1>6, <1>7, <1>8

Pair == {"first", "second"}

MadeOf(da) == {da[q] : q \in Pair} \ {0}

\* The results that were made are whole, and no two are the same.
Wholes(h, da) ==
    /\ da \in [Pair -> {0} \cup DOMAIN h]
    /\ \A q \in Pair : da[q] # 0 => Whole(h, da[q])
    /\ \A p, q \in Pair : da[p] # 0 /\ da[p] = da[q] => p = q

\* They are trees, apart from each other and from the other nodes in X.
Kept(h, da, X) ==
    /\ Wholes(h, da)
    /\ X \cap MadeOf(da) = {}
    /\ \E A : Good(h, A, X \cup MadeOf(da))

\* The nodes of X are not touched.
Aside(h, r, X) == \A x \in X : Kids(r, x) = Kids(h, x)

Keeps(h, r, da, X) == Kept(r, da, X) /\ Grew(h, r) /\ Aside(h, r, X)

\* Whatever agrees on the results keeps them.
LEMMA WholesAgree ==
    ASSUME NEW h \in Heap, NEW da, Wholes(h, da), NEW r, DOMAIN h \subseteq DOMAIN r,
           \A d \in MadeOf(da) : Agrees(h, r, d)
    PROVE  Wholes(r, da)
  <1>1. da \in [Pair -> {0} \cup DOMAIN r]
    BY DEF Wholes
  <1>2. ASSUME NEW q \in Pair, da[q] # 0 PROVE Whole(r, da[q])
    <2>1. da[q] \in MadeOf(da) /\ da[q] \in DOMAIN h /\ Whole(h, da[q])
      BY <1>2 DEF MadeOf, Wholes
    <2>2. Agrees(h, r, da[q])
      BY <2>1
    <2> QED
      BY <2>1, <2>2, WholeAgrees
  <1> QED
    BY <1>1, <1>2 DEF Wholes

LEMMA KeptSame ==
    ASSUME NEW h \in Heap, NEW da, NEW X, Kept(h, da, X), NEW r, IsSame(h, r)
    PROVE  Keeps(h, r, da, X)
  <1>1. PICK A : Good(h, A, X \cup MadeOf(da))
    BY DEF Kept
  <1>2. PICK T : T = X \cup MadeOf(da)
    OBVIOUS
  <1>3. Good(r, A, T)
    BY <1>1, <1>2, GoodSame
  <1>4. MadeOf(da) \subseteq DOMAIN h
    BY DEF Kept, Wholes, MadeOf
  <1>5. ASSUME NEW d \in MadeOf(da) PROVE Agrees(h, r, d)
    BY <1>4, HeapNodes DEF IsSame, Agrees
  <1>6. DOMAIN h \subseteq DOMAIN r /\ r \in Heap
    BY DEF IsSame
  <1>7. Wholes(r, da)
    BY <1>5, <1>6, WholesAgree DEF Kept
  <1>8. Longer(h, r)
    BY DEF IsSame, Longer
  <1>9. Aside(h, r, X)
    BY <1>1 DEF Aside, IsSame, Good, Tree
  <1>10. Kept(r, da, X)
    BY <1>2, <1>3, <1>7 DEF Kept
  <1> QED
    BY <1>6, <1>8, <1>9, <1>10 DEF Keeps, Grew

\* A node of a result, by its position.
LEMMA PartOfResult ==
    ASSUME NEW h, NEW A, NEW T, Good(h, A, T), NEW d \in T, NEW k \in DOMAIN Kids(h, d)
    PROVE  Kids(h, d)[k] \in A \ T /\ Kids(h, d)[k] \in DOMAIN h /\ Kids(h, d)[k] # 0
  <1>1. Kids(h, d)[k] \in A \ T /\ A \subseteq DOMAIN h /\ h \in Heap
    BY DEF Good, Tree, Closed, NoPlace
  <1> QED
    BY <1>1 DEF Heap

\* add_information
LEMMA KeptInformation ==
    ASSUME NEW h \in Heap, NEW da, NEW X, Kept(h, da, X), NEW q \in Pair, da[q] # 0,
           NEW name \in Names, Unnumbered(name),
           NEW r, r = AppendNew(h, FindNode(h, da[q], OutputName), name, 0)
    PROVE  Keeps(h, r, da, X)
  <1>1. PICK A : Good(h, A, X \cup MadeOf(da))
    BY DEF Kept
  <1>2. PICK T : T = X \cup MadeOf(da)
    OBVIOUS
  <1>3. Good(h, A, T) /\ da[q] \in T /\ da[q] \in DOMAIN h /\ Whole(h, da[q])
    BY <1>1, <1>2 DEF Kept, Wholes, MadeOf
  <1>4. PICK info : info = FindNode(h, da[q], OutputName)
    OBVIOUS
  <1>5. info \in A \ T
    BY <1>3, <1>4, WholeFinds, PartOfResult
  <1>6. Good(r, A \cup {Len(r)}, T) /\ IsAppendedNew(h, r, info, name, Len(r))
    BY <1>3, <1>4, <1>5, GoodAppendNew
  <1>7. MadeOf(da) \subseteq DOMAIN h /\ MadeOf(da) \subseteq T
    BY <1>2 DEF Kept, Wholes, MadeOf
  <1>8. ASSUME NEW d \in MadeOf(da) PROVE Agrees(h, r, d)
    <2>1. d \in DOMAIN h \ {info}
      BY <1>5, <1>7
    <2> QED
      BY <1>6, <2>1, HeapNodes DEF IsAppendedNew, Agrees
  <1>9. DOMAIN h \subseteq DOMAIN r /\ r \in Heap
    BY <1>6 DEF IsAppendedNew
  <1>10. Wholes(r, da)
    BY <1>8, <1>9, WholesAgree DEF Kept
  <1>11. Kept(r, da, X)
    BY <1>2, <1>6, <1>10 DEF Kept
  <1>12. T \subseteq DOMAIN h \ {info} /\ info \in DOMAIN h
    BY <1>3, <1>5 DEF Good, Tree
  <1>13. Aside(h, r, X)
    BY <1>2, <1>6, <1>12 DEF Aside, IsAppendedNew
  <1>14. Grew(h, r)
    BY <1>4, <1>12, AppendNewGrows
  <1> QED
    BY <1>11, <1>13, <1>14 DEF Keeps

\* set_summary, the first time
LEMMA KeptSummary ==
    ASSUME NEW h \in Heap, NEW da, NEW X, Kept(h, da, X), NEW q \in Pair, da[q] # 0,
           FindNode(h, da[q], SummaryName) = 0, NEW value \in Nat,
           NEW r, r = AppendNew(h, da[q], SummaryName, value)
    PROVE  Keeps(h, r, da, X)
  <1>1. PICK A : Good(h, A, X \cup MadeOf(da))
    BY DEF Kept
  <1>2. PICK T : T = X \cup MadeOf(da)
    OBVIOUS
  <1>3. PICK d : d = da[q]
    OBVIOUS
  <1>4. Good(h, A, T) /\ d \in T /\ d \in DOMAIN h /\ d \in A /\ Whole(h, d)
    BY <1>1, <1>2, <1>3 DEF Kept, Wholes, MadeOf, Good, Tree
  <1>5. PICK new : new = Len(r)
    OBVIOUS
  <1>6. Good(r, A \cup {new}, T) /\ IsAppendedNew(h, r, d, SummaryName, new)
    BY <1>3, <1>4, <1>5, ResultNames, GoodAppendNew
  <1>7. MadeOf(da) \subseteq DOMAIN h
    BY DEF Kept, Wholes, MadeOf
  <1>8. DOMAIN h \subseteq DOMAIN r /\ r \in Heap
    BY <1>6 DEF IsAppendedNew
  <1>9. Whole(r, d)
    <2>1. PICK s \in Seq(Nat) : s = Kids(h, d)
      BY <1>4, HeapNodes
    <2>2. Len(s) = 2
      <3>1. Len(s) = 2 \/ Len(s) = 3
        BY <1>4, <2>1 DEF Whole
      <3>2. ASSUME Len(s) = 3 PROVE FALSE
        <4>1. FindNode(h, d, SummaryName) = Kids(h, d)[3] /\ 3 \in DOMAIN Kids(h, d)
          BY <1>4, <2>1, <3>2, WholeFinds
        <4>2. Kids(h, d)[3] # 0
          BY <1>4, <4>1, PartOfResult
        <4> QED
          BY <1>3, <4>1, <4>2
      <3> QED
        BY <3>1, <3>2
    <2>3. ~KidsHave(h, d, SummaryName) /\ new \in Nat
      BY <1>3, <1>4, <1>5, <1>8, FindNodeFacts, SMTT(30) DEF Heap
    <2>4. PICK t : t = Append(s, new)
      OBVIOUS
    <2>5. Kids(r, d) = t /\ NameIn(r, new) = SummaryName
      BY <1>6, <2>1, <2>3, <2>4, Zenon DEF IsAppendedNew
    <2>6. Len(t) = 3 /\ t[1] = s[1] /\ t[2] = s[2] /\ t[3] = new
      <3>1. Len(t) = Len(s) + 1 /\ t[Len(s) + 1] = new /\ \A k \in 1..Len(s) : t[k] = s[k]
        BY <2>3, <2>4
      <3>2. 1 \in 1..Len(s) /\ 2 \in 1..Len(s) /\ Len(s) + 1 = 3
        BY <2>2
      <3> QED
        BY <3>1, <3>2
    <2>7. s[1] \in DOMAIN h /\ s[2] \in DOMAIN h
      BY <1>4, <2>1, <2>2, HeapNodes
    <2>8. NameIn(r, s[1]) = LevelName /\ NameIn(r, s[2]) = OutputName
      BY <1>4, <1>6, <2>1, <2>7 DEF IsAppendedNew, Whole
    <2>9. Len(Kids(r, d)) \in {2, 3} /\ Kids(r, d)[1] = s[1] /\ Kids(r, d)[2] = s[2]
          /\ Kids(r, d)[3] = new
      BY <2>5, <2>6
    <2> QED
      BY <2>5, <2>8, <2>9, Zenon DEF Whole
  <1>10. ASSUME NEW e \in MadeOf(da), e # d PROVE Agrees(h, r, e)
    BY <1>6, <1>7, <1>10, HeapNodes DEF IsAppendedNew, Agrees
  <1>11. Wholes(r, da)
    <2>1. da \in [Pair -> {0} \cup DOMAIN r]
      BY <1>8 DEF Kept, Wholes
    <2>2. ASSUME NEW p \in Pair, da[p] # 0 PROVE Whole(r, da[p])
      <3>1. CASE da[p] = d
        BY <1>9, <3>1
      <3>2. CASE da[p] # d
        <4>1. da[p] \in MadeOf(da) /\ da[p] \in DOMAIN h /\ Whole(h, da[p])
          BY <2>2 DEF Kept, MadeOf, Wholes
        <4>2. Agrees(h, r, da[p])
          BY <1>10, <3>2, <4>1
        <4> QED
          BY <4>1, <4>2, WholeAgrees
      <3> QED
        BY <3>1, <3>2
    <2> QED
      BY <2>1, <2>2 DEF Kept, Wholes
  <1>12. Kept(r, da, X)
    BY <1>2, <1>6, <1>11 DEF Kept
  <1>13. d \notin X /\ X \subseteq DOMAIN h
    BY <1>2, <1>3, <1>4 DEF Kept, MadeOf, Good, Tree
  <1>14. Aside(h, r, X)
    BY <1>6, <1>13 DEF Aside, IsAppendedNew
  <1>15. Grew(h, r)
    BY <1>3, <1>4, ResultNames, AppendNewGrows
  <1> QED
    BY <1>12, <1>14, <1>15 DEF Keeps

\* The constructor
LEMMA KeptMake ==
    ASSUME NEW h \in Heap, NEW da, NEW X, Kept(h, da, X), NEW q \in Pair, da[q] = 0,
           NEW g, g = NewNode(h, Plain("plugin"), 0), NEW d, d = Len(g),
           NEW l, l = AppendNew(g, d, LevelName, 1),
           NEW r, r = AppendNew(l, d, OutputName, 0)
    PROVE  Keeps(h, r, [da EXCEPT ![q] = d], X)
  <1>1. PICK A : Good(h, A, X \cup MadeOf(da))
    BY DEF Kept
  <1>2. PICK T : T = X \cup MadeOf(da)
    OBVIOUS
  <1>3. Good(h, A, T) /\ A \subseteq DOMAIN h /\ T \subseteq A
    BY <1>1, <1>2 DEF Good, Tree
  <1>4. Plain("plugin") \in Names /\ Unnumbered(Plain("plugin"))
    BY KnownBases, PlainNames
  <1>5. IsNew(h, g, Plain("plugin"), d)
    BY <1>4, NewNodeFacts
  <1>6. PICK B, U : B = A \cup {d} /\ U = T \cup {d}
    OBVIOUS
  <1>7. Good(g, B, U) /\ d \notin DOMAIN h /\ d \in B /\ d \in U
    <2>1. Good(g, A \cup {d}, T \cup {d})
      BY <1>3, <1>4, <1>5, GoodNew
    <2>2. d \notin DOMAIN h
      BY <1>5 DEF IsNew
    <2> QED
      BY <1>6, <2>1, <2>2
  <1>8. PICK m : m = Len(l)
    OBVIOUS
  <1>9. PICK C : C = B \cup {m}
    OBVIOUS
  <1>10. Good(l, C, U) /\ IsAppendedNew(g, l, d, LevelName, m) /\ d \in C
    BY <1>7, <1>8, <1>9, ResultNames, GoodAppendNew
  <1>11. PICK n : n = Len(r)
    OBVIOUS
  <1>12. Good(r, C \cup {n}, U) /\ IsAppendedNew(l, r, d, OutputName, n)
    <2>1. OutputName \in Names /\ Unnumbered(OutputName) /\ 0 \in Nat
      BY ResultNames
    <2> QED
      BY <1>10, <1>11, <2>1, GoodAppendNew
  <1>13. Whole(r, d)
    <2>1. Kids(g, d) = <<>> /\ g \in Heap /\ d \in DOMAIN g
      BY <1>5 DEF IsNew
    <2>2. ~KidsHave(g, d, LevelName)
      BY <2>1 DEF KidsHave, Has
    <2>3. NameIn(l, m) = LevelName /\ l \in Heap /\ m \in DOMAIN l /\ m \in Nat
      BY <1>10, <2>2 DEF IsAppendedNew, Heap
    <2>4. Kids(l, d) = Append(<<>>, m)
      BY <1>10, <2>1 DEF IsAppendedNew
    <2>5. PICK s \in Seq(Nat) : s = Append(<<>>, m) /\ Len(s) = 1 /\ s[1] = m
      <3>1. <<m>> \in Seq(Nat) /\ Len(<<m>>) = 1 /\ <<m>>[1] = m /\ <<m>> = Append(<<>>, m)
        BY <2>3
      <3> QED
        BY <3>1
    <2>6. Kids(l, d) = s
      BY <2>4, <2>5
    <2>7. ~KidsHave(l, d, OutputName)
      <3>1. \A j \in 1..Len(Kids(l, d)) : j = 1
        BY <2>5, <2>6
      <3>2. \A j \in 1..Len(Kids(l, d)) : KidNames(l, d)[j] = LevelName
        BY <2>3, <2>5, <2>6, <3>1 DEF KidNames
      <3> QED
        BY <3>2, ResultNames DEF KidsHave, Has
    <2>8. /\ NameIn(r, n) = OutputName /\ n \in Nat
          /\ Kids(r, d) = Append(s, n)
          /\ NameIn(r, m) = LevelName
      <3>1. NameIn(r, n) = OutputName /\ Kids(r, d) = Append(s, n)
        BY <1>12, <2>6, <2>7 DEF IsAppendedNew
      <3>2. n \in DOMAIN r /\ r \in Heap
        BY <1>12 DEF IsAppendedNew
      <3>3. n \in Nat
        BY <3>2 DEF Heap
      <3>4. NameIn(r, m) = NameIn(l, m)
        BY <1>12, <2>3 DEF IsAppendedNew
      <3> QED
        BY <2>3, <3>1, <3>3, <3>4
    <2>9. PICK t : t = Append(s, n)
      OBVIOUS
    <2>10. Len(t) = Len(s) + 1 /\ t[Len(s) + 1] = n /\ \A k \in 1..Len(s) : t[k] = s[k]
      BY <2>8, <2>9
    <2>11. Len(t) = 2 /\ t[1] = m /\ t[2] = n
      BY <2>5, <2>10
    <2>12. /\ Len(Kids(r, d)) \in {2, 3} /\ Len(Kids(r, d)) # 3
           /\ Kids(r, d)[1] = m /\ Kids(r, d)[2] = n
      <3>1. Kids(r, d) = t
        BY <2>8, <2>9
      <3>2. Len(t) \in {2, 3} /\ Len(t) # 3
        BY <2>11
      <3> QED
        BY <2>11, <3>1, <3>2
    <2> QED
      BY <2>8, <2>12, Zenon DEF Whole
  <1>14. DOMAIN h \subseteq DOMAIN r /\ r \in Heap /\ d \in DOMAIN r
    BY <1>5, <1>10, <1>12 DEF IsNew, IsAppendedNew
  <1>15. MadeOf(da) \subseteq DOMAIN h
    BY DEF Kept, Wholes, MadeOf
  <1>16. ASSUME NEW e \in MadeOf(da) PROVE Agrees(h, r, e)
    <2>1. e \in DOMAIN h /\ e # d /\ e \in DOMAIN g /\ e \in DOMAIN l
      BY <1>5, <1>7, <1>10, <1>15 DEF IsNew, IsAppendedNew
    <2>2. Kids(r, e) = Kids(h, e)
      BY <1>5, <1>10, <1>12, <2>1 DEF IsNew, IsAppendedNew
    <2>3. \A x \in DOMAIN h : NameIn(r, x) = NameIn(h, x)
      BY <1>5, <1>10, <1>12 DEF IsNew, IsAppendedNew
    <2> QED
      BY <2>1, <2>2, <2>3, HeapNodes DEF Agrees
  <1>17. PICK db : db = [da EXCEPT ![q] = d]
    OBVIOUS
  <1>18. /\ da \in [Pair -> {0} \cup DOMAIN h] /\ db \in [Pair -> {0} \cup DOMAIN r]
         /\ db[q] = d /\ \A p \in Pair \ {q} : db[p] = da[p]
    BY <1>14, <1>17 DEF Kept, Wholes
  <1>19. d # 0
    BY <1>14 DEF Heap
  <1>20. ASSUME NEW p \in Pair, db[p] # 0 PROVE Whole(r, db[p])
    <2>1. CASE p = q
      BY <1>13, <1>18, <2>1
    <2>2. CASE p # q
      <3>1. db[p] = da[p] /\ da[p] \in MadeOf(da) /\ da[p] \in DOMAIN h /\ Whole(h, da[p])
        BY <1>18, <1>20, <2>2 DEF Kept, Wholes, MadeOf
      <3>2. Agrees(h, r, da[p])
        BY <1>16, <3>1
      <3>3. Whole(r, da[p])
        BY <3>1, <3>2, WholeAgrees
      <3> QED
        BY <3>1, <3>3
    <2> QED
      BY <2>1, <2>2
  <1>21. ASSUME NEW p \in Pair, NEW o \in Pair, db[p] # 0, db[p] = db[o] PROVE p = o
    <2>1. \A x \in Pair \ {q} : db[x] # d
      BY <1>7, <1>14, <1>18, <1>19
    <2> QED
      BY <1>18, <1>21, <2>1 DEF Kept, Wholes
  <1>22. Wholes(r, db)
    BY <1>18, <1>20, <1>21 DEF Wholes
  <1>23. MadeOf(db) = MadeOf(da) \cup {d}
    BY <1>18, <1>19 DEF MadeOf
  <1>24. X \cap MadeOf(db) = {} /\ X \cup MadeOf(db) = U
    BY <1>2, <1>3, <1>6, <1>7, <1>23 DEF Kept
  <1>25. Kept(r, [da EXCEPT ![q] = d], X)
    BY <1>12, <1>17, <1>22, <1>24 DEF Kept
  <1>26. X \subseteq DOMAIN h
    BY <1>2, <1>3
  <1>27. Aside(h, r, X)
    BY <1>5, <1>7, <1>10, <1>12, <1>26 DEF Aside, IsNew, IsAppendedNew
  <1>28. Grew(h, g) /\ d \in DOMAIN g
    BY <1>4, NewNodeGrows
  <1>29. Grew(g, l)
    BY <1>28, ResultNames, AppendNewGrows DEF Grew
  <1>30. Grew(l, r)
    <2>1. l \in Heap /\ d \in DOMAIN l /\ OutputName \in Names
      BY <1>28, <1>29, ResultNames DEF Grew
    <2> QED
      BY <2>1, AppendNewGrows
  <1>31. Grew(h, r)
    BY <1>28, <1>29, <1>30, GrewTransitive
  <1> QED
    BY <1>25, <1>27, <1>31 DEF Keeps

\* merge: the second result is dropped
LEMMA KeptMerge ==
    ASSUME NEW h \in Heap, NEW da, NEW X, Kept(h, da, X), \A q \in Pair : da[q] # 0,
           NEW g, IsSame(h, g),
           NEW to, to = FindNode(h, da["first"], OutputName),
           NEW from, from = FindNode(h, da["second"], OutputName),
           NEW K, K = Kids(h, from),
           NEW f, NEW n \in Nat, n = Len(K), IsMerge(f, g, to, K, n)
    PROVE  Keeps(h, f[n], [da EXCEPT !["second"] = 0], X) /\ Range(K) \subseteq Range(Kids(f[n], to))
  <1>1. Kept(g, da, X) /\ g \in Heap /\ DOMAIN g = DOMAIN h
    BY KeptSame DEF IsSame, Keeps
  <1>2. PICK A : Good(g, A, X \cup MadeOf(da))
    BY <1>1 DEF Kept
  <1>3. PICK T : T = X \cup MadeOf(da)
    OBVIOUS
  <1>4. PICK d1, d2 : d1 = da["first"] /\ d2 = da["second"]
    OBVIOUS
  <1>5. /\ d1 \in DOMAIN h /\ d2 \in DOMAIN h /\ d1 # d2 /\ d1 # 0 /\ d2 # 0
        /\ Whole(h, d1) /\ Whole(h, d2) /\ Whole(g, d1) /\ Whole(g, d2)
        /\ MadeOf(da) = {d1, d2}
    BY <1>1, <1>4 DEF Kept, Wholes, MadeOf, Pair
  <1>6. Good(g, A, T) /\ Tree(g, A, T) /\ d1 \in T /\ d2 \in T /\ A \subseteq DOMAIN g
    BY <1>2, <1>3, <1>5 DEF Good, Tree
  <1>7. /\ to = Kids(h, d1)[2] /\ 2 \in DOMAIN Kids(h, d1)
        /\ from = Kids(h, d2)[2] /\ 2 \in DOMAIN Kids(h, d2)
    BY <1>4, <1>5, WholeFinds
  <1>8. Kids(g, d1) = Kids(h, d1) /\ Kids(g, d2) = Kids(h, d2)
    BY <1>5 DEF IsSame
  <1>9. from \in DOMAIN h
    BY <1>5, <1>7, HeapNodes
  <1>10. Kids(g, from) = K
    BY <1>9 DEF IsSame
  <1>11. Lists(g, A, T, d1, d2, to, from, K)
    <2>1. \E a \in DOMAIN Kids(g, d1) : to = Kids(g, d1)[a]
      BY <1>7, <1>8
    <2>2. \E b \in DOMAIN Kids(g, d2) : from = Kids(g, d2)[b]
      BY <1>7, <1>8
    <2> QED
      BY <1>5, <1>6, <1>10, <2>1, <2>2, Zenon DEF Lists
  <1>12. PICK B, U : B = A \ {d2, from} /\ U = T \ {d2}
    OBVIOUS
  <1>13. /\ Tree(g, B, U \cup Range(K))
         /\ Distinct(g, A) => Distinct(g, B)
         /\ to \in B /\ to \notin T \cup Range(K) /\ from \in A \ T
         /\ K \in Seq(Nat) /\ \A i, j \in DOMAIN K : K[i] = K[j] => i = j
         /\ \A k \in DOMAIN Kids(g, d1) : Kids(g, d1)[k] \notin Range(K)
         /\ Range(K) \cap T = {}
    <2>1. Freed(g, A, T, d1, d2, to, from, K)
      BY <1>11, MergeStarts
    <2> QED
      BY <1>12, <2>1 DEF Freed
  <1>14. InOrder(g, K)
    <2>1. KidsOrdered(g, from)
      BY <1>6, <1>13 DEF Good, Distinct
    <2>2. KidNames(g, from) = [k \in 1..Len(K) |-> NameIn(g, K[k])]
      BY <1>10 DEF KidNames
    <2> QED
      BY <1>10, <2>1, <2>2 DEF KidsOrdered, InOrder
  <1>15. Mergeable(g, B, U, to, K)
    <2>1. U \cap Range(K) = {} /\ to \notin U \cup Range(K)
      BY <1>12, <1>13
    <2>2. Distinct(g, B)
      BY <1>6, <1>13 DEF Good
    <2> QED
      BY <1>13, <1>14, <2>1, <2>2 DEF Mergeable
  <1>16. PICK r : r = f[n]
    OBVIOUS
  <1>17. Merging(r, g, B, U, to, K, n)
    BY <1>15, <1>16, MergeAll
  <1>18. Moved(K, n) = Range(K)
    BY <1>13 DEF Moved, Range
  <1>19. /\ Tree(r, B, U) /\ Distinct(r, B) /\ DOMAIN r = DOMAIN g
         /\ \A m \in DOMAIN g \ {to} : Kids(r, m) = Kids(g, m)
         /\ \A m \in DOMAIN g \ Range(K) : NameIn(r, m) = NameIn(g, m)
         /\ Longer(g, r) /\ Range(K) \subseteq Range(Kids(r, to))
    <2>1. U \cup (Range(K) \ Moved(K, n)) = U
      BY <1>18
    <2> QED
      BY <1>17, <1>18, <2>1 DEF Merging
  <1>20. Good(r, B, U)
    <2>1. ASSUME NEW t \in U PROVE Unnumbered(NameIn(r, t))
      <3>1. t \in T /\ t \in DOMAIN g \ Range(K)
        BY <1>6, <1>12, <1>13 DEF Tree
      <3>2. NameIn(r, t) = NameIn(g, t)
        BY <1>19, <3>1
      <3> QED
        BY <1>6, <2>1, <3>1, <3>2 DEF Good
    <2> QED
      BY <1>19, <2>1 DEF Good
  <1>21. Agrees(g, r, d1)
    <2>1. d1 \in DOMAIN g \ {to}
      BY <1>1, <1>5, <1>6, <1>13
    <2>2. \A k \in DOMAIN Kids(g, d1) : Kids(g, d1)[k] \in DOMAIN g \ Range(K)
      BY <1>1, <1>13, <2>1, HeapNodes
    <2> QED
      BY <1>19, <2>1, <2>2 DEF Agrees
  <1>22. Whole(r, d1)
    BY <1>1, <1>5, <1>21, WholeAgrees
  <1>23. PICK db : db = [da EXCEPT !["second"] = 0]
    OBVIOUS
  <1>24. /\ db["first"] = d1 /\ db["second"] = 0 /\ db \in [Pair -> {0} \cup DOMAIN r]
         /\ MadeOf(db) = {d1}
    <2>1. da \in [Pair -> {0} \cup DOMAIN r]
      BY <1>1, <1>19 DEF Kept, Wholes
    <2>2. db["first"] = d1 /\ db["second"] = 0 /\ db \in [Pair -> {0} \cup DOMAIN r]
      BY <1>4, <1>23, <2>1 DEF Pair
    <2> QED
      BY <1>5, <2>2 DEF MadeOf, Pair
  <1>25. Wholes(r, db)
    BY <1>22, <1>24 DEF Wholes, Pair
  <1>26. X \cap MadeOf(db) = {} /\ X \cup MadeOf(db) = U
    BY <1>1, <1>3, <1>5, <1>12, <1>24 DEF Kept
  <1>27. r \in Heap
    BY <1>19 DEF Tree
  <1>28. Kept(r, db, X)
    BY <1>20, <1>25, <1>26 DEF Kept
  <1>29. Longer(h, r)
    BY <1>1, <1>19 DEF Longer, IsSame
  <1>30. X \subseteq DOMAIN h /\ to \notin X
    BY <1>1, <1>3, <1>6, <1>13 DEF Tree
  <1>31. Aside(h, r, X)
    BY <1>1, <1>19, <1>30 DEF Aside, IsSame
  <1> QED
    BY <1>1, <1>16, <1>19, <1>23, <1>27, <1>28, <1>29, <1>31 DEF Keeps, Grew

-------------------------------------------------------------------------------
(* The steps of the plugin.                                                *)

\* The module of the results has the same operators.
LEMMA SameOperators ==
    /\ \A base : Plugin!Plain(base) = Plain(base)
    /\ \A h, parent, name : Plugin!FindNode(h, parent, name) = FindNode(h, parent, name)
    /\ \A h, name, value : Plugin!NewNode(h, name, value) = NewNode(h, name, value)
    /\ \A h, parent, name : Plugin!AppendedName(h, parent, name) = AppendedName(h, parent, name)
    /\ \A h, parent, node : Plugin!AppendNode(h, parent, node) = AppendNode(h, parent, node)
    /\ \A h, parent, name, value :
           Plugin!AppendNew(h, parent, name, value) = AppendNew(h, parent, name, value)
  <1>1. \A base : Plugin!Plain(base) = Plain(base)
    BY DEF Plugin!Plain, Plain
  <1>2. \A h, parent, name : Plugin!FindNode(h, parent, name) = FindNode(h, parent, name)
    BY Zenon DEF Plugin!FindNode, FindNode, Plugin!Matches, Matches
  <1>3. \A h, name, value : Plugin!NewNode(h, name, value) = NewNode(h, name, value)
    BY DEF Plugin!NewNode, NewNode
  <1>4. \A h, parent, name : Plugin!AppendedName(h, parent, name) = AppendedName(h, parent, name)
    BY Zenon DEF Plugin!AppendedName, AppendedName, Plugin!Suffixed, Suffixed
  <1>5. \A h, parent, node : Plugin!AppendNode(h, parent, node) = AppendNode(h, parent, node)
    BY <1>4, Zenon DEF Plugin!AppendNode, AppendNode
  <1>6. \A h, parent, name, value :
            Plugin!AppendNew(h, parent, name, value) = AppendNew(h, parent, name, value)
    BY <1>3, <1>5, Zenon DEF Plugin!AppendNew, AppendNew
  <1> QED
    BY <1>1, <1>2, <1>3, <1>4, <1>5, <1>6, Zenon

LEMMA LookupsByName ==
    ASSUME NEW q \in Pair
    PROVE  /\ Plugin!LevelNode(q) = FindNode(heap, data[q], LevelName)
           /\ Plugin!Information(q) = FindNode(heap, data[q], OutputName)
           /\ Plugin!Made(q) <=> data[q] # 0
  BY SameOperators, Zenon
     DEF Plugin!LevelNode, Plugin!Information, Plugin!Made, LevelName, OutputName

\* Storing or raising a level changes no more than its value.
LEMMA LevelsAreSame ==
    ASSUME heap \in Heap, NEW X, Kept(heap, data, X), NEW q \in Pair, data[q] # 0, NEW level \in Nat
    PROVE  /\ IsSame(heap, Plugin!StoreLevel(heap, q, level))
           /\ IsSame(heap, Plugin!Raised(heap, q, level))
           /\ heap[Plugin!LevelNode(q)].value \in Nat
  <1>1. data[q] \in DOMAIN heap /\ Whole(heap, data[q])
    BY DEF Kept, Wholes
  <1>2. PICK n : n = Plugin!LevelNode(q)
    OBVIOUS
  <1>3. n = Kids(heap, data[q])[1] /\ 1 \in DOMAIN Kids(heap, data[q])
    BY <1>1, <1>2, LookupsByName, WholeFinds
  <1>4. n \in DOMAIN heap
    BY <1>1, <1>3, HeapNodes
  <1>5. n # 0 /\ heap[n] \in Node
    BY <1>4 DEF Heap
  <1>6. IsSame(heap, [heap EXCEPT ![n].value = level])
    BY <1>4, StoreFacts
  <1>7. IsSame(heap, Plugin!StoreLevel(heap, q, level))
    BY <1>2, <1>5, <1>6, SameOperators DEF Plugin!StoreLevel
  <1>8. IsSame(heap, heap)
    BY DEF IsSame
  <1>9. IsSame(heap, Plugin!Raised(heap, q, level))
    BY <1>7, <1>8 DEF Plugin!Raised
  <1>10. heap[n].value \in Nat
    BY <1>5 DEF Node
  <1> QED
    BY <1>2, <1>7, <1>9, <1>10

LEMMA MakeResultKeeps ==
    ASSUME heap \in Heap, NEW X, Kept(heap, data, X), NEW q \in Pair, Plugin!MakeResult(q)
    PROVE  Keeps(heap, heap', data', X)
  <1>1. PICK g : g = NewNode(heap, Plain("plugin"), 0)
    OBVIOUS
  <1>2. PICK d : d = Len(g)
    OBVIOUS
  <1>3. PICK l : l = AppendNew(g, d, LevelName, 1)
    OBVIOUS
  <1>4. PICK r : r = AppendNew(l, d, OutputName, 0)
    OBVIOUS
  <1>5. data[q] = 0 /\ heap' = r /\ data' = [data EXCEPT ![q] = d]
    <2>1. /\ data[q] = 0
          /\ heap' = Plugin!AppendNew(Plugin!AppendNew(Plugin!NewNode(heap, Plugin!Plain("plugin"), 0),
                         Len(Plugin!NewNode(heap, Plugin!Plain("plugin"), 0)), Plugin!Plain("level"), 1),
                         Len(Plugin!NewNode(heap, Plugin!Plain("plugin"), 0)),
                         Plugin!Plain("plugin_output"), 0)
          /\ data' = [data EXCEPT ![q] = Len(Plugin!NewNode(heap, Plugin!Plain("plugin"), 0))]
      BY Zenon DEF Plugin!MakeResult, Plugin!NO_OPINION
    <2>2. Plugin!NewNode(heap, Plugin!Plain("plugin"), 0) = g
      BY <1>1, SameOperators
    <2>3. Plugin!AppendNew(g, d, Plugin!Plain("level"), 1) = l
      BY <1>3, SameOperators, Zenon DEF LevelName
    <2>4. Plugin!AppendNew(l, d, Plugin!Plain("plugin_output"), 0) = r
      BY <1>4, SameOperators, Zenon DEF OutputName
    <2> QED
      BY <1>2, <2>1, <2>2, <2>3, <2>4
  <1>6. Keeps(heap, r, [data EXCEPT ![q] = d], X)
    BY <1>1, <1>2, <1>3, <1>4, <1>5, KeptMake
  <1> QED
    BY <1>5, <1>6

LEMMA LevelStepKeeps ==
    ASSUME heap \in Heap, NEW X, Kept(heap, data, X), NEW q \in Pair, NEW level \in Level,
           Plugin!SetLevel(q, level) \/ Plugin!RaiseLevel(q, level)
    PROVE  Keeps(heap, heap', data', X)
  <1>1. level \in Nat /\ data[q] # 0
    BY ReportAssumption, LookupsByName DEF Plugin!SetLevel, Plugin!RaiseLevel
  <1>2. IsSame(heap, heap') /\ data' = data
    BY <1>1, LevelsAreSame DEF Plugin!SetLevel, Plugin!RaiseLevel
  <1>3. PICK r : r = heap'
    OBVIOUS
  <1>4. Keeps(heap, r, data, X)
    BY <1>2, <1>3, KeptSame
  <1> QED
    BY <1>2, <1>3, <1>4

LEMMA SummaryKeeps ==
    ASSUME heap \in Heap, NEW X, Kept(heap, data, X), NEW q \in Pair, Plugin!SetSummary(q, 1)
    PROVE  Keeps(heap, heap', data', X)
  <1>1. data[q] # 0 /\ data' = data
    BY DEF Plugin!SetSummary, Plugin!Made
  <1>2. PICK n : n = FindNode(heap, data[q], SummaryName)
    OBVIOUS
  <1>3. heap' = IF n = 0 THEN AppendNew(heap, data[q], SummaryName, 1)
                ELSE [heap EXCEPT ![n].value = 1]
    <2>1. n = Plugin!FindNode(heap, data[q], Plugin!Plain("summary"))
      BY <1>2, SameOperators, Zenon DEF SummaryName
    <2>2. Plugin!AppendNew(heap, data[q], Plugin!Plain("summary"), 1)
              = AppendNew(heap, data[q], SummaryName, 1)
      BY SameOperators, Zenon DEF SummaryName
    <2> QED
      BY <2>1, <2>2 DEF Plugin!SetSummary
  <1>4. PICK r : r = heap'
    OBVIOUS
  <1>5. CASE n = 0
    <2>1. r = AppendNew(heap, data[q], SummaryName, 1)
      BY <1>3, <1>4, <1>5
    <2>2. Keeps(heap, r, data, X)
      BY <1>1, <1>2, <1>5, <2>1, KeptSummary
    <2> QED
      BY <1>1, <1>4, <2>2
  <1>6. CASE n # 0
    <2>1. data[q] \in DOMAIN heap
      BY <1>1 DEF Kept, Wholes
    <2>2. n \in DOMAIN heap
      BY <1>2, <1>6, <2>1, FindNodeFacts
    <2>3. IsSame(heap, r)
      BY <1>3, <1>4, <1>6, <2>2, StoreFacts
    <2>4. Keeps(heap, r, data, X)
      BY <2>3, KeptSame
    <2> QED
      BY <1>1, <1>4, <2>4
  <1> QED
    BY <1>5, <1>6

LEMMA InformationKeeps ==
    ASSUME heap \in Heap, NEW X, Kept(heap, data, X), NEW q \in Pair,
           \/ Plugin!AddInformation(q)
           \/ \E name \in EntryName : Plugin!AddNamedInformation(q, name)
    PROVE  Keeps(heap, heap', data', X)
  <1>1. data[q] # 0 /\ data' = data
    BY DEF Plugin!AddInformation, Plugin!AddNamedInformation, Plugin!Made
  <1>2. data[q] \in DOMAIN heap /\ Whole(heap, data[q])
    BY <1>1 DEF Kept, Wholes
  <1>3. PICK info : info = FindNode(heap, data[q], OutputName)
    OBVIOUS
  <1>4. info \in DOMAIN heap
    BY <1>2, <1>3, WholeFinds, HeapNodes
  <1>5. Plugin!Information(q) = info
    BY <1>3, LookupsByName
  <1>6. PICK name \in Names : Unnumbered(name) /\ heap' = AppendNew(heap, info, name, 0)
    <2>1. CASE Plugin!AddInformation(q)
      <3>1. PICK name : name = [base |-> "info_", index |-> Len(Kids(heap, info)), dup |-> <<>>]
        OBVIOUS
      <3>2. Len(Kids(heap, info)) \in Nat
        BY <1>4, HeapNodes
      <3>3. <<>> \in Seq(Nat)
        BY EmptySeq
      <3>4. name \in Names /\ Unnumbered(name)
        BY <3>1, <3>2, <3>3, KnownBases DEF Names, Unnumbered
      <3>5. heap' = AppendNew(heap, info, name, 0)
        <4>1. heap' = Plugin!AppendNew(heap, info, name, 0)
          BY <1>5, <2>1, <3>1 DEF Plugin!AddInformation, Plugin!InfoName, Kids
        <4> QED
          BY <4>1, SameOperators
      <3> QED
        BY <3>4, <3>5
    <2>2. CASE \E name \in EntryName : Plugin!AddNamedInformation(q, name)
      <3>1. PICK name \in EntryName : Plugin!AddNamedInformation(q, name)
        BY <2>2
      <3>2. heap' = AppendNew(heap, info, name, 0)
        BY <1>5, <3>1, SameOperators DEF Plugin!AddNamedInformation
      <3>3. name \in Names /\ Unnumbered(name)
        BY EntryNames
      <3> QED
        BY <3>2, <3>3
    <2> QED
      BY <2>1, <2>2
  <1>7. PICK r : r = heap'
    OBVIOUS
  <1>8. r = AppendNew(heap, FindNode(heap, data[q], OutputName), name, 0)
    BY <1>3, <1>6, <1>7
  <1>9. Keeps(heap, r, data, X)
    BY <1>1, <1>6, <1>8, KeptInformation
  <1> QED
    BY <1>1, <1>7, <1>9

LEMMA MergeKeeps ==
    ASSUME heap \in Heap, NEW X, Kept(heap, data, X), Plugin!Merge
    PROVE  /\ Keeps(heap, heap', data', X)
           /\ Range(Kids(heap, FindNode(heap, data["second"], OutputName))) \subseteq
                  Range(Kids(heap', FindNode(heap, data["first"], OutputName)))
  <1>1. data' = [data EXCEPT !["second"] = 0] /\ \A q \in Pair : data[q] # 0
    BY DEF Plugin!Merge, Plugin!Result, Plugin!Made, Pair
  <1>2. "first" \in Pair /\ "second" \in Pair
    BY DEF Pair
  <1>3. PICK level : level = heap[Plugin!LevelNode("second")].value
    OBVIOUS
  <1>4. level \in Nat
    BY <1>1, <1>2, <1>3, LevelsAreSame
  <1>5. PICK g : g = Plugin!Raised(heap, "first", level)
    OBVIOUS
  <1>6. IsSame(heap, g)
    BY <1>1, <1>2, <1>4, <1>5, LevelsAreSame
  <1>7. PICK to : to = FindNode(heap, data["first"], OutputName)
    OBVIOUS
  <1>8. PICK from : from = FindNode(heap, data["second"], OutputName)
    OBVIOUS
  <1>9. to = Plugin!Information("first") /\ from = Plugin!Information("second")
    BY <1>2, <1>7, <1>8, LookupsByName
  <1>10. PICK K : K = Kids(heap, from)
    OBVIOUS
  <1>11. K = heap[from].kids
    BY <1>10 DEF Kids
  <1>12. PICK n : n = Len(K)
    OBVIOUS
  <1>13. n \in Nat
    <2>1. data["second"] \in DOMAIN heap /\ Whole(heap, data["second"])
      BY <1>1, <1>2 DEF Kept, Wholes
    <2>2. from \in DOMAIN heap
      BY <1>8, <2>1, WholeFinds, HeapNodes
    <2> QED
      BY <1>10, <1>12, <2>2, HeapNodes
  <1>14. \E f : IsMerge(f, g, to, K, n)
    BY <1>13, MergeExists
  <1>15. \A f : IsMerge(f, g, to, K, n) <=>
                  f = [k \in 0..Len(K) |-> IF k = 0 THEN g
                                           ELSE Plugin!AppendNode(f[k - 1], to, K[k])]
    BY <1>12, SameOperators DEF IsMerge
  <1>16. \E f : IsMerge(f, g, to, K, n) /\ heap' = f[n]
    <2>1. heap' = LET add[k \in 0..Len(K)] ==
                          IF k = 0 THEN g ELSE Plugin!AppendNode(add[k - 1], to, K[k])
                  IN  add[Len(K)]
      BY <1>3, <1>5, <1>9, <1>11 DEF Plugin!Merge
    <2> QED
      BY <1>12, <1>14, <1>15, <2>1
  <1>17. PICK f : IsMerge(f, g, to, K, n) /\ heap' = f[n]
    BY <1>16
  <1>18. /\ Keeps(heap, f[n], [data EXCEPT !["second"] = 0], X)
         /\ Range(K) \subseteq Range(Kids(f[n], to))
    BY <1>1, <1>6, <1>7, <1>8, <1>10, <1>12, <1>13, <1>17, KeptMerge
  <1> QED
    BY <1>1, <1>7, <1>8, <1>10, <1>17, <1>18

\* Every call of the plugin keeps the results whole and apart.
LEMMA PluginKeeps ==
    ASSUME heap \in Heap, NEW X, Kept(heap, data, X), Plugin!Next
    PROVE  Keeps(heap, heap', data', X)
  <1>1. \/ \E q \in Pair :
              \/ Plugin!MakeResult(q)
              \/ \E level \in Level : Plugin!SetLevel(q, level) \/ Plugin!RaiseLevel(q, level)
              \/ Plugin!SetSummary(q, 1)
              \/ Plugin!AddInformation(q)
              \/ \E name \in EntryName : Plugin!AddNamedInformation(q, name)
        \/ Plugin!Merge
    BY Zenon DEF Plugin!Next, Plugin!Result, Pair
  <1>2. CASE Plugin!Merge
    BY <1>2, MergeKeeps
  <1>3. ASSUME NEW q \in Pair, Plugin!MakeResult(q) PROVE Keeps(heap, heap', data', X)
    BY <1>3, MakeResultKeeps
  <1>4. ASSUME NEW q \in Pair, NEW level \in Level,
               Plugin!SetLevel(q, level) \/ Plugin!RaiseLevel(q, level)
        PROVE  Keeps(heap, heap', data', X)
    BY <1>4, LevelStepKeeps
  <1>5. ASSUME NEW q \in Pair, Plugin!SetSummary(q, 1) PROVE Keeps(heap, heap', data', X)
    BY <1>5, SummaryKeeps
  <1>6. ASSUME NEW q \in Pair,
               \/ Plugin!AddInformation(q)
               \/ \E name \in EntryName : Plugin!AddNamedInformation(q, name)
        PROVE  Keeps(heap, heap', data', X)
    BY <1>6, InformationKeeps
  <1> QED
    BY <1>1, <1>2, <1>3, <1>4, <1>5, <1>6, Zenon

-------------------------------------------------------------------------------
(* The inductive invariant: what the pointers point to, and the order of    *)
(* the phases.                                                              *)

Sound ==
    /\ heap \in Heap /\ Root \in DOMAIN heap
    /\ list \in {0} \cup DOMAIN heap /\ plugins \in {0} \cup DOMAIN heap
    /\ versions \in 0..Versions
    /\ todo \in Seq(Range(Categories))
    /\ list # 0 => todo # <<>>
    /\ MadeOf(data) # {} => plugins # 0
    /\ plugins # 0 => Dumped
    /\ Kept(heap, data, {})

\* There is no result.
None(da) == da \in [Pair -> {0}]

LEMMA NoneMade ==
    ASSUME NEW da, None(da)
    PROVE  MadeOf(da) = {}
  BY DEF None, MadeOf

\* Without results, only the tree of the others counts.
LEMMA NoneKept ==
    ASSUME NEW h \in Heap, NEW da, None(da), NEW X, NEW A, Good(h, A, X)
    PROVE  Kept(h, da, X)
  <1>1. MadeOf(da) = {}
    BY NoneMade
  <1>2. Wholes(h, da)
    BY DEF None, Wholes
  <1>3. X \cup MadeOf(da) = X /\ X \cap MadeOf(da) = {}
    BY <1>1
  <1>4. Good(h, A, X \cup MadeOf(da))
    BY <1>3
  <1> QED
    BY <1>2, <1>3, <1>4 DEF Kept

LEMMA EmptyIsGood ==
    ASSUME NEW h \in Heap
    PROVE  Good(h, {}, {})
  BY DEF Good, Tree, Closed, OnePlace, NoPlace, Distinct

LEMMA BeforePlugins ==
    ASSUME Sound, plugins = 0
    PROVE  None(data)
  <1>1. data \in [Pair -> {0} \cup DOMAIN heap] /\ MadeOf(data) = {}
    BY DEF Sound, Kept, Wholes
  <1>2. \A q \in Pair : data[q] = 0
    BY <1>1 DEF MadeOf
  <1> QED
    BY <1>1, <1>2 DEF None

\* A step before the plugins: the heap grows, and the rest follows.
LEMMA DumpKeeps ==
    ASSUME Sound, plugins = 0, data' = data, Grew(heap, heap')
    PROVE  /\ heap' \in Heap /\ Root \in DOMAIN heap' /\ DOMAIN heap \subseteq DOMAIN heap'
           /\ Kept(heap', data', {}) /\ MadeOf(data') = {}
  <1>1. heap' \in Heap /\ Root \in DOMAIN heap' /\ DOMAIN heap \subseteq DOMAIN heap'
    BY DEF Grew, Sound
  <1>2. PICK r \in Heap : r = heap'
    BY <1>1
  <1>3. None(data)
    BY BeforePlugins
  <1>4. Kept(r, data, {})
    BY <1>3, EmptyIsGood, NoneKept
  <1> QED
    BY <1>1, <1>2, <1>3, <1>4, NoneMade

LEMMA HeadIsBase ==
    ASSUME todo \in Seq(Range(Categories)), todo # <<>>
    PROVE  /\ Head(todo) \in Range(Categories) /\ Head(todo) \in Bases
           /\ Tail(todo) \in Seq(Range(Categories))
  BY HeadTailProperties DEF Bases

LEMMA DumpNames ==
    ASSUME NEW key \in EntryName \cup {Plain("Language")}
    PROVE  key \in Names /\ Unnumbered(key)
  <1>1. Plain("Language") \in Names /\ Unnumbered(Plain("Language"))
    BY KnownBases, PlainNames
  <1> QED
    BY <1>1, EntryNames

LEMMA SkipSound == ASSUME Sound, Skip PROVE Sound' /\ Grew(heap, heap')
  <1>1. plugins = 0 /\ MadeOf(data) = {}
    BY DEF Sound, Skip, Dumped
  <1>2. UNCHANGED <<heap, list, versions, plugins, data>> /\ todo' = Tail(todo) /\ list = 0
    BY DEF Skip, pluginVars
  <1>3. Tail(todo) \in Seq(Range(Categories))
    BY HeadIsBase DEF Skip, Sound
  <1>4. Kept(heap', data', {}) /\ MadeOf(data') = {}
    BY <1>1, <1>2 DEF Sound
  <1>5. Sound'
    BY <1>1, <1>2, <1>3, <1>4 DEF Sound
  <1> QED
    BY <1>2, <1>5, GrewItself DEF Sound

LEMMA BeginSound == ASSUME Sound, Begin PROVE Sound' /\ Grew(heap, heap')
  <1>1. plugins = 0
    BY DEF Sound, Begin, Dumped
  <1>2. UNCHANGED <<todo, versions, plugins, data>> /\ list' = Len(heap') /\ todo # <<>>
    BY DEF Begin, pluginVars
  <1>3. PICK name : name = Plain(Head(todo))
    OBVIOUS
  <1>4. name \in Names
    BY <1>2, <1>3, HeadIsBase, PlainNames DEF Sound
  <1>5. PICK r : r = NewNode(heap, name, 0)
    OBVIOUS
  <1>6. heap' = r
    BY <1>3, <1>5 DEF Begin
  <1>7. Grew(heap, r) /\ Len(r) \in DOMAIN r
    BY <1>4, <1>5, NewNodeGrows DEF Sound
  <1>8. /\ heap' \in Heap /\ Root \in DOMAIN heap' /\ DOMAIN heap \subseteq DOMAIN heap'
        /\ Kept(heap', data', {}) /\ MadeOf(data') = {} /\ list' \in DOMAIN heap'
    BY <1>1, <1>2, <1>6, <1>7, DumpKeeps
  <1>9. Sound'
    BY <1>1, <1>2, <1>8 DEF Sound
  <1> QED
    BY <1>6, <1>7, <1>9

LEMMA AddEntrySound == ASSUME Sound, NEW name \in EntryName, AddEntry(name) PROVE Sound' /\ Grew(heap, heap')
  <1>1. plugins = 0
    BY DEF Sound, AddEntry, Dumped
  <1>2. UNCHANGED <<todo, list, versions, plugins, data>>
    BY DEF AddEntry, pluginVars, dumpVars
  <1>3. name \in Names /\ list \in DOMAIN heap
    BY EntryNames DEF AddEntry, Sound
  <1>4. Grew(heap, heap')
    BY <1>3, AppendNewGrows DEF AddEntry, Sound
  <1>5. /\ heap' \in Heap /\ Root \in DOMAIN heap' /\ DOMAIN heap \subseteq DOMAIN heap'
        /\ Kept(heap', data', {}) /\ MadeOf(data') = {}
    BY <1>1, <1>2, <1>4, DumpKeeps
  <1>6. Sound'
    BY <1>1, <1>2, <1>5 DEF Sound
  <1> QED
    BY <1>4, <1>6

LEMMA EndSound == ASSUME Sound, End PROVE Sound' /\ Grew(heap, heap')
  <1>1. plugins = 0 /\ todo # <<>>
    BY DEF Sound, End, Dumped
  <1>2. UNCHANGED <<versions, plugins, data>> /\ list' = 0 /\ todo' = Tail(todo)
    BY DEF End, pluginVars
  <1>3. Grew(heap, heap')
    BY AddDataGrows DEF End, Sound
  <1>4. /\ heap' \in Heap /\ Root \in DOMAIN heap' /\ DOMAIN heap \subseteq DOMAIN heap'
        /\ Kept(heap', data', {}) /\ MadeOf(data') = {}
    BY <1>1, <1>2, <1>3, DumpKeeps
  <1>5. Tail(todo) \in Seq(Range(Categories))
    BY <1>1, HeadIsBase DEF Sound
  <1>6. Sound'
    BY <1>1, <1>2, <1>4, <1>5 DEF Sound
  <1> QED
    BY <1>3, <1>6

LEMMA VersionFailsSound == ASSUME Sound, VersionFails PROVE Sound' /\ Grew(heap, heap')
  <1>1. plugins = 0 /\ MadeOf(data) = {}
    BY DEF Sound, VersionFails, Dumped
  <1>2. UNCHANGED <<heap, todo, list, plugins, data>> /\ versions' = versions - 1 /\ versions > 0
    BY DEF VersionFails, pluginVars
  <1>3. PICK v \in 0..Versions : v = versions
    BY DEF Sound
  <1>4. versions' \in 0..Versions
    BY <1>2, <1>3, ReportAssumption
  <1>5. Kept(heap', data', {}) /\ MadeOf(data') = {}
    BY <1>1, <1>2 DEF Sound
  <1>6. Sound'
    BY <1>1, <1>2, <1>4, <1>5 DEF Sound
  <1> QED
    BY <1>2, <1>6, GrewItself DEF Sound

\* The heap while a version resource is dumped.
LEMMA VersionGrows ==
    ASSUME NEW h \in Heap, Root \in DOMAIN h, NEW node \in DOMAIN h,
           NEW key \in Names, NEW string \in Names,
           NEW lang, lang = AppendNew(h, node, Plain(LangID), 0),
           NEW keys, keys = NewNode(lang, key, 0),
           NEW some, some = AppendNew(keys, Len(keys), Plain("Language"), 0),
           NEW vals, vals = AppendNew(some, Len(keys), string, 0),
           NEW full, full = AppendNode(vals, node, Len(keys))
    PROVE  Grew(h, AddData(full, node))
  <1>1. Plain(LangID) \in Names /\ Plain("Language") \in Names
    BY KnownBases, PlainNames
  <1>2. Grew(h, lang)
    BY <1>1, AppendNewGrows
  <1>3. Grew(lang, keys) /\ Len(keys) \in DOMAIN keys
    BY <1>2, NewNodeGrows DEF Grew
  <1>4. Grew(keys, some)
    BY <1>1, <1>3, AppendNewGrows DEF Grew
  <1>5. Grew(some, vals)
    BY <1>3, <1>4, AppendNewGrows DEF Grew
  <1>6. Grew(vals, full)
    BY <1>2, <1>3, <1>4, <1>5, AppendNodeGrows DEF Grew
  <1>7. Grew(h, full)
    BY <1>2, <1>3, <1>4, <1>5, <1>6, GrewTransitive
  <1>8. Grew(full, AddData(full, node))
    BY <1>7, AddDataGrows DEF Grew
  <1> QED
    BY <1>7, <1>8, GrewTransitive

LEMMA DumpVersionSound ==
    ASSUME Sound, NEW key \in EntryName \cup {Plain("Language")},
           NEW string \in EntryName \cup {Plain("Language")}, DumpVersion(key, string)
    PROVE  Sound' /\ Grew(heap, heap')
  <1>1. plugins = 0
    BY DEF Sound, DumpVersion, Dumped
  <1>2. UNCHANGED <<todo, list, plugins, data>> /\ versions' = versions - 1 /\ versions > 0
    BY DEF DumpVersion, pluginVars
  <1>3. PICK existing : existing = FindInFile(Plain(VersionInfo))
    OBVIOUS
  <1>4. PICK h : h = IF existing # 0 THEN heap ELSE NewNode(heap, Plain(VersionInfo), 0)
    OBVIOUS
  <1>5. PICK node : node = IF existing # 0 THEN existing ELSE Len(h)
    OBVIOUS
  <1>6. Grew(heap, h) /\ node \in DOMAIN h
    <2>1. CASE existing = 0
      <3>1. Plain(VersionInfo) \in Names
        BY KnownBases, PlainNames
      <3> QED
        BY <1>4, <1>5, <2>1, <3>1, NewNodeGrows DEF Sound
    <2>2. CASE existing # 0
      <3>1. PICK file : file = FindNode(heap, Root, Path)
        OBVIOUS
      <3>2. file # 0 /\ existing = FindNode(heap, file, Plain(VersionInfo))
        BY <1>3, <2>2, <3>1 DEF FindInFile
      <3>3. file \in DOMAIN heap
        BY <3>1, <3>2, FindNodeFacts DEF Sound
      <3>4. existing \in DOMAIN heap
        BY <2>2, <3>2, <3>3, FindNodeFacts DEF Sound
      <3> QED
        BY <1>4, <1>5, <2>2, <3>4, GrewItself DEF Sound
    <2> QED
      BY <2>1, <2>2
  <1>7. h \in Heap /\ Root \in DOMAIN h /\ key \in Names /\ string \in Names
    BY <1>6, DumpNames DEF Grew, Sound
  <1>8. PICK lang : lang = AppendNew(h, node, Plain(LangID), 0)
    OBVIOUS
  <1>9. PICK keys : keys = NewNode(lang, key, 0)
    OBVIOUS
  <1>10. PICK some : some = AppendNew(keys, Len(keys), Plain("Language"), 0)
    OBVIOUS
  <1>11. PICK vals : vals = AppendNew(some, Len(keys), string, 0)
    OBVIOUS
  <1>12. PICK full : full = AppendNode(vals, node, Len(keys))
    OBVIOUS
  <1>13. heap' = AddData(full, node)
    BY <1>3, <1>4, <1>5, <1>8, <1>9, <1>10, <1>11, <1>12, Zenon DEF DumpVersion
  <1>14. Grew(h, AddData(full, node))
    BY <1>6, <1>7, <1>8, <1>9, <1>10, <1>11, <1>12, VersionGrows
  <1>15. Grew(heap, heap')
    BY <1>6, <1>13, <1>14, GrewTransitive
  <1>16. /\ heap' \in Heap /\ Root \in DOMAIN heap' /\ DOMAIN heap \subseteq DOMAIN heap'
         /\ Kept(heap', data', {}) /\ MadeOf(data') = {}
    BY <1>1, <1>2, <1>15, DumpKeeps
  <1>17. PICK v \in 0..Versions : v = versions
    BY DEF Sound
  <1>18. versions' \in 0..Versions
    BY <1>2, <1>17, ReportAssumption
  <1>19. Sound'
    BY <1>1, <1>2, <1>16, <1>18 DEF Sound
  <1> QED
    BY <1>15, <1>19

LEMMA StartPluginsSound == ASSUME Sound, StartPlugins PROVE Sound' /\ Grew(heap, heap')
  <1>1. plugins = 0 /\ Dumped
    BY DEF StartPlugins
  <1>2. UNCHANGED <<todo, list, versions, data>> /\ plugins' = Len(heap')
    BY DEF StartPlugins, dumpVars
  <1>3. Plain("Plugins") \in Names
    BY KnownBases, PlainNames
  <1>4. PICK r : r = NewNode(heap, Plain("Plugins"), 0)
    OBVIOUS
  <1>5. heap' = r
    BY <1>4 DEF StartPlugins
  <1>6. Grew(heap, r) /\ Len(r) \in DOMAIN r
    BY <1>3, <1>4, NewNodeGrows DEF Sound
  <1>7. /\ heap' \in Heap /\ Root \in DOMAIN heap' /\ DOMAIN heap \subseteq DOMAIN heap'
        /\ Kept(heap', data', {}) /\ MadeOf(data') = {} /\ plugins' \in DOMAIN heap'
    BY <1>1, <1>2, <1>5, <1>6, DumpKeeps
  <1>8. Sound'
    BY <1>1, <1>2, <1>7 DEF Sound, Dumped
  <1> QED
    BY <1>5, <1>6, <1>8

LEMMA PluginStepSound == ASSUME Sound, PluginStep PROVE Sound' /\ Grew(heap, heap')
  <1>1. UNCHANGED <<todo, list, versions, plugins>> /\ plugins # 0 /\ Plugin!Next
    BY DEF PluginStep, dumpVars
  <1>2. Kept(heap', data', {}) /\ Grew(heap, heap')
    BY <1>1, PluginKeeps DEF Sound, Keeps
  <1>3. Sound'
    BY <1>1, <1>2 DEF Sound, Dumped, Grew
  <1> QED
    BY <1>2, <1>3

\* The results are dropped.
LEMMA ResultsDropped ==
    ASSUME data \in [Pair -> {0} \cup DOMAIN heap],
           data' = [q \in DOMAIN data |-> 0]
    PROVE  None(data')
  BY DEF None

LEMMA EndPluginsSound ==
    ASSUME Sound, NEW r \in DOMAIN data, EndPlugins(r)
    PROVE  Sound' /\ Grew(heap, heap')
  <1>1. UNCHANGED <<todo, list, versions>> /\ plugins' = 0
    BY DEF EndPlugins, dumpVars
  <1>2. data \in [Pair -> {0} \cup DOMAIN heap]
    BY DEF Sound, Kept, Wholes
  <1>3. data[r] \in DOMAIN heap /\ plugins \in DOMAIN heap /\ heap \in Heap /\ Root \in DOMAIN heap
    BY <1>2 DEF Sound, EndPlugins
  <1>4. PICK g : g = IF heap[Plugin!Information(r)].kids = <<>> THEN heap
                     ELSE AppendNode(heap, plugins, data[r])
    OBVIOUS
  <1>5. heap' = AddData(g, plugins)
    BY <1>4 DEF EndPlugins
  <1>6. Grew(heap, g)
    <2>1. Grew(heap, heap) /\ Grew(heap, AppendNode(heap, plugins, data[r]))
      BY <1>3, AppendNodeGrows, GrewItself
    <2> QED
      BY <1>4, <2>1
  <1>7. Grew(g, heap')
    BY <1>3, <1>5, <1>6, AddDataGrows DEF Grew
  <1>8. Grew(heap, heap')
    BY <1>6, <1>7, GrewTransitive
  <1>9. None(data')
    BY <1>2, ResultsDropped DEF EndPlugins
  <1>10. PICK s, d : s = heap' /\ d = data'
    OBVIOUS
  <1>11. s \in Heap /\ None(d)
    BY <1>8, <1>9, <1>10 DEF Grew
  <1>12. Kept(s, d, {}) /\ MadeOf(d) = {}
    BY <1>11, EmptyIsGood, NoneKept, NoneMade
  <1>13. Sound'
    BY <1>1, <1>8, <1>10, <1>12 DEF Sound, Grew
  <1> QED
    BY <1>8, <1>13

LEMMA InitSound == ASSUME Init PROVE Sound
  <1>1. <<>> \in Heap
    BY EmptySeq DEF Heap
  <1>2. PICK h : h = NewNode(<<>>, Plain("root"), 0)
    OBVIOUS
  <1>3. IsNew(<<>>, h, Plain("root"), Len(h))
    BY <1>1, <1>2, KnownBases, PlainNames, NewNodeFacts
  <1>4. Len(h) = 1
    BY <1>2 DEF NewNode
  <1>5. heap = h /\ h \in Heap /\ Root \in DOMAIN h
    BY <1>2, <1>3, <1>4 DEF Init, IsNew, Root
  <1>6. data = [q \in Pair |-> 0]
    BY DEF Init, Plugin!Init, Plugin!Result, Pair
  <1>7. None(data)
    BY <1>6 DEF None
  <1>8. Kept(h, data, {}) /\ MadeOf(data) = {}
    BY <1>5, <1>7, EmptyIsGood, NoneKept, NoneMade
  <1>9. todo \in Seq(Range(Categories))
    <2>1. PICK c \in Seq(STRING) : c = Categories
      BY ReportAssumption
    <2>2. c \in Seq(Range(c))
      BY DEF Range
    <2> QED
      BY <2>1, <2>2 DEF Init
  <1>10. versions \in 0..Versions /\ list = 0 /\ plugins = 0
    BY ReportAssumption DEF Init
  <1> QED
    BY <1>5, <1>8, <1>9, <1>10 DEF Sound

LEMMA NextSound == ASSUME Sound, [Next]_vars PROVE Sound' /\ Grew(heap, heap')
  <1>1. CASE UNCHANGED vars
    <2>1. heap' = heap /\ Sound'
      BY <1>1 DEF Sound, Dumped, vars, dumpVars, pluginVars
    <2> QED
      BY <2>1, GrewItself DEF Sound
  <1>2. CASE Next
    BY <1>2, SkipSound, BeginSound, EndSound, VersionFailsSound, StartPluginsSound,
       PluginStepSound, AddEntrySound, DumpVersionSound, EndPluginsSound, Zenon DEF Next
  <1> QED
    BY <1>1, <1>2

LEMMA AlwaysSound == Spec => []Sound
  <1>1. Init => Sound
    BY InitSound
  <1>2. Sound /\ [Next]_vars => Sound'
    BY NextSound
  <1> QED
    BY <1>1, <1>2, PTL DEF Spec

\* The tree of the report never has a list with a child that is not a node of
\* the heap, whatever the file and the plugin add and in whatever order: every
\* pointer dump.cpp, result.cpp and main.cpp keep is null or one of a node that
\* was made, and no version resource is dumped past the last one
\* (dump.cpp, dump_version_info; output_tree_node.cpp, append).
THEOREM ReportIsTyped == Spec => []TypeOK
  <1>1. Sound => TypeOK
    <2> SUFFICES ASSUME Sound PROVE TypeOK
      OBVIOUS
    <2>1. /\ heap \in Heap
          /\ \A n \in DOMAIN heap : Range(heap[n].kids) \subseteq DOMAIN heap
      BY DEF Sound, Heap
    <2>2. {0} \cup DOMAIN heap = 0..Len(heap)
      BY <2>1 DEF Heap
    <2>3. data \in [Pair -> {0} \cup DOMAIN heap]
      BY DEF Sound, Kept, Wholes
    <2>4. {list, plugins} \subseteq {0} \cup DOMAIN heap /\ versions \in 0..Versions
      BY DEF Sound
    <2> QED
      BY <2>1, <2>2, <2>3, <2>4 DEF TypeOK
  <1> QED
    BY <1>1, AlwaysSound, PTL

\* Where the children of a result have a name, by its base.
NamedAt(h, d, base) == {k \in DOMAIN Kids(h, d) : NameIn(h, Kids(h, d)[k]).base = base}

LEMMA WholeCounts ==
    ASSUME NEW h \in Heap, NEW d \in DOMAIN h, Whole(h, d)
    PROVE  /\ NamedAt(h, d, "level") = {1} /\ NamedAt(h, d, "plugin_output") = {2}
           /\ NamedAt(h, d, "summary") = {} \/ NamedAt(h, d, "summary") = {3}
  <1>0. PICK s : s = Kids(h, d)
    OBVIOUS
  <1>1. s \in Seq(Nat) /\ Len(s) \in {2, 3}
    BY <1>0, HeapNodes DEF Whole
  <1>2. DOMAIN s = IF Len(s) = 2 THEN {1, 2} ELSE {1, 2, 3}
    BY <1>1
  <1>3. NameIn(h, s[1]).base = "level" /\ NameIn(h, s[2]).base = "plugin_output"
    BY <1>0, ResultNames DEF Whole
  <1>4. Len(s) = 3 => NameIn(h, s[3]).base = "summary"
    BY <1>0, ResultNames DEF Whole
  <1> QED
    BY <1>0, <1>1, <1>2, <1>3, <1>4 DEF NamedAt

\* A result of a plugin always has one level, one list of information and at
\* most one summary, whatever names the plugin gives to its information and
\* even after a merge: the branches of result.cpp that handle a result without
\* a level or a list of information are never taken (result.cpp:34-41, 50,
\* 99-105, 125-132).
THEOREM ResultsAreWhole == Spec => []OneOfEach
  <1>1. Sound => OneOfEach
    <2> SUFFICES ASSUME Sound, NEW r \in Pair, data[r] # 0
                 PROVE  /\ Plugin!Count(r, "level") = 1
                        /\ Plugin!Count(r, "plugin_output") = 1
                        /\ Plugin!Count(r, "summary") <= 1
      BY Zenon DEF OneOfEach, Plugin!OneOfEach, Plugin!Result, Plugin!Made, Pair
    <2>1. heap \in Heap /\ data[r] \in DOMAIN heap /\ Whole(heap, data[r])
      BY DEF Sound, Kept, Wholes
    <2>2. PICK at : at = [base \in {"level", "plugin_output", "summary"} |->
                              NamedAt(heap, data[r], base)]
      OBVIOUS
    <2>3. \A base \in {"level", "plugin_output", "summary"} :
              Plugin!Count(r, base) = Cardinality(at[base])
      <3>1. \A S : Plugin!Cardinality(S) = Cardinality(S)
        BY DEF Cardinality, Plugin!Cardinality
      <3> QED
        BY <2>2, <3>1, Zenon DEF Plugin!Count, NamedAt, Kids, NameIn
    <2>4. /\ at["level"] = {1} /\ at["plugin_output"] = {2}
          /\ at["summary"] = {} \/ at["summary"] = {3}
      BY <2>1, <2>2, WholeCounts
    <2>5. Cardinality({1}) = 1 /\ Cardinality({2}) = 1 /\ Cardinality({3}) = 1
      BY FS_Singleton, Zenon
    <2>6. Cardinality({}) = 0
      BY FS_EmptySet, Zenon
    <2>7. Cardinality(at["summary"]) \in {0, 1}
      BY <2>4, <2>5, <2>6, Zenon
    <2>8. \A c \in {0, 1} : c <= 1
      OBVIOUS
    <2> QED
      BY <2>3, <2>4, <2>5, <2>7, <2>8
  <1> QED
    BY <1>1, AlwaysSound, PTL
-------------------------------------------------------------------------------
(* The report is a tree when the file has one version resource at most: the *)
(* nodes without a place are the root, the list and plugins_node under      *)
(* construction, and the results.                                           *)

Others == {Root, list, plugins} \ {0}

VersionName == Plain(VersionInfo)

Rooted ==
    /\ Kept(heap, data, Others)
    /\ list # Root /\ plugins # Root
    /\ list # 0 => NameIn(heap, list).base \in Range(Categories)
    /\ versions > 0 => Fresh(heap, VersionName)

\* Without results, the nodes without a place are the others.
LEMMA NoneGood ==
    ASSUME NEW h, NEW da, None(da), NEW X, Kept(h, da, X)
    PROVE  \E A : Good(h, A, X)
  <1>1. MadeOf(da) = {}
    BY NoneMade
  <1>2. X \cup MadeOf(da) = X
    BY <1>1
  <1> QED
    BY <1>2 DEF Kept

\* A new node outside the report does not change what is in it.
LEMMA FreshNew ==
    ASSUME NEW h \in Heap, Root \in DOMAIN h, NEW r, NEW name, NEW new, IsNew(h, r, name, new),
           NEW what, Fresh(h, what)
    PROVE  Fresh(r, what)
  <1>1. \A p \in DOMAIN h : Agrees(h, r, p)
    BY HeapNodes DEF Agrees, IsNew
  <1>2. PICK file : file = FindNode(h, Root, Path)
    OBVIOUS
  <1>3. file # 0 => file \in DOMAIN h
    BY <1>2, FindNodeFacts
  <1> QED
    BY <1>1, <1>2, <1>3, FreshAgrees

\* Nor does a new node in a list that has no place.
LEMMA FreshAppendNew ==
    ASSUME NEW h, NEW A, NEW T, Good(h, A, T), Root \in T, NEW parent \in T, parent # Root,
           NEW r, NEW name, NEW new, IsAppendedNew(h, r, parent, name, new),
           NEW what, Fresh(h, what)
    PROVE  Fresh(r, what)
  <1>1. h \in Heap /\ T \subseteq DOMAIN h /\ A \subseteq DOMAIN h /\ Root \in A
    BY DEF Good, Tree
  <1>2. \A p \in DOMAIN h \ {parent} : Agrees(h, r, p)
    BY <1>1, HeapNodes DEF Agrees, IsAppendedNew
  <1>3. PICK file : file = FindNode(h, Root, Path)
    OBVIOUS
  <1>4. file # 0 => file \in A \ T
    BY <1>1, <1>3, FoundInTree
  <1> QED
    BY <1>1, <1>2, <1>3, <1>4, FreshAgrees

LEMMA SkipRooted == ASSUME Rooted, Skip PROVE Rooted'
  BY DEF Rooted, Others, Skip, pluginVars

LEMMA VersionFailsRooted == ASSUME Sound, Rooted, VersionFails PROVE Rooted'
  <1>1. UNCHANGED <<heap, list, plugins, data>> /\ versions > 0
    BY DEF VersionFails, pluginVars
  <1> QED
    BY <1>1 DEF Rooted, Others

LEMMA BeginRooted == ASSUME Sound, Rooted, Begin PROVE Rooted'
  <1>1. plugins = 0 /\ list = 0 /\ todo # <<>> /\ heap \in Heap /\ Root \in DOMAIN heap
    BY DEF Sound, Begin, Dumped
  <1>2. UNCHANGED <<versions, plugins, data>> /\ list' = Len(heap')
    BY DEF Begin, pluginVars
  <1>3. None(data) /\ Others = {Root}
    BY <1>1, BeforePlugins DEF Others, Root
  <1>4. PICK A : Good(heap, A, {Root})
    BY <1>3, NoneGood DEF Rooted
  <1>5. PICK name : name = Plain(Head(todo))
    OBVIOUS
  <1>6. name \in Names /\ Unnumbered(name) /\ name.base \in Range(Categories)
    BY <1>1, <1>5, HeadIsBase, PlainNames DEF Sound
  <1>7. PICK r : r = NewNode(heap, name, 0)
    OBVIOUS
  <1>8. PICK new : new = Len(r)
    OBVIOUS
  <1>9. IsNew(heap, r, name, new)
    BY <1>1, <1>6, <1>7, <1>8, NewNodeFacts
  <1>10. heap' = r /\ list' = new
    BY <1>2, <1>5, <1>7, <1>8 DEF Begin
  <1>11. new # Root /\ new # 0 /\ r \in Heap /\ NameIn(r, new).base \in Range(Categories)
    BY <1>1, <1>6, <1>9 DEF IsNew, Heap
  <1>12. Good(r, A \cup {new}, {Root} \cup {new})
    BY <1>4, <1>6, <1>9, GoodNew
  <1>13. Kept(r, data, {Root} \cup {new})
    BY <1>3, <1>11, <1>12, NoneKept
  <1>14. Others' = {Root} \cup {new}
    BY <1>1, <1>2, <1>10, <1>11 DEF Others, Root
  <1>15. versions > 0 => Fresh(r, VersionName)
    BY <1>1, <1>9, FreshNew DEF Rooted
  <1> QED
    BY <1>1, <1>2, <1>10, <1>11, <1>13, <1>14, <1>15 DEF Rooted, Root

LEMMA AddEntryRooted ==
    ASSUME Sound, Rooted, NEW name \in EntryName, AddEntry(name)
    PROVE  Rooted'
  <1>1. plugins = 0 /\ list \in DOMAIN heap /\ heap \in Heap /\ Root \in DOMAIN heap /\ list # 0
    BY DEF Sound, AddEntry, Dumped
  <1>2. UNCHANGED <<list, versions, plugins, data>>
    BY DEF AddEntry, pluginVars, dumpVars
  <1>3. None(data)
    BY <1>1, BeforePlugins
  <1>4. PICK X : X = Others
    OBVIOUS
  <1>5. Root \in X /\ list \in X /\ list # Root
    BY <1>1, <1>4 DEF Others, Root, Rooted
  <1>6. PICK A : Good(heap, A, X)
    BY <1>3, <1>4, NoneGood DEF Rooted
  <1>7. PICK r : r = AppendNew(heap, list, name, 0)
    OBVIOUS
  <1>8. list \in A /\ name \in Names /\ Unnumbered(name)
    BY <1>5, <1>6, EntryNames DEF Good, Tree
  <1>9. PICK new : new = Len(r)
    OBVIOUS
  <1>10. Good(r, A \cup {new}, X) /\ IsAppendedNew(heap, r, list, name, new)
    BY <1>6, <1>7, <1>8, <1>9, GoodAppendNew
  <1>11. r \in Heap /\ NameIn(r, list) = NameIn(heap, list)
    BY <1>1, <1>10 DEF IsAppendedNew
  <1>12. Kept(r, data, X)
    BY <1>3, <1>10, <1>11, NoneKept
  <1>13. versions > 0 => Fresh(r, VersionName)
    BY <1>5, <1>6, <1>10, FreshAppendNew DEF Rooted
  <1>14. heap' = r /\ Others' = X
    BY <1>2, <1>4, <1>7 DEF AddEntry, Others
  <1> QED
    BY <1>2, <1>11, <1>12, <1>13, <1>14 DEF Rooted

LEMMA EndRooted == ASSUME Sound, Rooted, End PROVE Rooted'
  <1>1. plugins = 0 /\ list \in DOMAIN heap /\ heap \in Heap /\ Root \in DOMAIN heap /\ list # 0
    BY DEF Sound, End, Dumped
  <1>2. UNCHANGED <<versions, plugins, data>> /\ list' = 0
    BY DEF End, pluginVars
  <1>3. None(data) /\ list # Root
    BY <1>1, BeforePlugins DEF Rooted
  <1>4. PICK X : X = Others
    OBVIOUS
  <1>5. X = {Root, list} /\ X \ {list} = {Root}
    BY <1>1, <1>3, <1>4 DEF Others, Root
  <1>6. PICK A : Good(heap, A, X)
    BY <1>3, <1>4, NoneGood DEF Rooted
  <1>7. PICK r : r = AddData(heap, list)
    OBVIOUS
  <1>8. PICK B : Good(r, B, X \ {list})
    BY <1>3, <1>5, <1>6, <1>7, GoodAddData
  <1>9. NameIn(heap, list).base # VersionName.base
    BY <1>1, ReportAssumption DEF Rooted, VersionName, Plain
  <1>10. versions > 0 => Fresh(r, VersionName)
    <2>1. Root \in X /\ list \in X
      BY <1>5
    <2>2. \A name : NameIn(heap, list).base # name.base /\ Fresh(heap, name) => Fresh(r, name)
      BY <1>3, <1>6, <1>7, <2>1, GoodAddData, Zenon
    <2>3. versions > 0 => Fresh(heap, VersionName)
      BY DEF Rooted
    <2> QED
      BY <1>9, <2>2, <2>3, Zenon
  <1>11. r \in Heap
    BY <1>8 DEF Good, Tree
  <1>12. Kept(r, data, {Root})
    BY <1>3, <1>5, <1>8, <1>11, NoneKept
  <1>13. heap' = r /\ Others' = {Root}
    BY <1>1, <1>2, <1>7 DEF End, Others, Root
  <1> QED
    BY <1>1, <1>2, <1>10, <1>12, <1>13 DEF Rooted, Root
\* The heap once the only version resource of a file is dumped.
WithVersion(h, key, string) ==
    LET with == NewNode(h, VersionName, 0)
        node == Len(with)
        lang == AppendNew(with, node, Plain(LangID), 0)
        keys == NewNode(lang, key, 0)
        top  == Len(keys)
        some == AppendNew(keys, top, Plain("Language"), 0)
        vals == AppendNew(some, top, string, 0)
    IN  AddData(AppendNode(vals, node, top), node)

LEMMA VersionIsGood ==
    ASSUME NEW h \in Heap, NEW A, Good(h, A, {Root}), NEW key \in Names, NEW string \in Names,
           Unnumbered(key) /\ Unnumbered(string)
    PROVE  \E B : Good(WithVersion(h, key, string), B, {Root})
  <1>1. PICK with : with = NewNode(h, VersionName, 0)
    OBVIOUS
  <1>2. PICK node : node = Len(with)
    OBVIOUS
  <1>3. PICK lang : lang = AppendNew(with, node, Plain(LangID), 0)
    OBVIOUS
  <1>4. PICK keys : keys = NewNode(lang, key, 0)
    OBVIOUS
  <1>5. PICK top : top = Len(keys)
    OBVIOUS
  <1>6. PICK some : some = AppendNew(keys, top, Plain("Language"), 0)
    OBVIOUS
  <1>7. PICK vals : vals = AppendNew(some, top, string, 0)
    OBVIOUS
  <1>8. PICK full : full = AppendNode(vals, node, top)
    OBVIOUS
  <1>9. WithVersion(h, key, string) = AddData(full, node)
    BY <1>1, <1>2, <1>3, <1>4, <1>5, <1>6, <1>7, <1>8, Zenon DEF WithVersion
  <1>10. /\ Plain(LangID) \in Names /\ Plain("Language") \in Names /\ VersionName \in Names
        /\ Unnumbered(Plain(LangID)) /\ Unnumbered(Plain("Language")) /\ Unnumbered(VersionName)
    BY KnownBases, PlainNames DEF VersionName
  <1>11. IsNew(h, with, VersionName, node)
    BY <1>10, <1>1, <1>2, NewNodeFacts
  <1>12. Good(with, A \cup {node}, {Root} \cup {node}) /\ node \notin A
    BY <1>10, <1>11, GoodNew
  <1>13. PICK A1, T1 : A1 = A \cup {node} /\ T1 = {Root} \cup {node}
    OBVIOUS
  <1>14. Good(with, A1, T1) /\ node \in A1 /\ node \in T1 /\ Root \in T1 /\ Root \in A
    BY <1>12, <1>13 DEF Good, Tree
  <1>15. PICK A2 : A2 = A1 \cup {Len(lang)}
    OBVIOUS
  <1>16. Good(lang, A2, T1) /\ node \in A2
    BY <1>10, <1>14, <1>15, <1>3, GoodAppendNew
  <1>17. lang \in Heap
    BY <1>16 DEF Good, Tree
  <1>18. IsNew(lang, keys, key, top)
    BY <1>17, <1>4, <1>5, NewNodeFacts
  <1>19. PICK A3, T2 : A3 = A2 \cup {top} /\ T2 = T1 \cup {top}
    OBVIOUS
  <1>20. Good(keys, A3, T2) /\ top \in A3 /\ node \in A3 /\ top # node
    BY <1>16, <1>18, <1>19, GoodNew
  <1>21. PICK A4 : A4 = A3 \cup {Len(some)}
    OBVIOUS
  <1>22. Good(some, A4, T2) /\ top \in A4 /\ node \in A4
    BY <1>10, <1>20, <1>21, <1>6, GoodAppendNew
  <1>23. PICK A5 : A5 = A4 \cup {Len(vals)}
    OBVIOUS
  <1>24. Good(vals, A5, T2) /\ node \in A5
    BY <1>22, <1>23, <1>7, GoodAppendNew
  <1>25. top \in T2
    BY <1>19
  <1>26. Good(full, A5, T2 \ {top})
    BY <1>20, <1>24, <1>25, <1>8, GoodAppend
  <1>27. T1 \subseteq T2 \ {top}
    <2>1. top \notin A2
      BY <1>16, <1>18, GoodNew
    <2> QED
      BY <1>16, <1>19, <2>1 DEF Good, Tree
  <1>28. Good(full, A5, T1)
    BY <1>26, <1>27, GoodFewer
  <1>29. node # Root /\ T1 \ {node} = {Root}
    BY <1>12, <1>13, <1>14
  <1>30. \E B : A5 \subseteq B /\ Good(AddData(full, node), B, T1 \ {node})
    BY <1>14, <1>28, <1>29, GoodAddData, Zenon
  <1> QED
    BY <1>29, <1>30, <1>9

LEMMA DumpVersionRooted ==
    ASSUME Sound, Rooted, Versions <= 1, NEW key \in EntryName \cup {Plain("Language")},
           NEW string \in EntryName \cup {Plain("Language")}, DumpVersion(key, string)
    PROVE  Rooted'
  <1>1. /\ plugins = 0 /\ list = 0 /\ heap \in Heap /\ Root \in DOMAIN heap
        /\ versions > 0 /\ versions' = versions - 1
    BY DEF Sound, DumpVersion, Dumped
  <1>2. UNCHANGED <<list, plugins, data>>
    BY DEF DumpVersion, pluginVars
  <1>3. versions' = 0
    <2>1. PICK v \in 0..Versions : v = versions
      BY DEF Sound
    <2> QED
      BY <1>1, <2>1, ReportAssumption
  <1>4. None(data) /\ Others = {Root} /\ Others' = {Root}
    BY <1>1, <1>2, BeforePlugins DEF Others, Root
  <1>5. PICK A : Good(heap, A, {Root})
    BY <1>4, NoneGood DEF Rooted
  <1>6. FindInFile(VersionName) = 0
    <2>1. PICK file : file = FindNode(heap, Root, Path)
      OBVIOUS
    <2>2. CASE file = 0
      BY <2>1, <2>2 DEF FindInFile
    <2>3. CASE file # 0
      <3>1. file \in DOMAIN heap
        BY <1>1, <2>1, <2>3, FindNodeFacts
      <3>2. ~KidsHave(heap, file, VersionName)
        BY <1>1, <2>1, <2>3 DEF Rooted, Fresh
      <3>3. FindNode(heap, file, VersionName) = 0
        BY <1>1, <3>1, <3>2, FindNodeFacts
      <3> QED
        BY <2>1, <2>3, <3>3 DEF FindInFile
    <2> QED
      BY <2>2, <2>3
  <1>7. heap' = WithVersion(heap, key, string)
    BY <1>6, Zenon DEF DumpVersion, VersionName, WithVersion
  <1>8. key \in Names /\ string \in Names /\ Unnumbered(key) /\ Unnumbered(string)
    BY DumpNames
  <1>9. \E B : Good(WithVersion(heap, key, string), B, {Root})
    BY <1>1, <1>5, <1>8, VersionIsGood
  <1>10. PICK r, B : r = heap' /\ Good(r, B, {Root})
    BY <1>7, <1>9
  <1>11. r \in Heap
    BY <1>10 DEF Good, Tree
  <1>12. Kept(r, data, {Root})
    BY <1>4, <1>10, <1>11, NoneKept
  <1> QED
    BY <1>1, <1>2, <1>3, <1>4, <1>10, <1>12 DEF Rooted, Root

LEMMA StartPluginsRooted == ASSUME Sound, Rooted, StartPlugins PROVE Rooted'
  <1>1. /\ plugins = 0 /\ list = 0 /\ versions = 0 /\ heap \in Heap /\ Root \in DOMAIN heap
        /\ UNCHANGED <<list, versions, data>> /\ plugins' = Len(heap')
    BY DEF Sound, StartPlugins, Dumped, dumpVars
  <1>2. None(data) /\ Others = {Root}
    BY <1>1, BeforePlugins DEF Others, Root
  <1>3. PICK A : Good(heap, A, {Root})
    BY <1>2, NoneGood DEF Rooted
  <1>4. Plain("Plugins") \in Names /\ Unnumbered(Plain("Plugins"))
    BY KnownBases, PlainNames
  <1>5. PICK r : r = NewNode(heap, Plain("Plugins"), 0)
    OBVIOUS
  <1>6. PICK new : new = Len(r)
    OBVIOUS
  <1>7. IsNew(heap, r, Plain("Plugins"), new)
    BY <1>1, <1>4, <1>5, <1>6, NewNodeFacts
  <1>8. heap' = r /\ plugins' = new
    BY <1>1, <1>5, <1>6 DEF StartPlugins
  <1>9. new # Root /\ new # 0 /\ r \in Heap
    BY <1>1, <1>7 DEF IsNew, Heap
  <1>10. Good(r, A \cup {new}, {Root} \cup {new})
    BY <1>3, <1>4, <1>7, GoodNew
  <1>11. Kept(r, data, {Root} \cup {new})
    BY <1>2, <1>9, <1>10, NoneKept
  <1>12. Others' = {Root} \cup {new}
    BY <1>1, <1>8, <1>9 DEF Others, Root
  <1>13. Kept(heap', data', Others')
    BY <1>1, <1>8, <1>11, <1>12
  <1> QED
    BY <1>1, <1>8, <1>9, <1>13 DEF Rooted, Root

LEMMA PluginStepRooted == ASSUME Sound, Rooted, PluginStep PROVE Rooted'
  <1>1. UNCHANGED <<list, versions, plugins>> /\ plugins # 0 /\ Plugin!Next
    BY DEF PluginStep, dumpVars
  <1>2. list = 0 /\ versions = 0 /\ heap \in Heap
    BY <1>1 DEF Sound, Dumped
  <1>3. PICK X : X = Others
    OBVIOUS
  <1>4. Kept(heap', data', X)
    BY <1>1, <1>2, <1>3, PluginKeeps DEF Rooted, Keeps
  <1>5. Others' = X
    BY <1>1, <1>3 DEF Others
  <1> QED
    BY <1>1, <1>2, <1>4, <1>5 DEF Rooted

LEMMA EndPluginsRooted ==
    ASSUME Sound, Rooted, NEW r \in DOMAIN data, EndPlugins(r)
    PROVE  Rooted'
  <1>1. /\ UNCHANGED <<list, versions>> /\ plugins' = 0 /\ plugins # 0 /\ data[r] # 0
        /\ list = 0 /\ versions = 0 /\ heap \in Heap
    BY DEF EndPlugins, dumpVars, Sound, Dumped
  <1>2. data \in [Pair -> {0} \cup DOMAIN heap]
    BY DEF Sound, Kept, Wholes
  <1>3. PICK X : X = Others
    OBVIOUS
  <1>4. X = {Root, plugins} /\ plugins # Root /\ Others' = {Root} /\ X \ {plugins} = {Root}
    BY <1>1, <1>3 DEF Others, Root, Rooted
  <1>5. X \cap MadeOf(data) = {} /\ data[r] \in MadeOf(data)
    BY <1>1, <1>2, <1>3 DEF Rooted, Kept, MadeOf
  <1>6. PICK T : T = X \cup MadeOf(data)
    OBVIOUS
  <1>7. PICK A : Good(heap, A, T)
    BY <1>3, <1>6 DEF Rooted, Kept
  <1>8. plugins \in A /\ data[r] \in T /\ plugins # data[r]
    BY <1>4, <1>5, <1>6, <1>7 DEF Good, Tree
  <1>9. PICK g : g = IF heap[Plugin!Information(r)].kids = <<>> THEN heap
                     ELSE AppendNode(heap, plugins, data[r])
    OBVIOUS
  <1>10. Good(g, A, X)
    <2>1. Good(AppendNode(heap, plugins, data[r]), A, T \ {data[r]})
      BY <1>7, <1>8, GoodAppend
    <2>2. X \subseteq T /\ X \subseteq T \ {data[r]}
      BY <1>5, <1>6
    <2>3. Good(heap, A, X) /\ Good(AppendNode(heap, plugins, data[r]), A, X)
      BY <1>7, <2>1, <2>2, GoodFewer
    <2> QED
      BY <1>9, <2>3
  <1>11. heap' = AddData(g, plugins)
    BY <1>9 DEF EndPlugins
  <1>12. Root \in X /\ plugins \in X
    BY <1>4
  <1>13. \E B : A \subseteq B /\ Good(AddData(g, plugins), B, X \ {plugins})
    BY <1>4, <1>10, <1>12, GoodAddData, Zenon
  <1>14. PICK s, B : s = heap' /\ Good(s, B, {Root})
    BY <1>4, <1>11, <1>13
  <1>15. None(data')
    BY <1>2, ResultsDropped DEF EndPlugins
  <1>16. PICK d : d = data'
    OBVIOUS
  <1>17. s \in Heap /\ None(d)
    BY <1>14, <1>15, <1>16 DEF Good, Tree
  <1>18. Kept(s, d, {Root})
    BY <1>14, <1>17, NoneKept
  <1> QED
    BY <1>1, <1>4, <1>14, <1>16, <1>18 DEF Rooted, Root

LEMMA InitRooted == ASSUME Init PROVE Rooted
  <1>1. <<>> \in Heap
    BY EmptySeq DEF Heap
  <1>2. PICK h : h = NewNode(<<>>, Plain("root"), 0)
    OBVIOUS
  <1>3. Plain("root") \in Names /\ Unnumbered(Plain("root"))
    BY KnownBases, PlainNames
  <1>4. Len(h) = 1
    BY <1>2 DEF NewNode
  <1>5. IsNew(<<>>, h, Plain("root"), Root)
    BY <1>1, <1>2, <1>3, <1>4, NewNodeFacts DEF Root
  <1>6. Good(h, {Root}, {Root})
    <2>1. Good(h, {} \cup {Root}, {} \cup {Root})
      BY <1>1, <1>3, <1>5, EmptyIsGood, GoodNew
    <2> QED
      BY <2>1
  <1>7. data = [q \in Pair |-> 0]
    BY DEF Init, Plugin!Init, Plugin!Result, Pair
  <1>8. None(data) /\ h \in Heap
    BY <1>5, <1>7 DEF None, IsNew
  <1>9. Kept(h, data, {Root})
    BY <1>6, <1>8, NoneKept
  <1>10. heap = h /\ list = 0 /\ plugins = 0 /\ Others = {Root}
    BY <1>2 DEF Init, Others, Root
  <1>11. Fresh(h, VersionName)
    <2>1. Root \in DOMAIN h /\ Kids(h, Root) = <<>>
      BY <1>5 DEF IsNew
    <2>2. ~KidsHave(h, Root, Path)
      BY <2>1 DEF KidsHave, Has
    <2>3. FindNode(h, Root, Path) = 0
      BY <1>8, <2>1, <2>2, FindNodeFacts
    <2> QED
      BY <2>3 DEF Fresh
  <1> QED
    BY <1>9, <1>10, <1>11 DEF Rooted, Root

LEMMA AlwaysRooted ==
    ASSUME Versions <= 1
    PROVE  Spec => [](Sound /\ Rooted)
  <1>1. Init => Sound /\ Rooted
    BY InitSound, InitRooted
  <1>2. ASSUME Sound, Rooted, [Next]_vars PROVE Rooted'
    <2>1. CASE UNCHANGED vars
      BY <1>2, <2>1 DEF Rooted, Others, vars, dumpVars, pluginVars
    <2>2. CASE Next
      BY <1>2, <2>2, SkipRooted, BeginRooted, EndRooted, VersionFailsRooted, StartPluginsRooted,
         PluginStepRooted, AddEntryRooted, DumpVersionRooted, EndPluginsRooted, Zenon DEF Next
    <2> QED
      BY <1>2, <2>1, <2>2
  <1>3. Sound /\ Rooted /\ [Next]_vars => (Sound /\ Rooted)'
    BY <1>2, NextSound
  <1> QED
    BY <1>1, <1>3, PTL DEF Spec
\* The nodes of a list, and where they are in it.
LEMMA ChildrenAre ==
    ASSUME NEW near
    PROVE  /\ near \subseteq WithChildren(near)
           /\ \A n \in WithChildren(near) :
                  n \in near \/ \E p \in near : n \in Range(heap[p].kids)
  BY DEF WithChildren

LEMMA ChildHasPlace ==
    ASSUME NEW p, NEW n \in Range(heap[p].kids)
    PROVE  \E k \in DOMAIN Kids(heap, p) : Kids(heap, p)[k] = n
  BY DEF Range, Kids

LEMMA PlacesAre ==
    ASSUME NEW P, NEW n, NEW x
    PROVE  x \in Places(P, n) <=>
               \E p \in P : \E k \in DOMAIN Kids(heap, p) : Kids(heap, p)[k] = n /\ x = <<p, k>>
  BY DEF Places, Kids

\* Whatever is reached is in the tree, and has a place in a list that is
\* reached unless it is one of the nodes under construction.
LEMMA LiveIs ==
    ASSUME NEW A, NEW T, Good(heap, A, T), T = Tops \ {0}
    PROVE  /\ Live \subseteq A
           /\ \A n \in Live : n \in T \/ \E p \in Live : n \in Range(heap[p].kids)
  <1>1. ASSUME NEW near, near \subseteq A PROVE WithChildren(near) \subseteq A
    <2> SUFFICES ASSUME NEW n \in WithChildren(near), n \notin near PROVE n \in A
      BY <1>1
    <2>1. PICK p \in near : n \in Range(heap[p].kids)
      BY ChildrenAre
    <2>2. PICK k \in DOMAIN Kids(heap, p) : Kids(heap, p)[k] = n
      BY <2>1, ChildHasPlace
    <2> QED
      BY <1>1, <2>2 DEF Good, Tree, Closed
  <1>2. PICK w1, w2, w3, w4, w5, w6 :
            /\ w1 = WithChildren(T) /\ w2 = WithChildren(w1) /\ w3 = WithChildren(w2)
            /\ w4 = WithChildren(w3) /\ w5 = WithChildren(w4) /\ w6 = WithChildren(w5)
    OBVIOUS
  <1>3. Live = w6
    BY <1>2, Zenon DEF Live, Below
  <1>4. T \subseteq A
    BY DEF Good, Tree
  <1>5. w1 \subseteq A
    BY <1>1, <1>2, <1>4
  <1>6. w2 \subseteq A
    BY <1>1, <1>2, <1>5
  <1>7. w3 \subseteq A
    BY <1>1, <1>2, <1>6
  <1>8. w4 \subseteq A
    BY <1>1, <1>2, <1>7
  <1>9. w5 \subseteq A
    BY <1>1, <1>2, <1>8
  <1>10. w6 \subseteq A
    BY <1>1, <1>2, <1>9
  <1>11. T \subseteq w1 /\ w1 \subseteq w2 /\ w2 \subseteq w3 /\ w3 \subseteq w4 /\ w4 \subseteq w5
         /\ w5 \subseteq w6
    BY <1>2, ChildrenAre
  <1>12. ASSUME NEW n \in w6, n \notin T PROVE \E p \in w6 : n \in Range(heap[p].kids)
    <2>1. n \in w6 => n \in w5 \/ \E p \in w5 : n \in Range(heap[p].kids)
      BY <1>2, ChildrenAre, ZenonT(40)
    <2>2. n \in w5 => n \in w4 \/ \E p \in w4 : n \in Range(heap[p].kids)
      BY <1>2, ChildrenAre
    <2>3. n \in w4 => n \in w3 \/ \E p \in w3 : n \in Range(heap[p].kids)
      BY <1>2, ChildrenAre
    <2>4. n \in w3 => n \in w2 \/ \E p \in w2 : n \in Range(heap[p].kids)
      BY <1>2, ChildrenAre
    <2>5. n \in w2 => n \in w1 \/ \E p \in w1 : n \in Range(heap[p].kids)
      BY <1>2, ChildrenAre
    <2>6. n \in w1 => \E p \in T : n \in Range(heap[p].kids)
      BY <1>2, <1>12, ChildrenAre
    <2> QED
      BY <1>11, <1>12, <2>1, <2>2, <2>3, <2>4, <2>5, <2>6
  <1> QED
    BY <1>3, <1>10, <1>12

LEMMA RootedIsGood ==
    ASSUME Sound, Rooted
    PROVE  \E A : Good(heap, A, Tops \ {0})
  <1>1. data \in [Pair -> {0} \cup DOMAIN heap]
    BY DEF Sound, Kept, Wholes
  <1>2. Others \cup MadeOf(data) = Tops \ {0}
    BY <1>1 DEF Others, MadeOf, Tops, Pair
  <1> QED
    BY <1>2 DEF Rooted, Kept

\* With one version resource at most, the report is a tree at every moment of
\* its construction, whatever lists are dumped, whatever the plugin adds and
\* merges: what add_data and append were given is in one list, once, and the
\* nodes under construction in none.  With two version resources it is not:
\* dump_version_info gives the node it has found to add_data again
\* (dump.cpp, dump_version_info; output_formatter.h:85-101; result.cpp, merge;
\* main.cpp:383-400).
THEOREM ReportIsTree ==
    ASSUME Versions <= 1
    PROVE  Spec => []IsTree
  <1>1. ASSUME Sound, Rooted PROVE IsTree
    <2>1. PICK T : T = Tops \ {0}
      OBVIOUS
    <2>2. PICK A : Good(heap, A, T)
      BY <1>1, <2>1, RootedIsGood
    <2>3. /\ Live \subseteq A
          /\ \A n \in Live : n \in T \/ \E p \in Live : n \in Range(heap[p].kids)
      BY <2>1, <2>2, LiveIs
    <2>4. PICK live : live = Live
      OBVIOUS
    <2> SUFFICES ASSUME NEW n \in live
                 PROVE  Cardinality(Places(live, n)) = IF n \in Tops THEN 0 ELSE 1
      BY <2>4, Zenon DEF IsTree
    <2>5. n # 0
      BY <2>2, <2>3, <2>4 DEF Good, Tree, Heap
    <2>6. CASE n \in Tops
      <3>1. n \in T
        BY <2>1, <2>5, <2>6
      <3>2. \A p \in live : \A k \in DOMAIN Kids(heap, p) : Kids(heap, p)[k] # n
        BY <2>2, <2>3, <2>4, <3>1 DEF Good, Tree, NoPlace
      <3>3. Places(live, n) = {}
        BY <3>2, PlacesAre
      <3> QED
        BY <2>6, <3>3, FS_EmptySet
    <2>7. CASE n \notin Tops
      <3>1. PICK p \in live : n \in Range(heap[p].kids)
        BY <2>1, <2>3, <2>4, <2>7
      <3>2. PICK k \in DOMAIN Kids(heap, p) : Kids(heap, p)[k] = n
        BY <3>1, ChildHasPlace
      <3>3. \A q \in live : \A j \in DOMAIN Kids(heap, q) :
                Kids(heap, q)[j] = n => q = p /\ j = k
        BY <2>2, <2>3, <2>4, <3>2 DEF Good, Tree, OnePlace
      <3>4. \A x : x \in Places(live, n) <=> x = <<p, k>>
        BY <3>2, <3>3, PlacesAre
      <3>5. Places(live, n) = {<<p, k>>}
        BY <3>4
      <3> QED
        BY <2>7, <3>5, FS_Singleton
    <2> QED
      BY <2>6, <2>7
  <1> QED
    BY <1>1, AlwaysRooted, PTL

\* What append gives a node depends on the list and the names in it alone, so
\* that coming to the place of a name that is odd there it would give another.
LEMMA OddCameNumbered ==
    ASSUME heap \in Heap, NEW n \in DOMAIN heap, NEW j \in 1..Len(Kids(heap, n)),
           ~Free(NameIn(heap, Kids(heap, n)[j])), Odd(KidNames(heap, n), j)
    PROVE  CameNumbered(n, j)
  <1> DEFINE ns == KidNames(heap, n)
  <1>1. PICK kids \in Seq(Nat) : kids = heap[n].kids
    BY HeapNodes DEF Kids
  <1>2. PICK m \in Nat : m = j - 1
    OBVIOUS
  <1>3. PICK first : first = SubSeq(kids, 1, m)
    OBVIOUS
  <1>4. PICK before : before = [heap EXCEPT ![n].kids = first]
    OBVIOUS
  <1>5. PICK b \in Names, i \in Nat :
            /\ ns[j] = Suffixed(b, i)
            /\ \E f : IsPass(f, ns, b, j - 1) /\ f[j - 1].current # ns[j]
    BY DEF Odd
  <1>6. PICK f : IsPass(f, ns, b, m) /\ f[m].current # ns[j]
    BY <1>2, <1>5
  <1>7. Len(first) = m /\ \A k \in 1..m : first[k] = kids[k]
    BY <1>1, <1>2, <1>3 DEF Kids
  <1>8. /\ heap \in Seq(Node) /\ \A k \in 1..j : kids[k] \in DOMAIN heap
        /\ \A k \in 1..j : ns[k] = heap[kids[k]].name
    BY <1>1, HeapNodes, SMTT(30) DEF Heap, Kids, KidNames, NameIn
  <1>9. before[n].kids = first /\ \A p \in DOMAIN heap : before[p].name = heap[p].name
    <2>1. heap[n] \in Node
      BY <1>8
    <2>2. PICK new : new = [heap[n] EXCEPT !.kids = first]
      OBVIOUS
    <2>3. new.kids = first /\ new.name = heap[n].name
      BY <2>1, <2>2 DEF Node
    <2>4. before[n] = new /\ \A p \in DOMAIN heap \ {n} : before[p] = heap[p]
      BY <1>4, <2>2
    <2> QED
      BY <2>3, <2>4
  <1>10. AreNamed(before, n, ns, m)
    <2>1. m = Len(before[n].kids)
      BY <1>7, <1>9
    <2>2. ASSUME NEW k \in 1..m PROVE ns[k] = before[before[n].kids[k]].name
      <3>1. k \in 1..j /\ before[n].kids[k] = kids[k]
        BY <1>2, <1>7, <1>9
      <3> QED
        BY <1>8, <1>9, <3>1
    <2> QED
      BY <2>1, <2>2 DEF AreNamed
  <1> DEFINE name == heap[heap[n].kids[j]].name
  <1>11. name = ns[j] /\ ~Free(name)
    BY <1>1, <1>8 DEF Kids, NameIn
  <1> HIDE DEF ns
  <1>12. PICK g : IsPass(g, ns, b, m) /\ AppendedName(before, n, b) = g[m].current
    BY <1>10, AppendedByPass
  <1>13. AppendedName(before, n, b) # name
    BY <1>6, <1>11, <1>12, PassUnique
  <1>14. name \in Names /\ name.base = b.base /\ name.index = b.index /\ name.dup = Append(b.dup, i)
    BY <1>5, <1>11, SuffixedFields
  <1>15. PICK d \in Seq(Nat) : d = b.dup
    BY DEF Names
  <1>16. name.dup # <<>> /\ SubSeq(name.dup, 1, Len(name.dup) - 1) = b.dup
    <2>a. Append(d, i) \in Seq(Nat)
      BY <1>5, <1>15
    <2>1. PICK e \in Seq(Nat) : e = Append(d, i)
      BY <2>a
    <2>2. Len(e) = Len(d) + 1 /\ \A k \in 1..Len(d) : e[k] = d[k]
      BY <2>1
    <2>3. SubSeq(e, 1, Len(e) - 1) = d /\ e # <<>>
      BY <2>2
    <2>4. name.dup = e
      BY <1>14, <1>15, <2>1, Zenon
    <2> QED
      BY <1>15, <2>3, <2>4, Zenon
  <1> DEFINE rest == [name EXCEPT !.dup = SubSeq(@, 1, Len(@) - 1)]
  <1>17. rest = b
    <2>1. PICK x \in Names : x = name
      BY <1>14
    <2>2. [x EXCEPT !.dup = b.dup] = b
      BY <1>14, <2>1 DEF Names
    <2> QED
      BY <1>16, <2>1, <2>2
  <1>18. before = [heap EXCEPT ![n].kids = SubSeq(@, 1, j - 1)]
    BY <1>1, <1>2, <1>3, <1>4
  <1>19. NumberedByFile(name)
    BY <1>11 DEF Free
  <1> QED
    BY <1>13, <1>16, <1>17, <1>18, <1>19, Zenon DEF CameNumbered

\* With one version resource at most, two children of a list have the same name
\* only if the file gives numbered names of that text and had numbered the first
\* of them higher than append had come to, even after the lists of two results
\* were merged: for all other names the single pass of append over the siblings
\* finds a free number, because their numbers come in increasing order in every
\* list (output_tree_node.cpp:212-226).  Nothing is assumed of the names.
THEOREM SiblingsAlwaysDiffer ==
    ASSUME Versions <= 1
    PROVE  Spec => []SiblingsDiffer
  <1>1. ASSUME Sound, Rooted PROVE SiblingsDiffer
    <2>1. PICK T : T = Tops \ {0}
      OBVIOUS
    <2>2. PICK A : Good(heap, A, T)
      BY <1>1, <2>1, RootedIsGood
    <2>3. Live \subseteq A
      BY <2>1, <2>2, LiveIs
    <2> SUFFICES ASSUME NEW n \in Live,
                        NEW j \in DOMAIN heap[n].kids, NEW k \in DOMAIN heap[n].kids, j < k,
                        heap[heap[n].kids[j]].name = heap[heap[n].kids[k]].name
                 PROVE  CameNumbered(n, j)
      BY Zenon DEF SiblingsDiffer
    <2>4. heap \in Heap /\ n \in DOMAIN heap /\ KidsApart(heap, n)
      BY <2>2, <2>3 DEF Good, Tree, Distinct
    <2>5. PICK m \in Nat : m = Len(Kids(heap, n)) /\ DOMAIN Kids(heap, n) = 1..m
      BY <2>4, HeapNodes
    <2>6. PICK ns : ns = KidNames(heap, n)
      OBVIOUS
    <2>7. j \in 1..m /\ k \in 1..m
      BY <2>5 DEF Kids
    <2>8. \A l \in 1..m : ns[l] = NameIn(heap, Kids(heap, n)[l])
      BY <2>5, <2>6 DEF KidNames
    <2>9. ns[j] = ns[k]
      BY <2>7, <2>8 DEF NameIn, Kids
    <2>10. ~Free(ns[j]) /\ Odd(ns, j)
      BY <2>4, <2>5, <2>6, <2>7, <2>9 DEF KidsApart, Apart
    <2> QED
      BY <2>4, <2>5, <2>6, <2>7, <2>8, <2>10, OddCameNumbered
  <1> QED
    BY <1>1, AlwaysRooted, PTL

-------------------------------------------------------------------------------
(* Nothing is lost: no step takes a node out of a list, and a list that is  *)
(* done is handed over to the report, which it makes no deeper than the     *)
(* lists of a plugin are.                                                   *)

\* The entries of the list have no children.
Leaves(h, p) == \A k \in DOMAIN Kids(h, p) : Kids(h, Kids(h, p)[k]) = <<>>

Shallow ==
    /\ Kept(heap, data, {plugins} \ {0})
    /\ plugins # 0 => Kids(heap, plugins) = <<>>
    /\ list # 0 => Leaves(heap, list)

LEMMA PhaseShallow ==
    ASSUME Sound', plugins' = 0, list' = 0
    PROVE  Shallow'
  BY DEF Sound, Shallow

LEMMA BeginShallow == ASSUME Sound, Begin PROVE Shallow'
  <1>1. plugins' = 0 /\ heap \in Heap /\ list' = Len(heap')
    BY DEF Sound, Begin, Dumped, pluginVars
  <1>2. PICK name : name = Plain(Head(todo))
    OBVIOUS
  <1>3. name \in Names
    BY <1>2, HeadIsBase, PlainNames DEF Sound, Begin
  <1>4. PICK r : r = NewNode(heap, name, 0)
    OBVIOUS
  <1>5. IsNew(heap, r, name, Len(r))
    BY <1>1, <1>3, <1>4, NewNodeFacts
  <1>6. heap' = r
    BY <1>2, <1>4 DEF Begin
  <1>7. Leaves(heap', list')
    BY <1>1, <1>5, <1>6 DEF Leaves, IsNew
  <1>8. Kept(heap', data', {})
    BY BeginSound DEF Sound
  <1> QED
    BY <1>1, <1>7, <1>8 DEF Shallow

LEMMA AddEntryShallow ==
    ASSUME Sound, Shallow, NEW name \in EntryName, AddEntry(name)
    PROVE  Shallow'
  <1>1. plugins' = 0 /\ heap \in Heap /\ list' = list /\ list \in DOMAIN heap /\ list # 0
    BY DEF Sound, AddEntry, Dumped, pluginVars, dumpVars
  <1>2. PICK r, new : r = AppendNew(heap, list, name, 0) /\ new = Len(r)
    OBVIOUS
  <1>3. IsAppendedNew(heap, r, list, name, new)
    BY <1>1, <1>2, EntryNames, AppendNewFacts
  <1>4. heap' = r
    BY <1>2 DEF AddEntry
  <1>5. PICK s \in Seq(Nat) : s = Kids(heap, list)
    BY <1>1, HeapNodes
  <1>6. new \in Nat /\ Kids(r, list) = Append(s, new) /\ Kids(r, new) = <<>> /\ new \notin DOMAIN heap
    <2>1. r \in Heap /\ new \in DOMAIN r
      BY <1>3 DEF IsAppendedNew
    <2>2. new \in Nat
      BY <2>1 DEF Heap
    <2> QED
      BY <1>3, <1>5, <2>2 DEF IsAppendedNew
  <1>7. \A k \in DOMAIN s : s[k] \in DOMAIN heap /\ Kids(heap, s[k]) = <<>>
    BY <1>1, <1>5, HeapNodes DEF Shallow, Leaves
  <1>8. \A k \in DOMAIN s : Kids(r, s[k]) = <<>>
    <2> SUFFICES ASSUME NEW k \in DOMAIN s PROVE Kids(r, s[k]) = <<>>
      OBVIOUS
    <2>1. s[k] # list
      BY <1>5, <1>7
    <2> QED
      BY <1>3, <1>7, <2>1 DEF IsAppendedNew
  <1>9. PICK t : t = Append(s, new)
    OBVIOUS
  <1>10. \A k \in DOMAIN t : t[k] = new \/ (k \in DOMAIN s /\ t[k] = s[k])
    BY <1>6, <1>9
  <1>11. Leaves(r, list)
    BY <1>6, <1>8, <1>9, <1>10 DEF Leaves
  <1>12. Kept(heap', data', {})
    BY AddEntrySound DEF Sound
  <1> QED
    BY <1>1, <1>4, <1>11, <1>12 DEF Shallow

LEMMA StartPluginsShallow == ASSUME Sound, StartPlugins PROVE Shallow'
  <1>1. /\ plugins = 0 /\ list' = 0 /\ heap \in Heap /\ data' = data /\ plugins' = Len(heap')
    BY DEF Sound, StartPlugins, Dumped, dumpVars
  <1>2. None(data)
    BY <1>1, BeforePlugins
  <1>3. Plain("Plugins") \in Names /\ Unnumbered(Plain("Plugins"))
    BY KnownBases, PlainNames
  <1>4. PICK r : r = NewNode(heap, Plain("Plugins"), 0)
    OBVIOUS
  <1>5. PICK new : new = Len(r)
    OBVIOUS
  <1>6. IsNew(heap, r, Plain("Plugins"), new)
    BY <1>1, <1>3, <1>4, <1>5, NewNodeFacts
  <1>7. heap' = r /\ plugins' = new
    BY <1>1, <1>4, <1>5 DEF StartPlugins
  <1>8. new # 0 /\ r \in Heap /\ Kids(r, new) = <<>>
    BY <1>6 DEF IsNew, Heap
  <1>9. Good(r, {} \cup {new}, {} \cup {new})
    BY <1>1, <1>3, <1>6, EmptyIsGood, GoodNew
  <1>10. {} \cup {new} = {new} /\ {plugins'} \ {0} = {new}
    BY <1>7, <1>8
  <1>11. Kept(r, data, {new})
    BY <1>2, <1>8, <1>9, <1>10, NoneKept
  <1> QED
    BY <1>1, <1>7, <1>8, <1>10, <1>11 DEF Shallow

LEMMA PluginStepShallow == ASSUME Sound, Shallow, PluginStep PROVE Shallow'
  <1>1. /\ UNCHANGED <<list, plugins>> /\ plugins # 0 /\ Plugin!Next
        /\ list = 0 /\ heap \in Heap
    BY DEF PluginStep, dumpVars, Sound, Dumped
  <1>2. PICK X : X = {plugins} \ {0}
    OBVIOUS
  <1>3. Keeps(heap, heap', data', X)
    BY <1>1, <1>2, PluginKeeps DEF Shallow
  <1>4. plugins \in X /\ {plugins'} \ {0} = X
    BY <1>1, <1>2
  <1>5. Kids(heap', plugins') = <<>>
    BY <1>1, <1>3, <1>4 DEF Keeps, Aside, Shallow
  <1> QED
    BY <1>1, <1>3, <1>4, <1>5 DEF Shallow, Keeps

LEMMA NextShallow == ASSUME Sound, Shallow, [Next]_vars PROVE Shallow'
  <1>1. Sound'
    BY NextSound
  <1>2. CASE UNCHANGED vars
    BY <1>2 DEF Shallow, vars, dumpVars, pluginVars
  <1>3. CASE Skip \/ End \/ VersionFails
    <2>1. plugins' = 0 /\ list' = 0
      BY <1>3 DEF Skip, End, VersionFails, Sound, Dumped, pluginVars
    <2> QED
      BY <1>1, <2>1, PhaseShallow
  <1>4. ASSUME NEW key, NEW string, DumpVersion(key, string) PROVE Shallow'
    <2>1. plugins' = 0 /\ list' = 0
      BY <1>4 DEF DumpVersion, Sound, Dumped, pluginVars
    <2> QED
      BY <1>1, <2>1, PhaseShallow
  <1>5. ASSUME NEW r \in DOMAIN data, EndPlugins(r) PROVE Shallow'
    <2>1. plugins' = 0 /\ list' = 0
      BY <1>5 DEF EndPlugins, Sound, Dumped, dumpVars
    <2> QED
      BY <1>1, <2>1, PhaseShallow
  <1> QED
    BY <1>2, <1>3, <1>4, <1>5, BeginShallow, AddEntryShallow, StartPluginsShallow,
       PluginStepShallow, Zenon DEF Next

LEMMA AlwaysShallow == Spec => [](Sound /\ Shallow)
  <1>1. Init => Sound /\ Shallow
    <2> SUFFICES ASSUME Init PROVE Sound /\ Shallow
      OBVIOUS
    <2>1. Sound /\ plugins = 0 /\ list = 0
      BY InitSound DEF Init
    <2> QED
      BY <2>1 DEF Sound, Shallow
  <1>2. Sound /\ Shallow /\ [Next]_vars => (Sound /\ Shallow)'
    BY NextSound, NextShallow
  <1> QED
    BY <1>1, <1>2, PTL DEF Spec
\* The nodes and their children, and what is six lists below them.
Near(h, S) == S \cup UNION {Range(Kids(h, n)) : n \in S}

Reach(h, S) == Near(h, Near(h, Near(h, Near(h, Near(h, Near(h, S))))))

LEMMA NearAre ==
    ASSUME NEW h, NEW S
    PROVE  /\ S \subseteq Near(h, S)
           /\ \A n \in S : Range(Kids(h, n)) \subseteq Near(h, S)
           /\ \A x \in Near(h, S) : x \in S \/ \E n \in S : x \in Range(Kids(h, n))
  BY DEF Near

LEMMA NearGrows ==
    ASSUME NEW h \in Heap, NEW r, Grew(h, r), NEW S, S \subseteq DOMAIN h, NEW Q, S \subseteq Q
    PROVE  Near(h, S) \subseteq Near(r, Q) /\ Near(h, S) \subseteq DOMAIN h
  <1> SUFFICES ASSUME NEW x \in Near(h, S) PROVE x \in Near(r, Q) /\ x \in DOMAIN h
    OBVIOUS
  <1>1. CASE x \in S
    BY <1>1, NearAre
  <1>2. ASSUME NEW n \in S, x \in Range(Kids(h, n)) PROVE x \in Near(r, Q) /\ x \in DOMAIN h
    <2>1. PICK k \in DOMAIN Kids(h, n) : x = Kids(h, n)[k]
      BY <1>2 DEF Range
    <2>2. x \in DOMAIN h
      BY <2>1, HeapNodes
    <2>3. k \in DOMAIN Kids(r, n) /\ Kids(r, n)[k] = x
      BY <2>1 DEF Grew, Longer
    <2>4. x \in Range(Kids(r, n))
      BY <2>3 DEF Range
    <2> QED
      BY <2>2, <2>4, NearAre
  <1> QED
    BY <1>1, <1>2, NearAre

LEMMA ReachGrows ==
    ASSUME NEW h \in Heap, NEW r, Grew(h, r), NEW S, S \subseteq DOMAIN h, NEW Q, S \subseteq Q
    PROVE  Reach(h, S) \subseteq Reach(r, Q)
  <1>1. PICK a1, a2, a3, a4, a5, b1, b2, b3, b4, b5 :
            /\ a1 = Near(h, S) /\ a2 = Near(h, a1) /\ a3 = Near(h, a2)
            /\ a4 = Near(h, a3) /\ a5 = Near(h, a4)
            /\ b1 = Near(r, Q) /\ b2 = Near(r, b1) /\ b3 = Near(r, b2)
            /\ b4 = Near(r, b3) /\ b5 = Near(r, b4)
    OBVIOUS
  <1>2. a1 \subseteq b1 /\ a1 \subseteq DOMAIN h
    BY <1>1, NearGrows
  <1>3. a2 \subseteq b2 /\ a2 \subseteq DOMAIN h
    BY <1>1, <1>2, NearGrows
  <1>4. a3 \subseteq b3 /\ a3 \subseteq DOMAIN h
    BY <1>1, <1>3, NearGrows
  <1>5. a4 \subseteq b4 /\ a4 \subseteq DOMAIN h
    BY <1>1, <1>4, NearGrows
  <1>6. a5 \subseteq b5 /\ a5 \subseteq DOMAIN h
    BY <1>1, <1>5, NearGrows
  <1>7. Near(h, a5) \subseteq Near(r, b5)
    BY <1>6, NearGrows
  <1>8. Reach(h, S) = Near(h, a5) /\ Reach(r, Q) = Near(r, b5)
    BY <1>1, Zenon DEF Reach
  <1> QED
    BY <1>7, <1>8

\* What is below the root or the list is below one of them.
LEMMA NearUnion ==
    ASSUME NEW h, NEW S, NEW Q
    PROVE  Near(h, S \cup Q) = Near(h, S) \cup Near(h, Q)
  BY DEF Near

LEMMA ReachUnion ==
    ASSUME NEW h, NEW S, NEW Q
    PROVE  Reach(h, S \cup Q) = Reach(h, S) \cup Reach(h, Q)
  <1>1. PICK s1, s2, s3, s4, s5, q1, q2, q3, q4, q5 :
            /\ s1 = Near(h, S) /\ s2 = Near(h, s1) /\ s3 = Near(h, s2)
            /\ s4 = Near(h, s3) /\ s5 = Near(h, s4)
            /\ q1 = Near(h, Q) /\ q2 = Near(h, q1) /\ q3 = Near(h, q2)
            /\ q4 = Near(h, q3) /\ q5 = Near(h, q4)
    OBVIOUS
  <1>2. Near(h, S \cup Q) = s1 \cup q1
    BY <1>1, NearUnion
  <1>3. Near(h, s1 \cup q1) = s2 \cup q2
    BY <1>1, NearUnion
  <1>4. Near(h, s2 \cup q2) = s3 \cup q3
    BY <1>1, NearUnion
  <1>5. Near(h, s3 \cup q3) = s4 \cup q4
    BY <1>1, NearUnion, SMTT(30)
  <1>6. Near(h, s4 \cup q4) = s5 \cup q5
    BY <1>1, NearUnion
  <1>7. Reach(h, S \cup Q) = Near(h, s5 \cup q5)
    BY <1>2, <1>3, <1>4, <1>5, <1>6, Zenon DEF Reach
  <1>8. Reach(h, S) = Near(h, s5) /\ Reach(h, Q) = Near(h, q5)
    BY <1>1, Zenon DEF Reach
  <1> QED
    BY <1>7, <1>8, NearUnion

\* Nothing is below a list of leaves but its entries.
LEMMA ReachLeaves ==
    ASSUME NEW h \in Heap, NEW p \in DOMAIN h, Leaves(h, p)
    PROVE  Reach(h, {p}) = {p} \cup Range(Kids(h, p))
  <1>1. PICK W : W = {p} \cup Range(Kids(h, p))
    OBVIOUS
  <1>2. Near(h, {p}) = W
    BY <1>1 DEF Near
  <1>3. ASSUME NEW x \in Range(Kids(h, p)) PROVE Range(Kids(h, x)) = {}
    <2>1. PICK k \in DOMAIN Kids(h, p) : x = Kids(h, p)[k]
      BY <1>3 DEF Range
    <2>2. Kids(h, x) = <<>>
      BY <2>1 DEF Leaves
    <2> QED
      BY <2>2 DEF Range
  <1>4. Near(h, W) = W
    <2>1. W \subseteq Near(h, W)
      BY NearAre
    <2>2. ASSUME NEW x \in Near(h, W), x \notin W PROVE FALSE
      <3>1. PICK n \in W : x \in Range(Kids(h, n))
        BY <2>2, NearAre
      <3>2. n # p
        BY <1>1, <2>2, <3>1
      <3> QED
        BY <1>1, <1>3, <3>1, <3>2
    <2> QED
      BY <2>1, <2>2
  <1> QED
    BY <1>1, <1>2, <1>4 DEF Reach

\* What was delivered is below the root, with two lists below it.
LEMMA DeliveredIsReached ==
    ASSUME NEW r, NEW node, Delivered(r, node)
    PROVE  /\ node \in Reach(r, {Root})
           /\ \A x \in Range(Kids(r, node)) :
                  /\ x \in Reach(r, {Root})
                  /\ \A y \in Range(Kids(r, x)) :
                         Range(Kids(r, y)) \subseteq Reach(r, {Root})
  <1>1. PICK a1, a2, a3, a4, a5 :
            /\ a1 = Near(r, {Root}) /\ a2 = Near(r, a1) /\ a3 = Near(r, a2)
            /\ a4 = Near(r, a3) /\ a5 = Near(r, a4)
    OBVIOUS
  <1>2. Reach(r, {Root}) = Near(r, a5)
    BY <1>1, Zenon DEF Reach
  <1>3. PICK file \in Range(Kids(r, Root)) : node \in Range(Kids(r, file))
    BY DEF Delivered
  <1>4. file \in a1
    BY <1>1, <1>3, NearAre
  <1>5. node \in a2
    BY <1>1, <1>3, <1>4, NearAre
  <1>6. a2 \subseteq a3 /\ a3 \subseteq a4 /\ a4 \subseteq a5 /\ a5 \subseteq Near(r, a5)
    BY <1>1, NearAre
  <1>7. ASSUME NEW x \in Range(Kids(r, node))
        PROVE  /\ x \in a3
               /\ \A y \in Range(Kids(r, x)) : y \in a4 /\ Range(Kids(r, y)) \subseteq a5
    <2>1. x \in a3
      BY <1>1, <1>5, NearAre
    <2>2. ASSUME NEW y \in Range(Kids(r, x)) PROVE y \in a4 /\ Range(Kids(r, y)) \subseteq a5
      <3>1. y \in a4
        BY <1>1, <2>1, NearAre
      <3> QED
        BY <1>1, <3>1, NearAre
    <2> QED
      BY <2>1, <2>2
  <1> QED
    BY <1>2, <1>5, <1>6, <1>7

\* The information of the results.
Info(h, da) ==
    UNION {Range(Kids(h, FindNode(h, da[q], OutputName))) : q \in {p \in Pair : da[p] # 0}}

LEMMA InfoAre ==
    ASSUME NEW h, NEW da, NEW x
    PROVE  x \in Info(h, da) <=>
               \E q \in Pair : da[q] # 0 /\ x \in Range(Kids(h, FindNode(h, da[q], OutputName)))
  BY DEF Info

\* The list of information of a result stays the same one, and only grows.
LEMMA InformationGrows ==
    ASSUME NEW h \in Heap, NEW r, Grew(h, r), NEW d \in DOMAIN h, Whole(h, d), Whole(r, d)
    PROVE  /\ FindNode(r, d, OutputName) = FindNode(h, d, OutputName)
           /\ Range(Kids(h, FindNode(h, d, OutputName))) \subseteq
                  Range(Kids(r, FindNode(r, d, OutputName)))
           /\ FindNode(h, d, OutputName) \in Range(Kids(h, d))
  <1>1. PICK info : info = FindNode(h, d, OutputName)
    OBVIOUS
  <1>2. info = Kids(h, d)[2] /\ 2 \in DOMAIN Kids(h, d)
    BY <1>1, WholeFinds
  <1>3. r \in Heap /\ d \in DOMAIN r /\ Kids(r, d)[2] = info
    BY <1>2 DEF Grew, Longer
  <1>4. FindNode(r, d, OutputName) = info
    BY <1>3, WholeFinds
  <1>5. info \in DOMAIN h
    BY <1>2, HeapNodes
  <1>6. Range(Kids(h, info)) \subseteq Range(Kids(r, info))
    BY <1>5 DEF Grew, Longer, Range
  <1>7. info \in Range(Kids(h, d))
    BY <1>2 DEF Range
  <1> QED
    BY <1>1, <1>4, <1>6, <1>7

LEMMA InfoGrows ==
    ASSUME NEW h \in Heap, NEW r, Grew(h, r), NEW da, Wholes(h, da), NEW db, Wholes(r, db),
           \A q \in Pair : da[q] # 0 => db[q] = da[q]
    PROVE  Info(h, da) \subseteq Info(r, db)
  <1> SUFFICES ASSUME NEW x \in Info(h, da) PROVE x \in Info(r, db)
    OBVIOUS
  <1>1. PICK q \in Pair : da[q] # 0 /\ x \in Range(Kids(h, FindNode(h, da[q], OutputName)))
    BY InfoAre
  <1>2. db[q] = da[q] /\ da[q] \in DOMAIN h /\ Whole(h, da[q]) /\ Whole(r, da[q])
    BY <1>1 DEF Wholes
  <1>3. x \in Range(Kids(r, FindNode(r, da[q], OutputName)))
    BY <1>1, <1>2, InformationGrows
  <1> QED
    BY <1>1, <1>2, <1>3, InfoAre
\* The calls of the plugin keep the information.
LEMMA PluginSaves ==
    ASSUME heap \in Heap, Wholes(heap, data), NEW X, Kept(heap, data, X), Plugin!Next
    PROVE  Info(heap, data) \subseteq Info(heap', data')
  <1>1. Kept(heap', data', X) /\ Grew(heap, heap')
    BY PluginKeeps DEF Keeps
  <1>2. PICK r, db : r = heap' /\ db = data'
    OBVIOUS
  <1>3. Wholes(r, db) /\ Grew(heap, r)
    BY <1>1, <1>2 DEF Kept
  <1>4. CASE Plugin!Merge
    <2>1. /\ db = [data EXCEPT !["second"] = 0] /\ data["first"] # 0 /\ data["second"] # 0
          /\ data \in [Pair -> {0} \cup DOMAIN heap]
      BY <1>2, <1>4 DEF Plugin!Merge, Plugin!Result, Plugin!Made, Wholes
    <2>2. db["first"] = data["first"] /\ "first" \in Pair /\ "second" \in Pair
      BY <2>1 DEF Pair
    <2>3. PICK d : d = data["first"]
      OBVIOUS
    <2>4. d \in DOMAIN heap /\ d # 0 /\ Whole(heap, d) /\ Whole(r, d) /\ db["first"] = d
      BY <1>3, <2>1, <2>2, <2>3 DEF Wholes
    <2>5. FindNode(r, d, OutputName) = FindNode(heap, d, OutputName)
      BY <1>3, <2>4, InformationGrows
    <2>6. Range(Kids(heap, FindNode(heap, d, OutputName))) \subseteq
              Range(Kids(r, FindNode(r, d, OutputName)))
      BY <1>3, <2>4, InformationGrows
    <2>7. Range(Kids(heap, FindNode(heap, data["second"], OutputName))) \subseteq
              Range(Kids(r, FindNode(heap, d, OutputName)))
      BY <1>2, <1>4, <2>3, MergeKeeps
    <2>8. Range(Kids(r, FindNode(r, d, OutputName))) \subseteq Info(r, db)
      BY <2>2, <2>4, InfoAre
    <2>9. ASSUME NEW x \in Info(heap, data) PROVE x \in Info(r, db)
      <3>1. PICK q \in Pair : x \in Range(Kids(heap, FindNode(heap, data[q], OutputName)))
        BY InfoAre
      <3>2. CASE q = "first"
        BY <2>3, <2>6, <2>8, <3>1, <3>2
      <3>3. CASE q = "second"
        BY <2>5, <2>7, <2>8, <3>1, <3>3
      <3> QED
        BY <3>2, <3>3 DEF Pair
    <2> QED
      BY <1>2, <2>9
  <1>5. CASE ~Plugin!Merge
    <2>1. data \in [Pair -> {0} \cup DOMAIN heap]
      BY DEF Wholes
    <2>2. \/ \E q \in Pair : Plugin!MakeResult(q)
          \/ data' = data
      BY <1>5, Zenon DEF Plugin!Next, Plugin!Result, Pair, Plugin!SetLevel, Plugin!RaiseLevel,
         Plugin!SetSummary, Plugin!AddInformation, Plugin!AddNamedInformation
    <2>3. ASSUME NEW q \in Pair, Plugin!MakeResult(q), NEW p \in Pair, data[p] # 0
          PROVE  data'[p] = data[p]
      <3>1. data[q] = 0 /\ \E d : data' = [data EXCEPT ![q] = d]
        BY <2>3 DEF Plugin!MakeResult
      <3> QED
        BY <2>1, <2>3, <3>1
    <2>4. \A p \in Pair : data[p] # 0 => db[p] = data[p]
      BY <1>2, <2>2, <2>3
    <2> QED
      BY <1>2, <1>3, <2>4, InfoGrows
  <1> QED
    BY <1>4, <1>5

\* What was found, in terms of the heap.
Seen == Reach(heap, Others) \cup Info(heap, data)

LEMMA FoundIsSeen == Sound => Found = Seen
  <1> SUFFICES ASSUME Sound PROVE Found = Seen
    OBVIOUS
  <1>1. \A S : WithChildren(S) = Near(heap, S)
    BY DEF WithChildren, Near, Kids
  <1>2. {Root, list, plugins} \ {0} = Others
    BY DEF Others
  <1>3. Below({Root, list, plugins}) = Reach(heap, Others)
    BY <1>1, <1>2, Zenon DEF Below, Reach
  <1>4. DOMAIN data = Pair
    BY DEF Sound, Kept, Wholes
  <1>5. \A q \in Pair : Plugin!Information(q) = FindNode(heap, data[q], OutputName)
    BY LookupsByName
  <1>6. UNION {Range(heap[Plugin!Information(r)].kids) : r \in {q \in DOMAIN data : data[q] # 0}}
            = Info(heap, data)
    BY <1>4, <1>5 DEF Info, Kids
  <1> QED
    BY <1>3, <1>6 DEF Found, Seen

\* A step after which everything is still pointed to.
LEMMA StillSeen ==
    ASSUME Sound, Grew(heap, heap'), Others \subseteq Others',
           Info(heap, data) \subseteq Info(heap', data')
    PROVE  Seen \subseteq Seen'
  <1>1. heap \in Heap /\ Others \subseteq DOMAIN heap
    BY DEF Sound, Others
  <1>2. PICK r, Q : r = heap' /\ Q = Others'
    OBVIOUS
  <1>3. Reach(heap, Others) \subseteq Reach(r, Q)
    BY <1>1, <1>2, ReachGrows
  <1> QED
    BY <1>2, <1>3 DEF Seen

\* There is no information before the plugin.
LEMMA NoInformation ==
    ASSUME Sound, plugins = 0
    PROVE  Info(heap, data) = {}
  <1>1. \A q \in Pair : data[q] = 0
    BY BeforePlugins DEF None
  <1> QED
    BY <1>1, InfoAre

LEMMA EndSaves == ASSUME Sound, Shallow, End PROVE Seen \subseteq Seen'
  <1>1. /\ plugins = 0 /\ list \in DOMAIN heap /\ heap \in Heap /\ Root \in DOMAIN heap /\ list # 0
        /\ list' = 0 /\ plugins' = 0
    BY DEF Sound, End, Dumped, pluginVars
  <1>2. PICK r : r = AddData(heap, list)
    OBVIOUS
  <1>3. heap' = r /\ Grew(heap, r) /\ Delivered(r, list)
    BY <1>1, <1>2, AddDataGrows DEF End
  <1>4. Others = {Root} \cup {list} /\ Others' = {Root}
    BY <1>1 DEF Others, Root
  <1>5. Reach(heap, {Root}) \subseteq Reach(r, {Root})
    BY <1>1, <1>3, ReachGrows
  <1>6. Reach(heap, {list}) = {list} \cup Range(Kids(heap, list))
    BY <1>1, ReachLeaves DEF Shallow
  <1>7. Range(Kids(heap, list)) \subseteq Range(Kids(r, list))
    BY <1>1, <1>3 DEF Grew, Longer, Range
  <1>8. Reach(heap, {list}) \subseteq Reach(r, {Root})
    BY <1>3, <1>6, <1>7, DeliveredIsReached
  <1>9. Reach(heap, Others) = Reach(heap, {Root}) \cup Reach(heap, {list})
    BY <1>4, ReachUnion
  <1>10. Info(heap, data) = {}
    BY <1>1, NoInformation
  <1>11. Seen \subseteq Reach(r, {Root})
    BY <1>5, <1>8, <1>9, <1>10 DEF Seen
  <1>12. Reach(r, {Root}) \subseteq Seen'
    BY <1>3, <1>4 DEF Seen
  <1> QED
    BY <1>11, <1>12

LEMMA EndPluginsSaves ==
    ASSUME Sound, Shallow, NEW r \in DOMAIN data, EndPlugins(r)
    PROVE  Seen \subseteq Seen'
  <1>1. /\ plugins \in DOMAIN heap /\ plugins # 0 /\ heap \in Heap /\ Root \in DOMAIN heap
        /\ list = 0 /\ list' = 0 /\ plugins' = 0
    BY DEF Sound, EndPlugins, Dumped, dumpVars
  <1>2. data \in [Pair -> {0} \cup DOMAIN heap] /\ r \in Pair
    BY DEF Sound, Kept, Wholes
  <1>3. PICK d : d = data[r]
    OBVIOUS
  <1>4. d \in DOMAIN heap /\ Whole(heap, d)
    BY <1>2, <1>3 DEF EndPlugins, Sound, Kept, Wholes
  <1>5. PICK info : info = FindNode(heap, d, OutputName)
    OBVIOUS
  <1>6. Plugin!Information(r) = info
    BY <1>2, <1>3, <1>5, LookupsByName
  <1>7. PICK g : g = IF Kids(heap, info) = <<>> THEN heap ELSE AppendNode(heap, plugins, d)
    OBVIOUS
  <1>8. Grew(heap, g)
    <2>1. Grew(heap, heap) /\ Grew(heap, AppendNode(heap, plugins, d))
      BY <1>1, <1>4, AppendNodeGrows, GrewItself
    <2> QED
      BY <1>7, <2>1
  <1>9. PICK s : s = AddData(g, plugins)
    OBVIOUS
  <1>10. heap' = s
    BY <1>3, <1>6, <1>7, <1>9 DEF EndPlugins, Kids
  <1>11. Grew(g, s) /\ Delivered(s, plugins)
    BY <1>1, <1>8, <1>9, AddDataGrows DEF Grew
  <1>12. Grew(heap, s)
    BY <1>8, <1>11, GrewTransitive
  <1>13. Others = {Root} \cup {plugins} /\ Others' = {Root}
    BY <1>1 DEF Others, Root
  <1>14. Reach(heap, {Root}) \subseteq Reach(s, {Root})
    BY <1>1, <1>12, ReachGrows
  <1>15. Reach(heap, {plugins}) \subseteq Reach(s, {Root})
    <2>1. Leaves(heap, plugins) /\ Range(Kids(heap, plugins)) = {}
      BY <1>1 DEF Shallow, Leaves, Range
    <2>2. Reach(heap, {plugins}) = {plugins}
      BY <1>1, <2>1, ReachLeaves
    <2> QED
      BY <1>11, <2>2, DeliveredIsReached
  <1>16. Reach(heap, Others) = Reach(heap, {Root}) \cup Reach(heap, {plugins})
    BY <1>13, ReachUnion
  <1>17. ASSUME NEW x \in Range(Kids(heap, info)) PROVE x \in Reach(s, {Root})
    <2>1. Kids(heap, info) # <<>>
      BY <1>17 DEF Range
    <2>2. d \in Range(Kids(g, plugins)) /\ plugins \in DOMAIN g
      BY <1>1, <1>4, <1>7, <1>8, <2>1, AppendNodeGrows DEF Grew
    <2>3. d \in Range(Kids(s, plugins))
      BY <1>11, <2>2 DEF Grew, Longer, Range
    <2>4. info = Kids(heap, d)[2] /\ 2 \in DOMAIN Kids(heap, d)
      BY <1>1, <1>4, <1>5, WholeFinds
    <2>5. info \in DOMAIN heap /\ info \in Range(Kids(s, d))
      BY <1>1, <1>4, <1>12, <2>4, HeapNodes DEF Grew, Longer, Range
    <2>6. x \in Range(Kids(s, info))
      BY <1>12, <1>17, <2>5 DEF Grew, Longer, Range
    <2> QED
      BY <1>11, <2>3, <2>5, <2>6, DeliveredIsReached
  <1>18. ASSUME NEW q \in Pair, q # r, data[q] # 0
         PROVE  Range(Kids(heap, FindNode(heap, data[q], OutputName))) = {}
    <2>1. Plugin!IsEmpty(q)
      BY <1>2, <1>18 DEF EndPlugins
    <2>2. Plugin!Information(q) = FindNode(heap, data[q], OutputName)
      BY <1>18, LookupsByName
    <2>3. Kids(heap, FindNode(heap, data[q], OutputName)) = <<>>
      BY <2>1, <2>2 DEF Plugin!IsEmpty, Kids
    <2> QED
      BY <2>3 DEF Range
  <1>19. Info(heap, data) \subseteq Reach(s, {Root})
    BY <1>3, <1>5, <1>17, <1>18, InfoAre
  <1>20. Seen \subseteq Reach(s, {Root})
    BY <1>14, <1>15, <1>16, <1>19 DEF Seen
  <1>21. Reach(s, {Root}) \subseteq Seen'
    BY <1>10, <1>13 DEF Seen
  <1> QED
    BY <1>20, <1>21

LEMMA DumpSaves ==
    ASSUME Sound, Grew(heap, heap'), plugins = 0, Others \subseteq Others'
    PROVE  Seen \subseteq Seen'
  <1>1. Info(heap, data) = {}
    BY NoInformation
  <1> QED
    BY <1>1, StillSeen

LEMMA PluginStepSaves == ASSUME Sound, PluginStep PROVE Seen \subseteq Seen'
  <1>1. heap \in Heap /\ Wholes(heap, data) /\ Kept(heap, data, {}) /\ Plugin!Next
    BY DEF Sound, Kept, PluginStep
  <1>2. Info(heap, data) \subseteq Info(heap', data')
    BY <1>1, PluginSaves
  <1>3. Others' = Others
    BY DEF PluginStep, dumpVars, Others
  <1> QED
    BY <1>2, <1>3, PluginStepSound, StillSeen

\* Whatever the dump and the plugin have found stays in the report, in a list
\* that is being filled or in the information of a result, through every
\* append, add_data and merge, until it is in the report: for any file, however
\* many version resources it has, and any calls of the plugin
\* (output_formatter.h:85-101, result.cpp:138-152, main.cpp:387-400).
THEOREM NothingIsEverLost == Spec => NothingIsLost
  <1>1. ASSUME Sound, Shallow, [Next]_vars PROVE Seen \subseteq Seen'
    <2>1. Grew(heap, heap')
      BY <1>1, NextSound
    <2>2. CASE UNCHANGED vars
      BY <2>2 DEF Seen, Others, vars, dumpVars, pluginVars
    <2>3. CASE Skip \/ Begin \/ VersionFails \/ StartPlugins
      <3>1. plugins = 0 /\ Others \subseteq Others'
        <4>1. CASE Skip
          BY <1>1, <4>1 DEF Skip, Sound, Dumped, Others, pluginVars
        <4>2. CASE Begin
          BY <1>1, <4>2 DEF Begin, Sound, Dumped, Others, pluginVars
        <4>3. CASE VersionFails
          BY <1>1, <4>3 DEF VersionFails, Sound, Dumped, Others, pluginVars
        <4>4. CASE StartPlugins
          BY <1>1, <4>4 DEF StartPlugins, Others, dumpVars
        <4> QED
          BY <2>3, <4>1, <4>2, <4>3, <4>4
      <3> QED
        BY <1>1, <2>1, <3>1, DumpSaves
    <2>4. ASSUME NEW name \in EntryName, AddEntry(name) PROVE Seen \subseteq Seen'
      <3>1. plugins = 0 /\ Others' = Others
        BY <1>1, <2>4 DEF AddEntry, Sound, Dumped, Others, pluginVars, dumpVars
      <3> QED
        BY <1>1, <2>1, <3>1, DumpSaves
    <2>5. ASSUME NEW key, NEW string, DumpVersion(key, string) PROVE Seen \subseteq Seen'
      <3>1. plugins = 0 /\ Others' = Others
        BY <1>1, <2>5 DEF DumpVersion, Sound, Dumped, Others, pluginVars
      <3> QED
        BY <1>1, <2>1, <3>1, DumpSaves
    <2> QED
      BY <1>1, <2>2, <2>3, <2>4, <2>5, EndSaves, PluginStepSaves, EndPluginsSaves, Zenon DEF Next
  <1>2. Sound /\ Shallow /\ [Next]_vars => Seen \subseteq Seen' /\ Sound'
    BY <1>1, NextSound
  <1>3. (Sound => Found = Seen)'
    BY FoundIsSeen, PTL
  <1>4. Sound /\ Shallow /\ [Next]_vars => [Found \subseteq Found']_vars
    <2> SUFFICES ASSUME Sound, Shallow, [Next]_vars PROVE Found \subseteq Found'
      OBVIOUS
    <2>1. Found = Seen
      BY FoundIsSeen
    <2>2. Found' = Seen'
      BY <1>2, <1>3
    <2> QED
      BY <1>2, <2>1, <2>2
  <1> QED
    BY <1>4, AlwaysShallow, PTL DEF Spec, NothingIsLost
===============================================================================
