-------------------------- MODULE DirectoriesProofs ---------------------------
(***************************************************************************)
(* Proofs about the parsers of the relocations and of the certificates:    *)
(* for every size of the table and of the file, and every 2^w that sizes   *)
(* are counted modulo.                                                     *)
(***************************************************************************)
EXTENDS Directories, WellFoundedInduction, TLAPS

USE WrapAssumption, TableAssumption, AvailableAssumption

-------------------------------------------------------------------------------
(* A behaviour is one call.                                                *)

\* A step is one of the parser that was called, or it changes nothing.
LEMMA OneParser ==
    ASSUME [Next]_vars
    PROVE  /\ directory' = directory
           /\ directory = "relocations"  => Reloc!Step \/ UNCHANGED vars
           /\ directory = "certificates" => Cert!Step \/ UNCHANGED vars
           /\ directory = "config"       => Conf!Step \/ UNCHANGED vars
           /\ directory = "rich"         => Rich!Step \/ UNCHANGED vars
           /\ directory = "headers"      => Hdr!Step \/ UNCHANGED vars
           /\ directory = "imports"      => Imp!Step \/ UNCHANGED vars
           /\ directory = "exports"      => Exp!Step \/ UNCHANGED vars
           /\ directory = "debug"        => Debug!Step \/ UNCHANGED vars
           /\ directory = "tls"          => TLS!Step \/ UNCHANGED vars
           /\ directory = "resources"    => Res!Step \/ UNCHANGED vars
           /\ directory = "version"      => Ver!Step \/ UNCHANGED vars
           /\ directory = "icons"        => Icon!Step \/ UNCHANGED vars
           /\ directory = "addresses"    => Addr!Step \/ UNCHANGED vars
           /\ directory = "digest"       => Dig!Step \/ UNCHANGED vars
  <1>1. CASE \/ ParseRelocations \/ ParseCertificates \/ ParseConfig \/ ParseRich
             \/ ParseHeaders \/ ParseImports \/ ParseExports
    BY <1>1 DEF ParseRelocations, ParseCertificates, ParseConfig, ParseRich, ParseHeaders,
        ParseImports, ParseExports
  <1>2. CASE \/ ParseDebug \/ ParseTls \/ ParseResources \/ ParseVersion \/ ParseIcons
             \/ TranslateAddress \/ HashFile
    BY <1>2 DEF ParseDebug, ParseTls, ParseResources, ParseVersion, ParseIcons,
        TranslateAddress, HashFile
  <1>3. CASE Returned \/ UNCHANGED vars
    BY <1>3 DEF Returned, vars
  <1> QED
    BY <1>1, <1>2, <1>3 DEF Next, Step

-------------------------------------------------------------------------------
(* Arithmetic modulo 2^w.                                                  *)

\* A difference that is not negative is not changed by the unsigned arithmetic.
LEMMA NoWrap ==
    ASSUME NEW x \in 0..(Wrap - 1)
    PROVE  x % Wrap = x
  OBVIOUS

\* A negative one becomes a large number.
LEMMA WrapsAround ==
    ASSUME NEW x \in Int, -Wrap <= x, x < 0
    PROVE  x % Wrap = x + Wrap
  OBVIOUS

\* The number of entries of a block that is at least as long as its header, and
\* of one that is not (_parse_relocations, pe.cpp:809).
LEMMA EntriesOfBlock ==
    ASSUME NEW b \in 1..(Wrap - 1)
    PROVE  /\ Reloc!Entries(b) \in Nat
           /\ b >= 8 => Reloc!Entries(b) = (b - 8) \div 2
           /\ b < 8 => 2 * Reloc!Entries(b) >= Wrap - 8
  <1>1. CASE b >= 8
    <2>1. (b - 8) % Wrap = b - 8
      BY <1>1, NoWrap
    <2> QED
      BY <1>1, <2>1 DEF Reloc!Entries, Reloc!HeaderSize, Reloc!EntrySize
  <1>2. CASE b < 8
    <2>1. (b - 8) % Wrap = b - 8 + Wrap
      BY <1>2, WrapsAround
    <2> QED
      BY <1>2, <2>1 DEF Reloc!Entries, Reloc!HeaderSize, Reloc!EntrySize
  <1> QED
    BY <1>1, <1>2

-------------------------------------------------------------------------------
(* Induction.                                                              *)

\* Numbers have a least one among them.
LEMMA LeastNatural ==
    ASSUME NEW S \in SUBSET Nat, S # {}
    PROVE  \E k \in S : \A j \in S : k <= j
  <1>1. PICK R : R = OpToRel(<, Nat)
    BY Zenon
  <1>2. \A x, y \in Nat : x < y => <<x, y>> \in R
    BY <1>1 DEF OpToRel
  <1>3. IsWellFoundedOn(R, Nat)
    BY <1>1, NatLessThanWellFounded, Zenon
  <1>4. PICK k \in S : \A j \in S : ~(<<j, k>> \in R)
    BY <1>3, WFMin, Zenon
  <1>5. \A j \in S : ~(j < k)
    BY <1>2, <1>4
  <1> QED
    BY <1>5

\* Induction over the natural numbers, with a set for the property.
LEMMA Induction ==
    ASSUME NEW S \in SUBSET Nat, 0 \in S, \A n \in S : n + 1 \in S
    PROVE  S = Nat
  <1> SUFFICES ASSUME NEW n \in Nat \ S PROVE FALSE
    OBVIOUS
  <1>1. PICK m \in Nat \ S : \A k \in Nat \ S : m <= k
    BY LeastNatural
  <1>2. m - 1 \in S
    BY <1>1
  <1>3. (m - 1) + 1 \in S
    BY <1>2
  <1> QED
    BY <1>1, <1>3

\* What the recursive definition of KeptBytes defines, for the first n blocks.
CountsBytes(f, blocks, n) ==
    f = [k \in 0..n |-> IF k = 0 THEN 0 ELSE f[k - 1] + 8 + 2 * blocks[k].entries]

\* There is such a function.
LEMMA CountExists ==
    ASSUME NEW blocks, NEW m \in Nat, \A k \in 1..m : blocks[k].entries \in Nat
    PROVE  \E f \in [0..m -> Nat] : CountsBytes(f, blocks, m)
  <1> DEFINE S == {n \in Nat : n <= m => \E f \in [0..n -> Nat] : CountsBytes(f, blocks, n)}
  <1>1. 0 \in S
    <2>1. CountsBytes([k \in 0..0 |-> 0], blocks, 0)
      BY DEF CountsBytes
    <2>2. [k \in 0..0 |-> 0] \in [0..0 -> Nat]
      OBVIOUS
    <2> QED
      BY <2>1, <2>2
  <1>2. ASSUME NEW n \in S
        PROVE  n + 1 \in S
    <2> SUFFICES ASSUME n + 1 <= m
                 PROVE  \E f \in [0..(n + 1) -> Nat] : CountsBytes(f, blocks, n + 1)
      OBVIOUS
    <2>1. n \in Nat /\ blocks[n + 1].entries \in Nat
      OBVIOUS
    <2>2. PICK f \in [0..n -> Nat] : CountsBytes(f, blocks, n)
      BY <2>1
    <2> DEFINE g == [k \in 0..(n + 1) |->
                         IF k = n + 1 THEN f[n] + 8 + 2 * blocks[n + 1].entries ELSE f[k]]
    <2>3. g \in [0..(n + 1) -> Nat]
      BY <2>1, SMTT(30)
    <2>4. CountsBytes(g, blocks, n + 1)
      BY <2>1, <2>2 DEF CountsBytes
    <2> QED
      BY <2>3, <2>4
  <1> HIDE DEF S
  <1>3. S \in SUBSET Nat
    BY DEF S
  <1>4. \A n \in S : n + 1 \in S
    BY <1>2
  <1>5. S = Nat
    BY <1>1, <1>3, <1>4, Induction
  <1>6. m \in S /\ m <= m
    BY <1>5
  <1> QED
    BY <1>6 DEF S

\* Two such functions agree on the blocks that both count.
SameBlocks(b, c, m) == \A k \in 1..m : b[k] = c[k]

LEMMA CountIsUnique ==
    ASSUME NEW f, NEW g, NEW b, NEW c, NEW m \in Nat, NEW n \in Nat, m <= n,
           CountsBytes(f, b, m), CountsBytes(g, c, n), SameBlocks(b, c, m)
    PROVE  f[m] = g[m]
  <1> DEFINE S == {k \in Nat : k <= m => f[k] = g[k]}
  <1>1. 0 \in S
    BY DEF CountsBytes
  <1>2. ASSUME NEW k \in S
        PROVE  k + 1 \in S
    <2> SUFFICES ASSUME k + 1 <= m
                 PROVE  f[k + 1] = g[k + 1]
      OBVIOUS
    <2>1. k \in Nat /\ k + 1 \in 0..m /\ k + 1 \in 0..n /\ k + 1 \in 1..m /\ f[k] = g[k]
      OBVIOUS
    <2>2. f[k + 1] = f[(k + 1) - 1] + 8 + 2 * b[k + 1].entries
      BY <2>1 DEF CountsBytes
    <2>3. g[k + 1] = g[(k + 1) - 1] + 8 + 2 * c[k + 1].entries
      BY <2>1 DEF CountsBytes
    <2>4. b[k + 1] = c[k + 1]
      BY <2>1 DEF SameBlocks
    <2> QED
      BY <2>1, <2>2, <2>3, <2>4
  <1> HIDE DEF S
  <1>3. S \in SUBSET Nat /\ \A k \in S : k + 1 \in S
    BY <1>2 DEF S
  <1>4. S = Nat
    BY <1>1, <1>3, Induction
  <1>5. m \in S /\ m <= m
    BY <1>4
  <1> QED
    BY <1>5 DEF S

\* KeptBytes is the last value of such a function.
LEMMA KeptBytesOfSequence ==
    ASSUME NEW blocks \in Seq(Reloc!Block)
    PROVE  \E f \in [0..Len(blocks) -> Nat] :
               CountsBytes(f, blocks, Len(blocks)) /\ Reloc!KeptBytes(blocks) = f[Len(blocks)]
  <1>1. ASSUME NEW k \in 1..Len(blocks)
        PROVE  blocks[k].entries \in Nat
    <2>1. blocks[k] \in Reloc!Block
      OBVIOUS
    <2> QED
      BY <2>1 DEF Reloc!Block
  <1>2. PICK f \in [0..Len(blocks) -> Nat] : CountsBytes(f, blocks, Len(blocks))
    <2>1. Len(blocks) \in Nat /\ \A k \in 1..Len(blocks) : blocks[k].entries \in Nat
      BY <1>1
    <2> HIDE DEF CountsBytes
    <2> QED
      BY <2>1, CountExists
  <1>3. \E g : CountsBytes(g, blocks, Len(blocks)) /\ Reloc!KeptBytes(blocks) = g[Len(blocks)]
    BY <1>2 DEF CountsBytes, Reloc!KeptBytes, Reloc!HeaderSize, Reloc!EntrySize
  <1>4. PICK g : CountsBytes(g, blocks, Len(blocks)) /\ Reloc!KeptBytes(blocks) = g[Len(blocks)]
    BY <1>3
  <1>5. f[Len(blocks)] = g[Len(blocks)]
    <2>1. SameBlocks(blocks, blocks, Len(blocks)) /\ Len(blocks) \in Nat
      BY DEF SameBlocks
    <2> QED
      BY <1>2, <1>4, <2>1, CountIsUnique
  <1> QED
    BY <1>2, <1>4, <1>5

\* The bytes of no block, and those of one block more.
LEMMA KeptBytesOfNone == Reloc!KeptBytes(<<>>) = 0
  <1>1. <<>> \in Seq(Reloc!Block) /\ Len(<<>>) = 0
    OBVIOUS
  <1>2. PICK f \in [0..0 -> Nat] : CountsBytes(f, <<>>, 0) /\ Reloc!KeptBytes(<<>>) = f[0]
    BY <1>1, KeptBytesOfSequence
  <1> QED
    BY <1>2 DEF CountsBytes

LEMMA KeptBytesOfAppend ==
    ASSUME NEW blocks \in Seq(Reloc!Block), NEW new \in Reloc!Block
    PROVE  /\ Reloc!KeptBytes(blocks) \in Nat
           /\ Reloc!KeptBytes(Append(blocks, new))
                  = Reloc!KeptBytes(blocks) + 8 + 2 * new.entries
  <1> DEFINE m    == Len(blocks)
             more == Append(blocks, new)
  <1>1. /\ m \in Nat /\ more \in Seq(Reloc!Block) /\ Len(more) = m + 1
        /\ more[m + 1] = new /\ \A k \in 1..m : blocks[k] = more[k]
    OBVIOUS
  <1>2. PICK f \in [0..m -> Nat] : CountsBytes(f, blocks, m) /\ Reloc!KeptBytes(blocks) = f[m]
    BY KeptBytesOfSequence
  <1> HIDE DEF m, more
  <1>3. PICK g \in [0..(m + 1) -> Nat] :
            CountsBytes(g, more, m + 1) /\ Reloc!KeptBytes(more) = g[m + 1]
    BY <1>1, KeptBytesOfSequence
  <1>4. f[m] = g[m]
    <2>1. m + 1 \in Nat /\ m <= m + 1 /\ SameBlocks(blocks, more, m)
      BY <1>1 DEF SameBlocks
    <2>2. CountsBytes(f, blocks, m)
      BY <1>2
    <2>3. CountsBytes(g, more, m + 1)
      BY <1>3
    <2> QED
      BY <1>1, <2>1, <2>2, <2>3, CountIsUnique
  <1>5. g[m + 1] = g[(m + 1) - 1] + 8 + 2 * more[m + 1].entries
    BY <1>1, <1>3, SMTT(30) DEF CountsBytes
  <1>6. g[m + 1] = g[m] + 8 + 2 * new.entries
    BY <1>1, <1>5
  <1> QED
    BY <1>1, <1>2, <1>3, <1>4, <1>6 DEF more

-------------------------------------------------------------------------------
(* Relocations.                                                            *)

\* The blocks that were kept have even lengths.
EvenBlocks == \A k \in DOMAIN kept : kept[k].size % 2 = 0

\* The inductive invariant: a block that is being read fits in the table, the
\* entries that were read of it were in the file, and the cursor is where
\* remaining_size and the number of entries say.
RelocInv ==
    /\ Reloc!TypeOK
    /\ Reloc!BlocksAreWhole
    /\ pc = "entries" =>
           /\ item \in 1..remaining
           /\ left + 8 + 2 * count <= Available
    /\ Reloc!SmallFile /\ EvenBlocks =>
           /\ pc = "header" => left + (table - remaining) = Available
           /\ pc = "entries" => left + (table - remaining) + 8 + 2 * count = Available

RelocOK == directory = "relocations" => RelocInv

\* RelocInv is true when _parse_relocations is entered.
LEMMA RelocInit ==
    ASSUME directory = "relocations", Reloc!Init
    PROVE  RelocInv
  BY DEF Reloc!Init, RelocInv, Reloc!TypeOK, Reloc!BlocksAreWhole, EvenBlocks, Reloc!Block

\* Reading the header of a block keeps RelocInv.
LEMMA RelocReadHeader ==
    ASSUME RelocInv, Reloc!ReadHeader
    PROVE  RelocInv'
  <1> USE DEF Reloc!HeaderSize, Reloc!EntrySize
  <1>1. /\ table' = table /\ remaining' = remaining /\ kept' = kept
        /\ left >= 8 /\ left' = left - 8 /\ pc = "header" /\ remaining > 0
    BY DEF Reloc!ReadHeader
  <1>2. PICK b \in 0..(Wrap - 1) :
           \/ b > remaining /\ pc' = "failed" /\ UNCHANGED <<item, count>>
           \/ b = 0 /\ pc' = "done" /\ UNCHANGED <<item, count>>
           \/ b \in 1..remaining /\ pc' = "entries" /\ item' = b /\ count' = 0
    BY DEF Reloc!ReadHeader
  <1>3. Reloc!TypeOK'
    BY <1>1, <1>2 DEF RelocInv, Reloc!TypeOK
  <1>4. Reloc!BlocksAreWhole'
    BY <1>1 DEF RelocInv, Reloc!BlocksAreWhole, Reloc!SmallFile
  <1>5. EvenBlocks' = EvenBlocks
    BY <1>1 DEF EvenBlocks
  <1>6. left \in Nat /\ Available \in Nat /\ table \in Nat /\ remaining \in 0..table
    BY DEF RelocInv, Reloc!TypeOK
  <1>7. pc' = "entries" => item' \in 1..remaining' /\ left' + 8 + 2 * count' <= Available
    BY <1>1, <1>2, <1>6 DEF RelocInv, Reloc!TypeOK
  <1>8. pc' # "header"
    BY <1>2
  <1>9. Reloc!SmallFile /\ EvenBlocks /\ pc' = "entries"
            => left' + (table' - remaining') + 8 + 2 * count' = Available
    BY <1>1, <1>2, <1>6 DEF RelocInv
  <1> QED
    BY <1>3, <1>4, <1>5, <1>7, <1>8, <1>9 DEF RelocInv, Reloc!SmallFile

\* Reading one entry of a block keeps RelocInv.
LEMMA RelocReadEntry ==
    ASSUME RelocInv, Reloc!ReadEntry
    PROVE  RelocInv'
  <1> USE DEF Reloc!HeaderSize, Reloc!EntrySize
  <1>1. /\ UNCHANGED <<table, pc, remaining, item, kept>>
        /\ left >= 2 /\ left' = left - 2 /\ count' = count + 1 /\ pc = "entries"
    BY DEF Reloc!ReadEntry
  <1>2. Reloc!TypeOK'
    BY <1>1 DEF RelocInv, Reloc!TypeOK
  <1>3. Reloc!BlocksAreWhole'
    BY <1>1 DEF RelocInv, Reloc!BlocksAreWhole, Reloc!SmallFile
  <1>4. EvenBlocks' = EvenBlocks
    BY <1>1 DEF EvenBlocks
  <1> QED
    BY <1>1, <1>2, <1>3, <1>4 DEF RelocInv, Reloc!TypeOK, Reloc!SmallFile

\* Keeping a block keeps RelocInv: one that is shorter than its header would
\* have needed more entries than a small file has bytes for.
LEMMA RelocEndBlock ==
    ASSUME RelocInv, Reloc!EndBlock
    PROVE  RelocInv'
  <1> USE DEF Reloc!HeaderSize, Reloc!EntrySize
  <1> DEFINE new == [size |-> item, entries |-> count]
  <1>1. /\ UNCHANGED <<table, left, item, count>>
        /\ pc = "entries" /\ pc' = "header" /\ count = Reloc!Entries(item)
        /\ remaining' = remaining - item /\ kept' = Append(kept, new)
    BY DEF Reloc!EndBlock
  <1>2. /\ item \in 1..remaining /\ item \in 1..(Wrap - 1)
        /\ left + 8 + 2 * count <= Available
        /\ left \in Nat /\ count \in Nat /\ remaining \in 0..table /\ table \in 0..(Wrap - 1)
        /\ kept \in Seq(Reloc!Block)
    BY <1>1 DEF RelocInv, Reloc!TypeOK
  <1>3. new \in Reloc!Block
    BY <1>2 DEF Reloc!Block
  <1>4. Reloc!TypeOK'
    BY <1>1, <1>2, <1>3 DEF RelocInv, Reloc!TypeOK
  <1>5. Reloc!SmallFile => item >= 8 /\ count = (item - 8) \div 2
    <2>1. /\ item >= 8 => count = (item - 8) \div 2
          /\ item < 8 => 2 * count >= Wrap - 8
      BY <1>1, <1>2, EntriesOfBlock
    <2> QED
      BY <1>2, <2>1 DEF Reloc!SmallFile
  <1>6. /\ \A k \in DOMAIN kept : k \in DOMAIN kept' /\ kept'[k] = kept[k]
        /\ \A k \in DOMAIN kept' : k \in DOMAIN kept \/ kept'[k] = new
        /\ \E k \in DOMAIN kept' : kept'[k] = new
    <2> HIDE DEF new
    <2>1. /\ kept' = Append(kept, new) /\ DOMAIN kept = 1..Len(kept) /\ Len(kept) \in Nat
          /\ DOMAIN kept' = 1..(Len(kept) + 1) /\ kept'[Len(kept) + 1] = new
      BY <1>1, <1>2, <1>3
    <2>2. ASSUME NEW k \in DOMAIN kept
          PROVE  k \in DOMAIN kept' /\ kept'[k] = kept[k]
      BY <2>1, <1>2, <1>3
    <2>3. ASSUME NEW k \in DOMAIN kept'
          PROVE  k \in DOMAIN kept \/ kept'[k] = new
      BY <2>1
    <2>4. Len(kept) + 1 \in DOMAIN kept'
      BY <2>1
    <2> QED
      BY <2>1, <2>2, <2>3, <2>4
  <1>7. Reloc!BlocksAreWhole'
    BY <1>5, <1>6 DEF RelocInv, Reloc!BlocksAreWhole, Reloc!SmallFile
  <1>8. EvenBlocks' => EvenBlocks /\ item % 2 = 0
    BY <1>6 DEF EvenBlocks
  <1>9. Reloc!SmallFile /\ EvenBlocks' => left' + (table' - remaining') = Available
    BY <1>1, <1>2, <1>5, <1>8 DEF RelocInv
  <1> QED
    BY <1>1, <1>4, <1>7, <1>9 DEF RelocInv, Reloc!SmallFile

\* A step that returns from _parse_relocations keeps RelocInv.
LEMMA RelocReturn ==
    ASSUME RelocInv, Reloc!HeaderTruncated \/ Reloc!EntryTruncated \/ Reloc!EndTable
    PROVE  RelocInv'
  <1>1. /\ UNCHANGED <<table, remaining, item, count, kept>>
        /\ left' \in {0, left} /\ pc' \in {"done", "failed"}
    BY DEF Reloc!HeaderTruncated, Reloc!EntryTruncated, Reloc!EndTable
  <1>2. Reloc!TypeOK'
    BY <1>1 DEF RelocInv, Reloc!TypeOK
  <1>3. Reloc!BlocksAreWhole'
    BY <1>1 DEF RelocInv, Reloc!BlocksAreWhole, Reloc!SmallFile
  <1> QED
    BY <1>1, <1>2, <1>3 DEF RelocInv

\* Nothing but _parse_relocations touches what RelocInv speaks of.
LEMMA RelocUntouched ==
    ASSUME RelocInv, UNCHANGED <<pc, tableVars>>
    PROVE  RelocInv'
  BY DEF RelocInv, tableVars, Reloc!TypeOK, Reloc!BlocksAreWhole, Reloc!SmallFile, EvenBlocks

\* RelocOK holds in every state.
LEMMA RelocAlways == Spec => []RelocOK
  <1>1. Init => RelocOK
    BY RelocInit DEF Init, RelocOK
  <1>2. RelocOK /\ [Next]_vars => RelocOK'
    <2> SUFFICES ASSUME RelocOK, [Next]_vars, directory' = "relocations"
                 PROVE  RelocInv'
      BY DEF RelocOK
    <2>1. RelocInv /\ (Reloc!Step \/ UNCHANGED vars)
      BY OneParser DEF RelocOK
    <2>2. CASE Reloc!Step
      BY <2>1, <2>2, RelocReadHeader, RelocReadEntry, RelocEndBlock, RelocReturn DEF Reloc!Step
    <2>3. CASE UNCHANGED vars
      BY <2>1, <2>3, RelocUntouched DEF vars
    <2> QED
      BY <2>1, <2>2, <2>3
  <1> QED
    BY <1>1, <1>2, PTL DEF Spec

\* For every size of the table and of the file, _parse_relocations only keeps
\* blocks that are whole: as long as their length says, and no shorter than
\* their header.
THEOREM RelocationsWhole == Spec => []RelocationBlocksAreWhole
  <1>1. RelocOK => RelocationBlocksAreWhole
    BY DEF RelocOK, RelocInv, RelocationBlocksAreWhole
  <1> QED
    BY <1>1, RelocAlways, PTL

\* For every size of the table and of the file, the cursor of
\* _parse_relocations and its count of remaining bytes stay in step, unless the
\* file has a block of an odd length.
THEOREM RelocationsKeepStep == Spec => []RelocationsInStep
  <1>1. RelocOK => RelocationsInStep
    BY DEF RelocOK, RelocInv, RelocationsInStep, Reloc!InStep, EvenBlocks, Reloc!EntrySize
  <1> QED
    BY <1>1, RelocAlways, PTL

\* The inductive invariant for the number of entries: what was kept and what was
\* read of the current block was in the file.
BytesInv ==
    /\ Reloc!KeptBytes(kept) + left <= Available
    /\ pc = "entries" => Reloc!KeptBytes(kept) + 8 + 2 * count + left <= Available

BytesOK == directory = "relocations" => BytesInv

\* A step of _parse_relocations keeps it.
LEMMA BytesStep ==
    ASSUME RelocInv, BytesInv, Reloc!Step
    PROVE  BytesInv'
  <1> USE DEF Reloc!HeaderSize, Reloc!EntrySize
  <1>1. /\ kept \in Seq(Reloc!Block) /\ left \in Nat /\ count \in Nat
        /\ item \in 0..table /\ table \in 0..(Wrap - 1)
    BY DEF RelocInv, Reloc!TypeOK
  <1>2. PICK n \in Nat : n = Reloc!KeptBytes(kept)
    <2>1. \E f \in [0..Len(kept) -> Nat] : Reloc!KeptBytes(kept) = f[Len(kept)]
      BY <1>1, KeptBytesOfSequence
    <2> QED
      BY <1>1, <2>1
  <1>3. n + left <= Available /\ (pc = "entries" => n + 8 + 2 * count + left <= Available)
    BY <1>2 DEF BytesInv
  <1>4. kept' = kept => Reloc!KeptBytes(kept)' = n
    BY <1>2
  <1>5. CASE Reloc!ReadHeader
    <2>1. kept' = kept /\ left' = left - 8 /\ left >= 8 /\ (pc' = "entries" => count' = 0)
      BY <1>5 DEF Reloc!ReadHeader
    <2> QED
      BY <1>1, <1>3, <1>4, <2>1 DEF BytesInv
  <1>6. CASE Reloc!ReadEntry
    <2>1. /\ kept' = kept /\ pc = "entries"
          /\ left' = left - 2 /\ left >= 2 /\ count' = count + 1
      BY <1>6 DEF Reloc!ReadEntry
    <2> QED
      BY <1>1, <1>3, <1>4, <2>1 DEF BytesInv
  <1>7. CASE Reloc!EndBlock
    <2> DEFINE new == [size |-> item, entries |-> count]
    <2>1. /\ pc = "entries" /\ pc' = "header" /\ left' = left
          /\ kept' = Append(kept, new)
      BY <1>7 DEF Reloc!EndBlock
    <2>2. new \in Reloc!Block /\ new.entries = count
      BY <1>1, <2>1 DEF Reloc!Block, RelocInv
    <2> HIDE DEF new
    <2>3. Reloc!KeptBytes(Append(kept, new)) = n + 8 + 2 * count
      BY <1>1, <1>2, <2>2, KeptBytesOfAppend
    <2>4. Reloc!KeptBytes(kept)' = n + 8 + 2 * count
      BY <2>1, <2>3
    <2> QED
      BY <1>1, <1>3, <2>1, <2>4 DEF BytesInv
  <1>8. CASE Reloc!HeaderTruncated \/ Reloc!EntryTruncated \/ Reloc!EndTable
    <2>1. kept' = kept /\ left' \in {0, left} /\ pc' \in {"done", "failed"}
      BY <1>8 DEF Reloc!HeaderTruncated, Reloc!EntryTruncated, Reloc!EndTable
    <2>2. n + left' <= Available
      <3>1. CASE left' = 0
        BY <1>1, <1>3, <3>1
      <3>2. CASE left' = left
        BY <1>3, <3>2
      <3> QED
        BY <2>1, <3>1, <3>2
    <2> QED
      BY <1>4, <2>1, <2>2 DEF BytesInv
  <1> QED
    BY <1>5, <1>6, <1>7, <1>8 DEF Reloc!Step

\* For every size of the table and of the file, _parse_relocations never keeps more
\* entries than the file has bytes for, whatever the sizes of the blocks announce
\* (pe.cpp:791-824).
THEOREM RelocationsStayWithinFile == Spec => []RelocationsBoundedByFile
  <1>1. Init => BytesOK
    BY KeptBytesOfNone DEF Init, Reloc!Init, BytesOK, BytesInv
  <1>2. RelocOK /\ BytesOK /\ [Next]_vars => BytesOK'
    <2> SUFFICES ASSUME RelocOK, BytesOK, [Next]_vars, directory' = "relocations"
                 PROVE  BytesInv'
      BY DEF BytesOK
    <2>1. RelocInv /\ BytesInv /\ (Reloc!Step \/ UNCHANGED vars)
      BY OneParser DEF RelocOK, BytesOK
    <2>2. CASE Reloc!Step
      BY <2>1, <2>2, BytesStep
    <2>3. CASE UNCHANGED vars
      BY <2>1, <2>3 DEF vars, tableVars, BytesInv
    <2> QED
      BY <2>1, <2>2, <2>3
  <1>3. BytesOK => RelocationsBoundedByFile
    BY DEF BytesOK, BytesInv, RelocationsBoundedByFile, Reloc!BoundedByFile
  <1> QED
    BY <1>1, <1>2, <1>3, RelocAlways, PTL DEF Spec

-------------------------------------------------------------------------------
(* Certificates.                                                           *)

\* The inductive invariant: once a certificate was kept, what is left of the
\* file is shorter than what remaining_bytes has become, by more than a header.
CertInv ==
    /\ Cert!TypeOK
    /\ pc = "data" => remaining > 8 /\ left + 8 <= Available
    /\ Cert!SmallFile =>
           /\ Len(kept) <= 1
           /\ kept # <<>> =>
                  /\ kept[1] <= Available
                  /\ pc = "header" =>
                         /\ remaining = 0 \/ remaining > Wrap - kept[1] + 1
                         /\ left + kept[1] <= Available
                  /\ pc = "data" =>
                         /\ remaining > Wrap - kept[1] + 1
                         /\ left + kept[1] + 8 <= Available

CertOK == directory = "certificates" => CertInv

\* CertInv is true when _parse_certificates is entered.
LEMMA CertInit ==
    ASSUME directory = "certificates", Cert!Init
    PROVE  CertInv
  BY DEF Cert!Init, CertInv, Cert!TypeOK

\* The value of an unsigned expression is an unsigned number.
LEMMA Unsigned ==
    ASSUME NEW x \in Int
    PROVE  x % Wrap \in 0..(Wrap - 1)
  OBVIOUS

\* Reading the header of a certificate keeps CertInv.
LEMMA CertReadHeader ==
    ASSUME CertInv, Cert!ReadHeader
    PROVE  CertInv'
  <1> USE DEF Cert!HeaderSize
  <1>1. /\ UNCHANGED <<table, remaining, kept>>
        /\ pc = "header" /\ pc' = "data" /\ remaining > 8
        /\ left >= 8 /\ left' = left - 8 /\ item' \in 0..(Wrap - 1)
    BY DEF Cert!ReadHeader, Cert!More
  <1>2. /\ left \in Nat /\ remaining \in Nat /\ left <= Available
        /\ kept \in Seq(8..(Wrap - 1))
    BY DEF CertInv, Cert!TypeOK
  <1>3. Cert!TypeOK'
    BY <1>1, <1>2 DEF CertInv, Cert!TypeOK
  <1>4. kept # <<>> => kept[1] \in Nat
    BY <1>2
  <1> QED
    BY <1>1, <1>2, <1>3, <1>4 DEF CertInv, Cert!SmallFile

\* The number of bytes to read of a certificate that has a whole header, and of
\* one that has not (_parse_certificates, pe.cpp:1058).
LEMMA CertDataSize ==
    ASSUME item \in 0..(Wrap - 1)
    PROVE  /\ Cert!DataSize \in Nat
           /\ item >= 8 => Cert!DataSize = item - 8
           /\ item < 8 => Cert!DataSize = item - 8 + Wrap
  <1> USE DEF Cert!DataSize, Cert!HeaderSize
  <1>1. CASE item >= 8
    BY <1>1, NoWrap
  <1>2. CASE item < 8
    BY <1>2, WrapsAround
  <1> QED
    BY <1>1, <1>2

\* What remaining_bytes becomes after a certificate that is not shorter than it.
LEMMA CertRemaining ==
    ASSUME item \in 0..(Wrap - 1), remaining \in 0..(Wrap - 1),
           remaining > 8, item >= remaining, Cert!ReadData
    PROVE  remaining' = 0 \/ remaining' > Wrap - item + 1
  <1> DEFINE rest == (remaining - item) % Wrap
  <1>1. Cert!Padding \in 0..7
    BY DEF Cert!Padding, Cert!Alignment
  <1>2. CASE item = remaining
    <2>1. rest = 0
      BY <1>2, NoWrap
    <2> QED
      BY <2>1 DEF Cert!ReadData
  <1>3. CASE item > remaining
    <2>1. rest = remaining - item + Wrap
      BY <1>3, WrapsAround
    <2>2. rest \in 0..(Wrap - 1) /\ rest > 7
      BY <1>3, <2>1
    <2>3. (rest - Cert!Padding) % Wrap = rest - Cert!Padding
      BY <1>1, <2>2, NoWrap
    <2>4. remaining' = rest - Cert!Padding \/ remaining' = rest
      BY <2>3 DEF Cert!ReadData
    <2> QED
      BY <1>1, <2>1, <2>4
  <1> QED
    BY <1>2, <1>3

\* Keeping a certificate keeps CertInv: of a small file it is the first one,
\* since no later one reaches remaining_bytes and fits in the file.
LEMMA CertReadData ==
    ASSUME CertInv, Cert!ReadData
    PROVE  CertInv'
  <1> USE DEF Cert!HeaderSize, Cert!Alignment
  <1>1. /\ item \in 0..(Wrap - 1) /\ remaining \in 0..(Wrap - 1) /\ remaining > 8
        /\ left \in Nat /\ left + 8 <= Available
        /\ kept \in Seq(8..(Wrap - 1)) /\ table \in TableSize
    BY DEF Cert!ReadData, CertInv, Cert!TypeOK
  <1>2. item >= remaining /\ Cert!DataSize <= left
    BY <1>1, CertDataSize DEF Cert!ReadData, Cert!Rejected
  <1>3. Cert!DataSize = item - 8
    BY <1>1, <1>2, CertDataSize
  <1>4. /\ kept' = Append(kept, item) /\ pc = "data" /\ pc' = "header"
        /\ UNCHANGED <<table, item>>
    BY DEF Cert!ReadData
  <1>5. left' \in 0..Available /\ left' + item <= Available /\ item <= Available
    <2>1. Cert!Padding \in 0..7
      BY <1>1 DEF Cert!Padding
    <2>2. \/ left' = left - Cert!DataSize
          \/ left' = IF left - Cert!DataSize < Cert!Padding THEN 0
                     ELSE left - Cert!DataSize - Cert!Padding
      BY DEF Cert!ReadData
    <2> QED
      BY <1>1, <1>2, <1>3, <2>1, <2>2
  <1>6. remaining' \in 0..(Wrap - 1)
    <2> DEFINE rest == (remaining - item) % Wrap
    <2>1. Cert!Padding \in Int
      BY <1>1 DEF Cert!Padding
    <2>2. rest \in 0..(Wrap - 1)
      <3>1. remaining - item \in Int
        BY <1>1
      <3> QED
        BY <3>1, Unsigned
    <2>3. (rest - Cert!Padding) % Wrap \in 0..(Wrap - 1)
      BY <2>1, <2>2, Unsigned, SMTT(30)
    <2>4. remaining' = rest \/ remaining' = (rest - Cert!Padding) % Wrap
      BY DEF Cert!ReadData
    <2> QED
      BY <2>2, <2>3, <2>4
  <1>7. Cert!TypeOK'
    BY <1>1, <1>2, <1>4, <1>5, <1>6 DEF Cert!TypeOK
  <1>8. Cert!SmallFile => kept = <<>>
    <2> SUFFICES ASSUME Cert!SmallFile, kept # <<>> PROVE FALSE
      OBVIOUS
    <2>1. kept[1] \in 8..(Wrap - 1)
      BY <1>1
    <2>2. remaining > Wrap - kept[1] + 1 /\ left + kept[1] + 8 <= Available
      BY <1>4 DEF CertInv
    <2> QED
      BY <1>1, <1>2, <1>3, <2>1, <2>2, SMTT(30) DEF Cert!SmallFile
  <1>9. Cert!SmallFile => Len(kept') = 1 /\ kept'[1] = item
    BY <1>4, <1>8
  <1>10. remaining' = 0 \/ remaining' > Wrap - item + 1
    BY <1>1, <1>2, CertRemaining
  <1> QED
    BY <1>4, <1>7, <1>9, <1>10, <1>5 DEF CertInv, Cert!SmallFile

\* A step that returns from _parse_certificates keeps CertInv.
LEMMA CertReturn ==
    ASSUME CertInv,
           Cert!GiveUp \/ Cert!AllocationFails \/ Cert!DataFails \/ Cert!EndTable
    PROVE  CertInv'
  <1>1. /\ UNCHANGED <<table, remaining, item, kept>>
        /\ pc' \in {"done", "failed"}
        /\ left' \in {0, left} \/ (left >= 8 /\ left' = left - 8)
    <2>1. left \in Nat
      BY DEF CertInv, Cert!TypeOK
    <2>2. CASE Cert!GiveUp
      BY <2>1, <2>2 DEF Cert!GiveUp, Cert!HeaderSize
    <2>3. CASE Cert!AllocationFails \/ Cert!EndTable
      BY <2>3 DEF Cert!AllocationFails, Cert!EndTable
    <2>4. CASE Cert!DataFails
      BY <2>4 DEF Cert!DataFails
    <2> QED
      BY <2>2, <2>3, <2>4
  <1>2. Cert!TypeOK'
    BY <1>1 DEF CertInv, Cert!TypeOK
  <1> QED
    BY <1>1, <1>2 DEF CertInv, Cert!SmallFile

\* Nothing but _parse_certificates touches what CertInv speaks of.
LEMMA CertUntouched ==
    ASSUME CertInv, UNCHANGED <<pc, tableVars>>
    PROVE  CertInv'
  BY DEF CertInv, tableVars, Cert!TypeOK, Cert!SmallFile

\* CertOK holds in every state.
LEMMA CertAlways == Spec => []CertOK
  <1>1. Init => CertOK
    BY CertInit DEF Init, CertOK
  <1>2. CertOK /\ [Next]_vars => CertOK'
    <2> SUFFICES ASSUME CertOK, [Next]_vars, directory' = "certificates"
                 PROVE  CertInv'
      BY DEF CertOK
    <2>1. CertInv /\ (Cert!Step \/ UNCHANGED vars)
      BY OneParser DEF CertOK
    <2>2. CASE Cert!Step
      BY <2>1, <2>2, CertReadHeader, CertReadData, CertReturn DEF Cert!Step
    <2>3. CASE UNCHANGED vars
      BY <2>1, <2>3, CertUntouched DEF vars
    <2> QED
      BY <2>1, <2>2, <2>3
  <1> QED
    BY <1>1, <1>2, PTL DEF Spec

\* For every table and every file of less than 4 GB, _parse_certificates keeps at
\* most one certificate, although its count of remaining bytes wraps.
THEOREM AtMostOneCertificate == Spec => []OneCertificate
  <1>1. CertOK => OneCertificate
    BY DEF CertOK, CertInv, OneCertificate, Cert!OneCertificate
  <1> QED
    BY <1>1, CertAlways, PTL

\* For every table and every file of less than 4 GB, the certificate that is kept
\* is no longer than the file behind the start of the table.
THEOREM CertificateInFile == Spec => []CertificateWithinFile
  <1>1. CertOK => CertificateWithinFile
    BY DEF CertOK, CertInv, CertificateWithinFile, Cert!WithinFile
  <1> QED
    BY <1>1, CertAlways, PTL
===============================================================================
