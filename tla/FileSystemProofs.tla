-------------------------- MODULE FileSystemProofs --------------------------
(***************************************************************************)
(* What the file system keeps on the disk, for any sizes of the disk, its  *)
(* sectors and the directory, any names and any files.                     *)
(*                                                                         *)
(* The writes of an operation reach the disk one by one, so the invariant  *)
(* is about all the disks that the operation will go through: Moments,     *)
(* from what is on the disk now to Done, when the last write is.  FsInv    *)
(* says that each of them is openable, whatever came before; and, unless a *)
(* crash has cut an operation short, that the last has a free map that     *)
(* agrees with its directory, and that they differ in one file at most.    *)
(* A write takes the disk from one moment to the next, so the work is in   *)
(* the steps that start an operation, each of which goes through these     *)
(* lemmas:                                                                 *)
(*   - the writes that the operation queues (WritesOfCreate, ...);         *)
(*   - the disks they produce one after the other (FirstWrites, Written);  *)
(*   - each of these is a Stage: all entries but the operation's own are   *)
(*     as before, and the disk is openable (CreateStages, ...);            *)
(*   - hence the invariant (StagesSuffice).                                *)
(* Create takes its sectors from the clear bits of the map, which no file  *)
(* has (FindIsClear, FindManyAreClear); a part of the directory may be on  *)
(* the disk without the other (Mixed).                                     *)
(*                                                                         *)
(* That these disks are those of AtomicFiles needs, besides FsInv, what a  *)
(* command has done so far of its file (ProgressInv): then each step of    *)
(* the program is a step of AtomicFiles, or none (AbstractStep).           *)
(***************************************************************************)
EXTENDS FileSystem, FunctionTheorems, FiniteSetTheorems, SequenceTheorems, WellFoundedInduction, TLAPS

-----------------------------------------------------------------------------
(* Numbers.                                                                *)

\* The first and the last of some numbers.
LEMMA MinIsFirst ==
  ASSUME NEW S \in SUBSET Nat, S # {}
  PROVE  Min(S) \in S /\ \A n \in S : Min(S) <= n
<1> DEFINE R == {ss \in Nat \X Nat : ss[1] < ss[2]}
<1>1. IsWellFoundedOn(R, Nat)
  BY NatLessThanWellFounded, Zenon DEF OpToRel
<1> HIDE DEF R
<1>2. PICK m \in S : \A n \in S : ~ (<<n, m>> \in R)
  BY <1>1, WFMin, Zenon
<1>3. ASSUME NEW n \in S
      PROVE  m <= n
  <2>1. ~ (n < m)
    BY <1>2 DEF R
  <2> QED BY <2>1
<1> QED BY <1>3 DEF Min

LEMMA MaxIsLast ==
  ASSUME NEW k \in Nat, NEW S \in SUBSET (1..k), S # {}
  PROVE  Max(S) \in S /\ \A n \in S : Max(S) >= n
<1> DEFINE B == {b \in Nat : \A n \in S : n <= b}
           m == Min(B)
<1>1. k \in B
  OBVIOUS
<1>2. m \in B /\ \A b \in B : m <= b
  BY <1>1, MinIsFirst
<1> HIDE DEF m
<1>3. m \in S
  <2> SUFFICES ASSUME m \notin S PROVE FALSE
    OBVIOUS
  <2>1. PICK n \in S : n <= m
    BY <1>2
  <2>2. m - 1 \in Nat
    BY <1>2, <2>1
  <2>3. \A j \in S : j <= m - 1
    BY <1>2
  <2>4. m - 1 \in B
    BY <2>2, <2>3
  <2> QED BY <1>2, <2>2, <2>4
<1> QED BY <1>2, <1>3 DEF Max

\* A file of some length takes a number of sectors, and each of its bytes is in
\* one of them.
LEMMA BlocksForLength ==
  ASSUME NEW length \in Nat
  PROVE  /\ BlocksFor(length) \in Nat
         /\ \A k \in Nat : k < length => /\ k \div SectorSize + 1 \in 1..BlocksFor(length)
                                         /\ k % SectorSize \in 0 .. SectorSize - 1
<1>1. SectorSize \in Nat /\ SectorSize > 0
  BY FileSystemAssumption
<1>2. BlocksFor(length) \in Nat
  BY <1>1 DEF BlocksFor
<1>3. ASSUME NEW k \in Nat, k < length
      PROVE  k \div SectorSize + 1 \in 1..BlocksFor(length) /\ k % SectorSize \in 0 .. SectorSize - 1
  <2>1. k \div SectorSize \in Nat /\ k % SectorSize \in 0 .. SectorSize - 1
    BY <1>1
  <2>2. k \div SectorSize + 1 <= BlocksFor(length)
    BY <1>1, <1>3, Z3 DEF BlocksFor
  <2> QED BY <1>2, <2>1, <2>2
<1> QED BY <1>2, <1>3

LEMMA BlocksOfLayout == BlocksFor(1) = 1 /\ BlocksFor(SectorSize + 1) = 2
<1>1. SectorSize \in Nat /\ SectorSize > 0
  BY FileSystemAssumption
<1> QED BY <1>1, Z3 DEF BlocksFor

-----------------------------------------------------------------------------
(* The clear bits of the free map, and the layout of the disk.             *)

LEMMA SectorsAreNumbers ==
  /\ NumSectors \in Nat /\ Sectors \subseteq Nat
  /\ IsFiniteSet(Sectors) /\ Cardinality(Sectors) = NumSectors
  /\ \A used : /\ Clear(used) \subseteq Sectors /\ IsFiniteSet(Clear(used))
               /\ Cardinality(Clear(used)) \in Nat
<1>1. NumSectors \in Nat /\ NumSectors >= 5
  BY FileSystemAssumption
<1>2. Sectors \subseteq Nat
  BY <1>1 DEF Sectors
<1>3. IsFiniteSet(Sectors) /\ Cardinality(Sectors) = NumSectors
  BY <1>1, FS_Interval DEF Sectors
<1>4. ASSUME NEW used
      PROVE  /\ Clear(used) \subseteq Sectors /\ IsFiniteSet(Clear(used))
             /\ Cardinality(Clear(used)) \in Nat
  <2>1. Clear(used) \subseteq Sectors
    BY DEF Clear
  <2> QED BY <1>3, <2>1, FS_Subset, FS_CardinalityType
<1> QED BY <1>1, <1>2, <1>3, <1>4

\* BitMap::Find finds a clear bit, if there is one.
LEMMA FindIsClear ==
  ASSUME NEW used, Clear(used) # {}
  PROVE  Find(used) \in Clear(used) /\ Find(used) \in Sectors /\ Find(used) \notin used
<1>1. Clear(used) \in SUBSET Nat
  BY SectorsAreNumbers
<1>2. Find(used) \in Clear(used)
  BY <1>1, MinIsFirst DEF Find
<1> QED BY <1>2 DEF Clear

\* How many numbers of C are below s.
Rank(C, s) == Cardinality({r \in C : r < s})

\* The ranks of n numbers are 0 to n-1, each once.
LEMMA RanksAreAll ==
  ASSUME NEW C \in SUBSET Nat, IsFiniteSet(C), NEW m \in Nat, m < Cardinality(C)
  PROVE  \E s \in C : Rank(C, s) = m
<1> DEFINE n == Cardinality(C)
           T == 0 .. n - 1
           f == [s \in C |-> Rank(C, s)]
<1>1. n \in Nat
  BY FS_CardinalityType
<1>2. ASSUME NEW s \in C
      PROVE  Rank(C, s) \in T
  <2>1. {r \in C : r < s} \in SUBSET (C \ {s})
    BY DEF T
  <2>2. IsFiniteSet(C \ {s}) /\ Cardinality(C \ {s}) = n - 1
    BY <1>1, FS_RemoveElement
  <2>3. IsFiniteSet({r \in C : r < s}) /\ Rank(C, s) <= n - 1
    BY <2>1, <2>2, FS_Subset DEF Rank
  <2>4. Rank(C, s) \in Nat
    BY <2>3, FS_CardinalityType DEF Rank
  <2> QED BY <1>1, <2>3, <2>4
<1>3. ASSUME NEW s \in C, NEW t \in C, s < t
      PROVE  Rank(C, s) < Rank(C, t)
  <2> DEFINE S == {r \in C : r < s}
             U == {r \in C : r < t}
  <2>1. IsFiniteSet(S) /\ IsFiniteSet(U)
    BY FS_Subset
  <2>2. S \cup {s} \in SUBSET U /\ s \notin S
    <3>1. s \in Nat /\ t \in Nat /\ \A r \in C : r \in Nat
      OBVIOUS
    <3>2. \A r \in C : r < s => r < t
      BY <1>3, <3>1
    <3>3. s \notin S /\ s \in U
      BY <1>3, <3>1
    <3>4. S \subseteq U
      BY <3>2
    <3> QED BY <3>3, <3>4
  <2> HIDE DEF S, U
  <2>3. Cardinality(S \cup {s}) = Cardinality(S) + 1
    BY <2>1, <2>2, FS_AddElement
  <2>4. Cardinality(S \cup {s}) <= Cardinality(U)
    BY <2>1, <2>2, FS_Subset
  <2>5. Cardinality(S) \in Nat /\ Cardinality(U) \in Nat
    BY <2>1, FS_CardinalityType
  <2>6. Cardinality(S) < Cardinality(U)
    BY <2>3, <2>4, <2>5
  <2> QED BY <2>6 DEF S, U, Rank
<1>4. f \in Injection(C, T)
  <2>1. f \in [C -> T]
    BY <1>2
  <2>2. ASSUME NEW s \in C, NEW t \in C, f[s] = f[t]
        PROVE  s = t
    <3>1. Rank(C, s) = Rank(C, t) /\ Rank(C, s) \in Nat /\ Rank(C, t) \in Nat
      BY <1>1, <1>2, <2>2
    <3>2. ~ (s < t) /\ ~ (t < s)
      BY <1>3, <3>1
    <3> QED BY <3>2
  <2> HIDE DEF f, T
  <2> QED BY <2>1, <2>2 DEF Injection, IsInjective
<1>5. IsFiniteSet(T) /\ Cardinality(T) = n
  <2>1. n - 1 \in Int /\ ~ (0 > n - 1) /\ (n - 1) - 0 + 1 = n
    BY <1>1
  <2> HIDE DEF n
  <2> QED BY <2>1, FS_Interval
<1>6. f \in Surjection(C, T)
  BY <1>4, <1>5, FS_Injection
<1>7. m \in T
  BY <1>1
<1>8. PICK s \in C : f[s] = m
  BY <1>6, <1>7 DEF Surjection
<1> QED BY <1>8

\* Finding many finds that many different clear bits.
LEMMA FindManyAreClear ==
  ASSUME NEW used, NEW n \in Nat, n <= Cardinality(Clear(used))
  PROVE  /\ FindMany(used, n) \in [1..n -> Clear(used)]
         /\ \A i, j \in 1..n : FindMany(used, n)[i] = FindMany(used, n)[j] => i = j
<1> DEFINE C == Clear(used)
           found == FindMany(used, n)
<1>1. C \in SUBSET Nat /\ IsFiniteSet(C) /\ Cardinality(C) \in Nat
  BY SectorsAreNumbers
<1>2. ASSUME NEW i \in 1..n
      PROVE  found[i] \in C /\ Rank(C, found[i]) = i - 1
  <2>1. found[i] = CHOOSE s \in C : Cardinality({r \in C : r < s}) = i - 1
    BY DEF FindMany
  <2>2. i - 1 \in Nat /\ i - 1 < Cardinality(C)
    BY <1>1
  <2>3. \E s \in C : Rank(C, s) = i - 1
    BY <1>1, <2>2, RanksAreAll
  <2> HIDE DEF C, found
  <2> QED BY <2>1, <2>3 DEF Rank
<1>3. found \in [1..n -> C]
  BY <1>2 DEF FindMany
<1>4. \A i, j \in 1..n : found[i] = found[j] => i = j
  <2> HIDE DEF C, found
  <2> QED BY <1>2
<1> QED BY <1>3, <1>4

\* The headers, the directories and what else may be in a sector.
Headers ==
  UNION {[kind : {"header"}, length : {l}, blocks : Injection(1..BlocksFor(l), Sectors)]
           : l \in Nat}

FreeMaps == [kind : {"map"}, used : SUBSET Sectors]

Bytes == {Junk} \cup UNION {Range(u) : u \in UnixFiles}
DataSectors == [kind : {"data"}, bytes : [0 .. SectorSize - 1 -> Bytes]]

Directories ==
  [inUse : [Entries -> BOOLEAN], sector : [Entries -> Sectors],
   name : [Entries -> Names \cup {NoName}]]

FirstParts == {FirstPart(d) : d \in Directories}
LastParts == {LastPart(d) : d \in Directories}

\* FileHeader::Allocate makes a header of different clear sectors.
LEMMA AllocateIsHeader ==
  ASSUME NEW used, NEW length \in Nat, CanAllocate(used, length)
  PROVE  /\ Allocate(used, length) \in Headers
         /\ Allocate(used, length).length = length
         /\ Allocate(used, length).blocks \in [1..BlocksFor(length) -> Clear(used)]
         /\ \A i, j \in 1..BlocksFor(length) :
              Allocate(used, length).blocks[i] = Allocate(used, length).blocks[j] => i = j
<1> DEFINE blocks == FindMany(used, BlocksFor(length))
<1>1. BlocksFor(length) \in Nat /\ BlocksFor(length) <= Cardinality(Clear(used))
  BY SectorsAreNumbers, BlocksForLength DEF CanAllocate
<1>2. /\ blocks \in [1..BlocksFor(length) -> Clear(used)]
      /\ \A i, j \in 1..BlocksFor(length) : blocks[i] = blocks[j] => i = j
  BY <1>1, FindManyAreClear
<1> HIDE DEF blocks
<1>3. Allocate(used, length) = [kind |-> "header", length |-> length, blocks |-> blocks]
  BY DEF Allocate, Header, blocks
<1>4. blocks \in Injection(1..BlocksFor(length), Sectors)
  BY <1>2, SectorsAreNumbers DEF Injection, IsInjective
<1>5. Allocate(used, length) \in
        [kind : {"header"}, length : {length}, blocks : Injection(1..BlocksFor(length), Sectors)]
  BY <1>3, <1>4
<1>6. Allocate(used, length) \in Headers
  BY <1>5 DEF Headers
<1> QED BY <1>2, <1>3, <1>6

LEMMA HeadersAre ==
  ASSUME NEW h \in Headers
  PROVE  /\ h.kind = "header" /\ h.length \in Nat
         /\ h.blocks \in [1..BlocksFor(h.length) -> Sectors]
         /\ h = [kind |-> "header", length |-> h.length, blocks |-> h.blocks]
         /\ Range(h.blocks) = {h.blocks[i] : i \in 1..BlocksFor(h.length)}
         /\ Range(h.blocks) \subseteq Sectors
         /\ \A i, j \in 1..BlocksFor(h.length) : h.blocks[i] = h.blocks[j] => i = j
<1>1. PICK l \in Nat :
        h \in [kind : {"header"}, length : {l}, blocks : Injection(1..BlocksFor(l), Sectors)]
  BY DEF Headers
<1>2. /\ h.length = l /\ h.blocks \in [1..BlocksFor(l) -> Sectors]
      /\ \A i, j \in 1..BlocksFor(l) : h.blocks[i] = h.blocks[j] => i = j
  BY <1>1 DEF Injection, IsInjective
<1>3. h.kind = "header" /\ h = [kind |-> "header", length |-> h.length, blocks |-> h.blocks]
  BY <1>1
<1>4. DOMAIN h.blocks = 1..BlocksFor(h.length)
  BY <1>2
<1>5. Range(h.blocks) = {h.blocks[i] : i \in 1..BlocksFor(h.length)}
  BY <1>4 DEF Range
<1>6. \A i \in 1..BlocksFor(h.length) : h.blocks[i] \in Sectors
  BY <1>2
<1>7. Range(h.blocks) \subseteq Sectors
  <2> HIDE DEF Sectors
  <2> QED BY <1>5, <1>6
<1> HIDE DEF Headers
<1> QED BY <1>2, <1>3, <1>5, <1>7

\* The layout: five different sectors.
LEMMA Layout ==
  /\ MapHeader \in Headers /\ DirectoryHeader \in Headers
  /\ Reserved = {0, 1, MapBlock, DirectoryBlock(1), DirectoryBlock(2)}
  /\ Reserved \subseteq Sectors
  /\ MapBlock \notin {0, 1}
  /\ DirectoryBlock(1) \notin {0, 1, MapBlock}
  /\ DirectoryBlock(2) \notin {0, 1, MapBlock, DirectoryBlock(1)}
  /\ Range(DirectoryHeader.blocks) = {DirectoryBlock(1), DirectoryBlock(2)}
<1>0. NumSectors \in Nat /\ NumSectors >= 5 /\ SectorSize \in Nat
  BY FileSystemAssumption
<1>1. ASSUME NEW used \in SUBSET Sectors, IsFiniteSet(used), Cardinality(used) <= 3
      PROVE  Cardinality(Clear(used)) >= 2
  <2>1. Clear(used) = Sectors \ used
    BY DEF Clear
  <2>2. Cardinality(Sectors \ used) = Cardinality(Sectors) - Cardinality(used)
    <3>1. used \cap (Sectors \ used) = {} /\ used \cup (Sectors \ used) = Sectors
      OBVIOUS
    <3>2. IsFiniteSet(Sectors \ used)
      BY SectorsAreNumbers, FS_Subset
    <3>3. Cardinality(used \cup (Sectors \ used)) = Cardinality(used) + Cardinality(Sectors \ used)
                   - Cardinality(used \cap (Sectors \ used))
      BY <1>1, <3>2, FS_Union
    <3>4. Cardinality(used \cap (Sectors \ used)) = 0
      BY <3>1, FS_EmptySet
    <3>5. Cardinality(used) \in Nat /\ Cardinality(Sectors \ used) \in Nat
      BY <1>1, <3>2, FS_CardinalityType
    <3> QED BY <3>1, <3>3, <3>4, <3>5, SectorsAreNumbers
  <2>3. Cardinality(used) \in Nat
    BY <1>1, FS_CardinalityType
  <2> QED BY <1>0, <1>1, <2>1, <2>2, <2>3, SectorsAreNumbers
<1> DEFINE two == {FreeMapSector, DirectorySector}
<1>2. two = {0, 1} /\ two \subseteq Sectors /\ IsFiniteSet(two) /\ Cardinality(two) = 2
  <2>1. two = {0} \cup {1} /\ 0 \in Sectors /\ 1 \in Sectors
    BY <1>0 DEF FreeMapSector, DirectorySector, Sectors
  <2>2. IsFiniteSet({0}) /\ Cardinality({0}) = 1
    BY FS_Singleton
  <2>3. IsFiniteSet({0} \cup {1}) /\ Cardinality({0} \cup {1}) = 2
    BY <2>2, FS_AddElement
  <2> QED BY <2>1, <2>3
<1>3. CanAllocate(two, 1)
  BY <1>1, <1>2, BlocksOfLayout, SectorsAreNumbers DEF CanAllocate
<1>4. /\ MapHeader \in Headers /\ MapHeader.length = 1
      /\ MapHeader.blocks \in [1..1 -> Clear(two)]
  BY <1>3, AllocateIsHeader, BlocksOfLayout DEF MapHeader
<1>5. /\ MapBlock \in Clear(two) /\ Range(MapHeader.blocks) = {MapBlock}
  BY <1>4 DEF MapBlock, Range
<1> DEFINE three == two \cup Range(MapHeader.blocks)
<1>6. three = {0, 1, MapBlock} /\ three \subseteq Sectors /\ IsFiniteSet(three)
      /\ Cardinality(three) = 3 /\ MapBlock \notin {0, 1} /\ MapBlock \in Sectors
  <2>1. MapBlock \notin two /\ MapBlock \in Sectors
    BY <1>5 DEF Clear
  <2>2. three = two \cup {MapBlock}
    BY <1>5
  <2>3. IsFiniteSet(three) /\ Cardinality(three) = 3
    BY <1>2, <2>1, <2>2, FS_AddElement
  <2> QED BY <1>2, <2>1, <2>2, <2>3
<1>7. CanAllocate(three, SectorSize + 1)
  BY <1>1, <1>6, BlocksOfLayout DEF CanAllocate
<1>8. /\ DirectoryHeader \in Headers
      /\ DirectoryHeader.blocks \in [1..2 -> Clear(three)]
      /\ DirectoryHeader.blocks[1] # DirectoryHeader.blocks[2]
  <2>1. DirectoryHeader = Allocate(three, SectorSize + 1) /\ SectorSize + 1 \in Nat
    BY <1>0 DEF DirectoryHeader
  <2> HIDE DEF three
  <2>2. /\ DirectoryHeader \in Headers
        /\ DirectoryHeader.blocks \in [1..2 -> Clear(three)]
        /\ \A i, j \in 1..2 : DirectoryHeader.blocks[i] = DirectoryHeader.blocks[j] => i = j
    <3>1. /\ Allocate(three, SectorSize + 1) \in Headers
          /\ Allocate(three, SectorSize + 1).blocks
               \in [1..BlocksFor(SectorSize + 1) -> Clear(three)]
          /\ \A i, j \in 1..BlocksFor(SectorSize + 1) :
               Allocate(three, SectorSize + 1).blocks[i] = Allocate(three, SectorSize + 1).blocks[j]
               => i = j
      BY <1>7, <2>1, AllocateIsHeader
    <3> QED BY <2>1, <3>1, BlocksOfLayout
  <2> QED BY <2>2
<1>9. /\ DirectoryBlock(1) \in Clear(three) /\ DirectoryBlock(2) \in Clear(three)
      /\ DirectoryBlock(1) # DirectoryBlock(2)
      /\ Range(DirectoryHeader.blocks) = {DirectoryBlock(1), DirectoryBlock(2)}
  <2> HIDE DEF three
  <2>1. 1..2 = {1, 2}
    OBVIOUS
  <2> QED BY <1>8, <2>1 DEF DirectoryBlock, Range
<1>10. Reserved = three \cup {DirectoryBlock(1), DirectoryBlock(2)}
  BY <1>9 DEF Reserved
<1>11. Clear(three) \subseteq Sectors /\ Clear(three) \cap three = {}
  BY DEF Clear
<1> HIDE DEF two, three
<1> QED BY <1>4, <1>6, <1>8, <1>9, <1>10, <1>11

-----------------------------------------------------------------------------
(* Directories, and what is on a disk.                                     *)

\* A directory whose parts were written at different times.
Mixed(d1, d2) ==
  [inUse |-> [i \in Entries |-> IF i <= StraddlingEntry THEN d1.inUse[i] ELSE d2.inUse[i]],
   sector |-> [i \in Entries |-> IF i <= StraddlingEntry THEN d1.sector[i] ELSE d2.sector[i]],
   name |-> [i \in Entries |-> IF i < StraddlingEntry THEN d1.name[i] ELSE d2.name[i]]]

LEMMA EntriesAreNumbers ==
  /\ NumDirEntries \in Nat /\ StraddlingEntry \in Nat /\ StraddlingEntry <= NumDirEntries - 1
  /\ Entries \subseteq Nat
  /\ \A i \in Entries : /\ i \in 0 .. StraddlingEntry <=> i <= StraddlingEntry
                        /\ i \in 0 .. StraddlingEntry - 1 <=> i < StraddlingEntry
<1>1. NumDirEntries \in Nat /\ StraddlingEntry \in 0 .. NumDirEntries - 1
  BY FileSystemAssumption
<1> QED BY <1>1 DEF Entries

LEMMA DirectoryOnParts ==
  ASSUME NEW dsk, NEW d1 \in Directories, NEW d2 \in Directories,
         dsk[DirectoryBlock(1)] = FirstPart(d1), dsk[DirectoryBlock(2)] = LastPart(d2)
  PROVE  DirectoryOn(dsk) = Mixed(d1, d2)
<1> DEFINE p == dsk[DirectoryBlock(1)]
           q == dsk[DirectoryBlock(2)]
           upTo == 0 .. StraddlingEntry
           below == 0 .. StraddlingEntry - 1
<1>1. /\ p.inUse = [i \in upTo |-> d1.inUse[i]]
      /\ p.sector = [i \in upTo |-> d1.sector[i]]
      /\ p.name = [i \in below |-> d1.name[i]]
  BY DEF FirstPart, Part, Restrict
<1>2. /\ q.inUse = [i \in StraddlingEntry + 1 .. NumDirEntries - 1 |-> d2.inUse[i]]
      /\ q.sector = [i \in StraddlingEntry + 1 .. NumDirEntries - 1 |-> d2.sector[i]]
      /\ q.name = [i \in StraddlingEntry .. NumDirEntries - 1 |-> d2.name[i]]
  BY DEF LastPart, Part, Restrict
<1>3. ASSUME NEW i \in Entries
      PROVE  /\ i \in upTo <=> i <= StraddlingEntry
             /\ i \in below <=> i < StraddlingEntry
             /\ ~ (i <= StraddlingEntry) => i \in StraddlingEntry + 1 .. NumDirEntries - 1
             /\ ~ (i < StraddlingEntry) => i \in StraddlingEntry .. NumDirEntries - 1
  BY EntriesAreNumbers DEF Entries
<1>4. DirectoryOn(dsk) =
        [inUse |-> [i \in Entries |-> IF i \in DOMAIN p.inUse THEN p.inUse[i] ELSE q.inUse[i]],
         sector |-> [i \in Entries |-> IF i \in DOMAIN p.sector THEN p.sector[i] ELSE q.sector[i]],
         name |-> [i \in Entries |-> IF i \in DOMAIN p.name THEN p.name[i] ELSE q.name[i]]]
  BY DEF DirectoryOn
<1> HIDE DEF p, q, upTo, below
<1>5. ASSUME NEW i \in Entries
      PROVE  /\ (IF i \in DOMAIN p.inUse THEN p.inUse[i] ELSE q.inUse[i])
                  = IF i <= StraddlingEntry THEN d1.inUse[i] ELSE d2.inUse[i]
             /\ (IF i \in DOMAIN p.sector THEN p.sector[i] ELSE q.sector[i])
                  = IF i <= StraddlingEntry THEN d1.sector[i] ELSE d2.sector[i]
             /\ (IF i \in DOMAIN p.name THEN p.name[i] ELSE q.name[i])
                  = IF i < StraddlingEntry THEN d1.name[i] ELSE d2.name[i]
  <2>1. CASE i < StraddlingEntry
    BY <1>1, <1>2, <1>3, <2>1, EntriesAreNumbers
  <2>2. CASE i = StraddlingEntry
    BY <1>1, <1>2, <1>3, <2>2, EntriesAreNumbers
  <2>3. CASE i > StraddlingEntry
    BY <1>1, <1>2, <1>3, <2>3, EntriesAreNumbers
  <2> QED BY <2>1, <2>2, <2>3, EntriesAreNumbers
<1> QED BY <1>4, <1>5 DEF Mixed

LEMMA MixedIsDirectory ==
  ASSUME NEW d1 \in Directories, NEW d2 \in Directories
  PROVE  Mixed(d1, d2) \in Directories
BY DEF Mixed, Directories

LEMMA MixedSame ==
  ASSUME NEW d \in Directories
  PROVE  Mixed(d, d) = d
<1>1. d = [inUse |-> [i \in Entries |-> d.inUse[i]], sector |-> [i \in Entries |-> d.sector[i]],
           name |-> [i \in Entries |-> d.name[i]]]
  BY DEF Directories
<1> QED BY <1>1 DEF Mixed

\* What the code writes in sector s: the map and the directory in their places only.
Fits(s, c) ==
  \/ c = Garbage
  \/ c \in Headers
  \/ c \in DataSectors
  \/ s = MapBlock /\ c \in FreeMaps
  \/ s = DirectoryBlock(1) /\ c \in FirstParts
  \/ s = DirectoryBlock(2) /\ c \in LastParts

Typed(dsk) == dsk = [s \in Sectors |-> dsk[s]] /\ \A s \in Sectors : Fits(s, dsk[s])

LEMMA KindOfContent ==
  ASSUME NEW s, NEW c, Fits(s, c)
  PROVE  /\ c.kind = "header" => c \in Headers
         /\ c.kind = "data" => c \in DataSectors
         /\ c.kind = "map" => s = MapBlock /\ c \in FreeMaps
         /\ c.kind = "directory" => \/ s = DirectoryBlock(1) /\ c \in FirstParts
                                    \/ s = DirectoryBlock(2) /\ c \in LastParts
         /\ c.kind = "garbage" => c = Garbage
         /\ c.kind \in {"header", "data", "map", "directory", "garbage"}
<1>1. c = Garbage => c.kind = "garbage"
  BY DEF Garbage
<1>2. c \in Headers => c.kind = "header"
  BY HeadersAre
<1>3. c \in DataSectors => c.kind = "data"
  BY DEF DataSectors
<1>4. c \in FreeMaps => c.kind = "map"
  BY DEF FreeMaps
<1>5. c \in FirstParts \cup LastParts => c.kind = "directory"
  BY DEF FirstParts, LastParts, FirstPart, LastPart, Part
<1> QED BY <1>1, <1>2, <1>3, <1>4, <1>5 DEF Fits

FormattedDisk(dsk) == dsk[DirectoryBlock(2)].kind = "directory"

\* The map and both parts of the directory are there.
LaidOut(dsk) ==
  /\ dsk[MapBlock] \in FreeMaps
  /\ dsk[DirectoryBlock(1)] \in FirstParts
  /\ dsk[DirectoryBlock(2)] \in LastParts

LEMMA DirectoryOfLaidOut ==
  ASSUME NEW dsk, LaidOut(dsk)
  PROVE  DirectoryOn(dsk) \in Directories
<1>1. PICK d1 \in Directories : dsk[DirectoryBlock(1)] = FirstPart(d1)
  BY DEF LaidOut, FirstParts
<1>2. PICK d2 \in Directories : dsk[DirectoryBlock(2)] = LastPart(d2)
  BY DEF LaidOut, LastParts
<1> QED BY <1>1, <1>2, DirectoryOnParts, MixedIsDirectory

\* The directory that is read is the one that was written.
LEMMA DirectoryWritten ==
  ASSUME NEW dsk, NEW d \in Directories,
         dsk[DirectoryBlock(1)] = FirstPart(d), dsk[DirectoryBlock(2)] = LastPart(d)
  PROVE  DirectoryOn(dsk) = d
BY DirectoryOnParts, MixedSame

\* When only the first part of d2 has been written, over d1: the entries up to the
\* straddling one are those of d2, but the name of that one is still that of d1.
LEMMA DirectoryHalfWritten ==
  ASSUME NEW dsk1, NEW dsk2, LaidOut(dsk1), NEW d2 \in Directories,
         dsk2[DirectoryBlock(1)] = FirstPart(d2),
         dsk2[DirectoryBlock(2)] = dsk1[DirectoryBlock(2)]
  PROVE  DirectoryOn(dsk2) = Mixed(d2, DirectoryOn(dsk1))
<1>1. PICK p \in Directories : dsk1[DirectoryBlock(1)] = FirstPart(p)
  BY DEF LaidOut, FirstParts
<1>2. PICK q \in Directories : dsk1[DirectoryBlock(2)] = LastPart(q)
  BY DEF LaidOut, LastParts
<1>3. DirectoryOn(dsk1) = Mixed(p, q)
  BY <1>1, <1>2, DirectoryOnParts
<1>4. DirectoryOn(dsk2) = Mixed(d2, q)
  BY <1>2, DirectoryOnParts
<1>5. Mixed(d2, Mixed(p, q)) = Mixed(d2, q)
  <2>1. \A i \in Entries : ~ (i <= StraddlingEntry) => ~ (i < StraddlingEntry)
    BY EntriesAreNumbers
  <2>2. \A i \in Entries : i \in Nat /\ StraddlingEntry \in Nat
    BY EntriesAreNumbers
  <2> DEFINE m == Mixed(p, q)
  <2>3. /\ \A i \in Entries : ~ (i <= StraddlingEntry) =>
             m.inUse[i] = q.inUse[i] /\ m.sector[i] = q.sector[i]
        /\ \A i \in Entries : ~ (i < StraddlingEntry) => m.name[i] = q.name[i]
    BY DEF Mixed
  <2> HIDE DEF m
  <2>4. Mixed(d2, m) = Mixed(d2, q)
    BY <2>3 DEF Mixed
  <2> QED BY <2>4 DEF m
<1> QED BY <1>3, <1>4, <1>5

-----------------------------------------------------------------------------
(* The disk after the next k of the writes that are to be done.            *)

Written(dsk, writes, k) ==
  [s \in Sectors |->
     LET W == {i \in 1..k : writes[i].sector = s}
     IN  IF W = {} THEN dsk[s] ELSE writes[Max(W)].content]

\* The writes are to sectors that their contents fit in.
FitWrites(writes) ==
  \A i \in 1..Len(writes) : /\ writes[i].sector \in Sectors
                             /\ Fits(writes[i].sector, writes[i].content)

\* A sector is as it was, or as one of the writes has it.
LEMMA WrittenSector ==
  ASSUME NEW dsk, NEW writes, NEW k \in Nat, NEW s \in Sectors
  PROVE  \/ /\ \A i \in 1..k : writes[i].sector # s
            /\ Written(dsk, writes, k)[s] = dsk[s]
         \/ \E i \in 1..k : /\ writes[i].sector = s
                            /\ Written(dsk, writes, k)[s] = writes[i].content
                            /\ \A j \in 1..k : writes[j].sector = s => j <= i
<1> DEFINE W == {i \in 1..k : writes[i].sector = s}
<1>1. Written(dsk, writes, k)[s] = IF W = {} THEN dsk[s] ELSE writes[Max(W)].content
  BY DEF Written
<1>2. CASE W = {}
  BY <1>1, <1>2
<1>3. CASE W # {}
  <2>1. Max(W) \in W /\ \A j \in W : Max(W) >= j
    BY <1>3, MaxIsLast
  <2>2. \A j \in 1..k : writes[j].sector = s => j <= Max(W)
    BY <2>1
  <2> QED BY <1>1, <1>3, <2>1, <2>2
<1> QED BY <1>2, <1>3

LEMMA WrittenNothing ==
  ASSUME NEW dsk, Typed(dsk), NEW writes
  PROVE  Written(dsk, writes, 0) = dsk
<1>1. ASSUME NEW s \in Sectors
      PROVE  Written(dsk, writes, 0)[s] = dsk[s]
  BY WrittenSector
<1>2. Written(dsk, writes, 0) = [s \in Sectors |-> Written(dsk, writes, 0)[s]]
  BY DEF Written
<1> QED BY <1>1, <1>2 DEF Typed

LEMMA WrittenOneMore ==
  ASSUME NEW dsk, NEW writes, NEW k \in Nat, NEW n, n = k + 1, NEW s \in Sectors
  PROVE  /\ writes[n].sector = s => Written(dsk, writes, n)[s] = writes[n].content
         /\ writes[n].sector # s => Written(dsk, writes, n)[s] = Written(dsk, writes, k)[s]
<1> SUFFICES /\ writes[k + 1].sector = s => Written(dsk, writes, k + 1)[s] = writes[k + 1].content
             /\ writes[k + 1].sector # s => Written(dsk, writes, k + 1)[s] = Written(dsk, writes, k)[s]
  OBVIOUS
<1> DEFINE W(m) == {i \in 1..m : writes[i].sector = s}
<1>1. \A m \in Nat : Written(dsk, writes, m)[s] =
                       IF W(m) = {} THEN dsk[s] ELSE writes[Max(W(m))].content
  BY DEF Written
<1>2. CASE writes[k + 1].sector = s
  <2>1. k + 1 \in W(k + 1)
    BY <1>2
  <2>2. Max(W(k + 1)) = k + 1
    <3>1. k + 1 \in Nat /\ W(k + 1) \in SUBSET (1..(k + 1)) /\ W(k + 1) # {}
      BY <2>1
    <3>2. Max(W(k + 1)) \in W(k + 1) /\ \A m \in W(k + 1) : Max(W(k + 1)) >= m
      <4> DEFINE V == W(k + 1)
      <4> HIDE DEF W
      <4>1. V \in SUBSET (1..(k + 1)) /\ V # {}
        BY <3>1
      <4> HIDE DEF V
      <4>2. Max(V) \in V /\ \A m \in V : Max(V) >= m
        BY <3>1, <4>1, MaxIsLast
      <4> QED BY <4>2 DEF V
    <3> QED BY <2>1, <3>1, <3>2
  <2> QED BY <1>1, <1>2, <2>1, <2>2
<1>3. CASE writes[k + 1].sector # s
  <2>1. W(k + 1) = W(k)
    BY <1>3
  <2> HIDE DEF W
  <2> QED BY <1>1, <1>3, <2>1
<1> QED BY <1>2, <1>3

\* Doing the first write leaves the others to do.
LEMMA WrittenAfterFirst ==
  ASSUME NEW dsk, Typed(dsk), NEW S, NEW writes \in Seq(S), FitWrites(writes), writes # <<>>,
         NEW k \in 0 .. Len(writes) - 1
  PROVE  Written([dsk EXCEPT ![Head(writes).sector] = Head(writes).content], Tail(writes), k)
           = Written(dsk, writes, k + 1)
<1> DEFINE new == [dsk EXCEPT ![Head(writes).sector] = Head(writes).content]
           rest == Tail(writes)
<1>1. /\ Head(writes) = writes[1] /\ Len(writes) \in Nat /\ Len(writes) >= 1
      /\ k \in Nat /\ k + 1 <= Len(writes)
      /\ \A i \in 1..k : rest[i] = writes[i + 1]
  OBVIOUS
<1>2. \A s \in Sectors : new[s] = IF s = writes[1].sector THEN writes[1].content ELSE dsk[s]
  BY <1>1 DEF Typed
<1> HIDE DEF new, rest
<1>3. ASSUME NEW s \in Sectors
      PROVE  Written(new, rest, k)[s] = Written(dsk, writes, k + 1)[s]
  <2>1. CASE \A i \in 1..k : rest[i].sector # s
    <3>1. Written(new, rest, k)[s] = new[s]
      BY <1>1, <2>1, WrittenSector
    <3>2. \A i \in 1..(k + 1) : i # 1 => writes[i].sector # s
      <4> SUFFICES ASSUME NEW i \in 1..(k + 1), i # 1
                   PROVE  writes[i].sector # s
        OBVIOUS
      <4>1. i - 1 \in 1..k /\ (i - 1) + 1 = i
        BY <1>1
      <4> QED BY <1>1, <2>1, <4>1
    <3>3. CASE writes[1].sector = s
      <4>1. ~ \A i \in 1..(k + 1) : writes[i].sector # s
        BY <1>1, <3>3
      <4>2. PICK i \in 1..(k + 1) : /\ writes[i].sector = s
                                    /\ Written(dsk, writes, k + 1)[s] = writes[i].content
        BY <1>1, <4>1, WrittenSector
      <4>3. i = 1
        BY <3>2, <4>2
      <4> QED BY <1>2, <3>1, <3>3, <4>2, <4>3
    <3>4. CASE writes[1].sector # s
      <4>1. \A i \in 1..(k + 1) : writes[i].sector # s
        BY <3>2, <3>4
      <4>2. Written(dsk, writes, k + 1)[s] = dsk[s]
        BY <1>1, <4>1, WrittenSector
      <4> QED BY <1>2, <3>1, <3>4, <4>2
    <3> QED BY <3>3, <3>4
  <2>2. CASE ~ \A i \in 1..k : rest[i].sector # s
    <3>1. PICK i \in 1..k : /\ rest[i].sector = s /\ Written(new, rest, k)[s] = rest[i].content
                            /\ \A j \in 1..k : rest[j].sector = s => j <= i
      BY <1>1, <2>2, WrittenSector
    <3>2. i + 1 \in 1..(k + 1) /\ writes[i + 1].sector = s /\ writes[i + 1] = rest[i]
      BY <1>1, <3>1
    <3>3. PICK j \in 1..(k + 1) : /\ writes[j].sector = s
                                  /\ Written(dsk, writes, k + 1)[s] = writes[j].content
                                  /\ \A n \in 1..(k + 1) : writes[n].sector = s => n <= j
      <4>1. k + 1 \in Nat /\ ~ \A j \in 1..(k + 1) : writes[j].sector # s
        BY <1>1, <3>2
      <4> QED BY <4>1, WrittenSector
    <3>4. i + 1 <= j /\ j - 1 \in 1..k /\ (j - 1) + 1 = j
      BY <1>1, <3>2, <3>3
    <3>5. rest[j - 1].sector = s
      BY <1>1, <3>3, <3>4
    <3>6. j - 1 <= i
      BY <3>1, <3>4, <3>5
    <3>7. j = i + 1
      BY <3>4, <3>6
    <3> QED BY <3>1, <3>2, <3>3, <3>7
  <2> QED BY <2>1, <2>2
<1>4. Written(new, rest, k) = [s \in Sectors |-> Written(new, rest, k)[s]]
      /\ Written(dsk, writes, k + 1) = [s \in Sectors |-> Written(dsk, writes, k + 1)[s]]
  BY DEF Written
<1>5. Written(new, rest, k) = Written(dsk, writes, k + 1)
  BY <1>3, <1>4
<1> QED BY <1>5 DEF new, rest

\* What has been written fits.
LEMMA WrittenFits ==
  ASSUME NEW dsk, Typed(dsk), NEW writes, FitWrites(writes), NEW k \in 0 .. Len(writes)
  PROVE  Typed(Written(dsk, writes, k))
<1>1. k \in Nat /\ \A i \in 1..k : i \in 1..Len(writes)
  BY DEF FitWrites
<1>2. ASSUME NEW s \in Sectors
      PROVE  Fits(s, Written(dsk, writes, k)[s])
  <2>1. CASE Written(dsk, writes, k)[s] = dsk[s]
    BY <2>1 DEF Typed
  <2>2. CASE \E i \in 1..k : /\ writes[i].sector = s
                             /\ Written(dsk, writes, k)[s] = writes[i].content
    BY <1>1, <2>2 DEF FitWrites
  <2> QED BY <1>1, <2>1, <2>2, WrittenSector
<1>3. Written(dsk, writes, k) = [s \in Sectors |-> Written(dsk, writes, k)[s]]
  BY DEF Written
<1> QED BY <1>2, <1>3 DEF Typed

-----------------------------------------------------------------------------
(* Reading and writing a file.                                             *)

Contents == {Garbage} \cup Headers \cup DataSectors \cup FreeMaps \cup FirstParts \cup LastParts

SectorWrites == [sector : Sectors, content : Contents]

LEMMA JunkIsByte == Junk \in Bytes
BY DEF Bytes

LEMMA ByteIsByte ==
  ASSUME NEW dsk, Typed(dsk), NEW h \in Headers, NEW k \in Nat, k < h.length
  PROVE  ByteAt(dsk, h, k) \in Bytes
<1> DEFINE s == h.blocks[k \div SectorSize + 1]
<1>1. s \in Sectors /\ k % SectorSize \in 0 .. SectorSize - 1
  BY HeadersAre, BlocksForLength
<1>2. dsk[s].kind = "data" => dsk[s] \in DataSectors
  BY <1>1, KindOfContent DEF Typed
<1> HIDE DEF s
<1>3. CASE dsk[s].kind = "data"
  <2>1. dsk[s].bytes \in [0 .. SectorSize - 1 -> Bytes]
    BY <1>2, <1>3 DEF DataSectors
  <2> QED BY <1>1, <1>3, <2>1 DEF ByteAt, s
<1>4. CASE dsk[s].kind # "data"
  <2>1. ByteAt(dsk, h, k) = Junk
    BY <1>4 DEF ByteAt, s
  <2> QED BY <2>1, JunkIsByte
<1> QED BY <1>3, <1>4

LEMMA ReadAtBytes ==
  ASSUME NEW dsk, Typed(dsk), NEW h \in Headers, NEW n \in Nat, NEW position \in Nat
  PROVE  ReadAt(dsk, h, n, position) \in Seq(Bytes)
<1> DEFINE m == IF position + n > h.length THEN h.length - position ELSE n
<1>1. h.length \in Nat
  BY HeadersAre
<1>2. CASE n <= 0 \/ position >= h.length
  BY <1>2 DEF ReadAt
<1>3. CASE ~ (n <= 0 \/ position >= h.length)
  <2>1. m \in Nat /\ \A k \in 1..m : position + k - 1 \in Nat /\ position + k - 1 < h.length
    BY <1>1, <1>3
  <2>2. \A k \in 1..m : ByteAt(dsk, h, position + k - 1) \in Bytes
    BY <2>1, ByteIsByte
  <2>3. ReadAt(dsk, h, n, position) = [k \in 1..m |-> ByteAt(dsk, h, position + k - 1)]
    BY <1>3 DEF ReadAt
  <2> HIDE DEF m
  <2> QED BY <2>1, <2>2, <2>3
<1> QED BY <1>2, <1>3

\* What is read depends on the sectors of the file only.
LEMMA SameSectorsSameBytes ==
  ASSUME NEW dsk1, NEW dsk2, NEW h \in Headers, \A b \in Range(h.blocks) : dsk2[b] = dsk1[b]
  PROVE  ReadAt(dsk2, h, h.length, 0) = ReadAt(dsk1, h, h.length, 0)
<1>1. h.length \in Nat
  BY HeadersAre
<1>2. ASSUME NEW k \in Nat, k < h.length
      PROVE  ByteAt(dsk2, h, k) = ByteAt(dsk1, h, k)
  <2>1. h.blocks[k \div SectorSize + 1] \in Range(h.blocks)
    BY <1>1, <1>2, HeadersAre, BlocksForLength
  <2> QED BY <2>1 DEF ByteAt
<1> DEFINE m == IF 0 + h.length > h.length THEN h.length - 0 ELSE h.length
<1>3. \A k \in 1..m : 0 + k - 1 \in Nat /\ 0 + k - 1 < h.length
  BY <1>1
<1>4. \A k \in 1..m : ByteAt(dsk2, h, 0 + k - 1) = ByteAt(dsk1, h, 0 + k - 1)
  BY <1>2, <1>3
<1>5. \A dsk : ReadAt(dsk, h, h.length, 0) =
                 IF h.length <= 0 \/ 0 >= h.length THEN <<>>
                 ELSE [k \in 1..m |-> ByteAt(dsk, h, 0 + k - 1)]
  BY DEF ReadAt
<1> HIDE DEF m
<1> QED BY <1>4, <1>5

\* OpenFile::WriteAt writes data in sectors of the file.
LEMMA WriteAtBlocks ==
  ASSUME NEW dsk, Typed(dsk), NEW h \in Headers, NEW from \in Seq(Bytes), NEW position \in Nat
  PROVE  /\ WriteAt(dsk, h, from, position) \in Seq(SectorWrites)
         /\ \A i \in 1..Len(WriteAt(dsk, h, from, position)) :
              /\ WriteAt(dsk, h, from, position)[i].sector \in Range(h.blocks)
              /\ WriteAt(dsk, h, from, position)[i].content \in DataSectors
         /\ Len(Clamp(h, from, position)) \in Nat
<1> DEFINE bytes == Clamp(h, from, position)
           first == position \div SectorSize
           last == (position + Len(bytes) - 1) \div SectorSize
           w == WriteAt(dsk, h, from, position)
<1>1. h.length \in Nat /\ SectorSize \in Nat /\ SectorSize > 0
  BY HeadersAre, FileSystemAssumption
<1>2. /\ bytes \in Seq(Bytes) /\ Len(bytes) \in Nat
      /\ bytes # <<>> => Len(bytes) >= 1 /\ position + Len(bytes) <= h.length
  <2>1. CASE from = <<>> \/ position >= h.length
    BY <2>1 DEF Clamp
  <2>2. CASE ~ (from = <<>> \/ position >= h.length)
    <3> DEFINE S == {Len(from), h.length - position}
               m == Min(S)
    <3>1. Len(from) \in Nat /\ Len(from) >= 1 /\ h.length - position \in Nat
          /\ h.length - position >= 1
      BY <1>1, <2>2
    <3>2. S \in SUBSET Nat /\ S # {}
      BY <3>1
    <3>3. m \in S /\ m <= Len(from) /\ m <= h.length - position
      BY <3>2, MinIsFirst
    <3>4. m \in Nat /\ m >= 1
      BY <3>1, <3>3
    <3>5. bytes = SubSeq(from, 1, m)
      BY <2>2 DEF Clamp
    <3> HIDE DEF m, S
    <3>6. SubSeq(from, 1, m) \in Seq(Bytes) /\ Len(SubSeq(from, 1, m)) = m
      BY <3>1, <3>3, <3>4
    <3> QED BY <1>1, <3>1, <3>3, <3>4, <3>5, <3>6
  <2> QED BY <2>1, <2>2
<1> HIDE DEF bytes
<1>3. CASE bytes = <<>>
  BY <1>2, <1>3 DEF WriteAt, bytes
<1>4. CASE bytes # <<>>
  <2>1. /\ first \in Nat /\ last \in Nat
        /\ \A i \in 1 .. last - first + 1 : /\ first + i \in 1..BlocksFor(h.length)
                                            /\ first + i - 1 \in Nat
    <3>1. position \in Nat /\ position + Len(bytes) - 1 \in Nat
          /\ position + Len(bytes) - 1 < h.length
      BY <1>1, <1>2, <1>4
    <3>2. first \in Nat /\ last \in Nat
      BY <1>1, <3>1
    <3>3. last + 1 \in 1..BlocksFor(h.length) /\ BlocksFor(h.length) \in Nat
      BY <1>1, <3>1, BlocksForLength
    <3> HIDE DEF first, last
    <3> QED BY <3>2, <3>3
  <2>2. w = [i \in 1 .. last - first + 1 |->
               [sector |-> h.blocks[first + i],
                content |-> NewSector(dsk, h, first + i - 1, bytes, position)]]
    BY <1>4 DEF WriteAt, bytes
  <2>3. ASSUME NEW n \in Nat
        PROVE  NewSector(dsk, h, n, bytes, position) \in DataSectors
    <3> DEFINE B(j) == LET k == n * SectorSize + j
                       IN  IF k \in position .. position + Len(bytes) - 1
                           THEN bytes[k - position + 1]
                           ELSE IF k < h.length THEN ByteAt(dsk, h, k) ELSE Junk
    <3>1. ASSUME NEW j \in 0 .. SectorSize - 1
          PROVE  B(j) \in Bytes
      <4> DEFINE k == n * SectorSize + j
      <4>1. k \in Nat
        BY <1>1
      <4> HIDE DEF k
      <4>2. k \in position .. position + Len(bytes) - 1 => bytes[k - position + 1] \in Bytes
        <5>1. k \in position .. position + Len(bytes) - 1 => k - position + 1 \in 1..Len(bytes)
          BY <1>2, <4>1
        <5> QED BY <1>2, <5>1
      <4>3. k < h.length => ByteAt(dsk, h, k) \in Bytes
        BY <4>1, ByteIsByte
      <4>4. Junk \in Bytes
        BY JunkIsByte
      <4> QED BY <4>2, <4>3, <4>4 DEF k
    <3>2. [j \in 0 .. SectorSize - 1 |-> B(j)] \in [0 .. SectorSize - 1 -> Bytes]
      BY <3>1
    <3>3. NewSector(dsk, h, n, bytes, position) =
            [kind |-> "data", bytes |-> [j \in 0 .. SectorSize - 1 |-> B(j)]]
      BY DEF NewSector, DataSector
    <3> HIDE DEF B
    <3> QED BY <3>2, <3>3 DEF DataSectors
  <2> HIDE DEF w, first, last
  <2>4. ASSUME NEW i \in 1 .. last - first + 1
        PROVE  /\ w[i].sector \in Range(h.blocks) /\ w[i].content \in DataSectors
               /\ w[i] \in SectorWrites
    <3>1. w[i] = [sector |-> h.blocks[first + i],
                  content |-> NewSector(dsk, h, first + i - 1, bytes, position)]
      BY <2>2
    <3>2. h.blocks[first + i] \in Range(h.blocks) /\ h.blocks[first + i] \in Sectors
      <4>1. first + i \in 1..BlocksFor(h.length)
        BY <2>1
      <4>2. \A b \in 1..BlocksFor(h.length) : h.blocks[b] \in Range(h.blocks)
        <5>1. Range(h.blocks) = {h.blocks[b] : b \in 1..BlocksFor(h.length)}
          BY HeadersAre, Zenon
        <5> QED BY <5>1
      <4>3. Range(h.blocks) \subseteq Sectors
        BY HeadersAre
      <4> HIDE DEF Sectors
      <4> QED BY <4>1, <4>2, <4>3
    <3>3. NewSector(dsk, h, first + i - 1, bytes, position) \in DataSectors
      BY <2>1, <2>3
    <3> QED BY <3>1, <3>2, <3>3 DEF SectorWrites, Contents
  <2>5. w \in [1 .. last - first + 1 -> SectorWrites]
    BY <2>2, <2>4
  <2>6. last - first + 1 \in Nat
    BY <1>1, <1>2, <1>4, Z3 DEF first, last
  <2>7. w \in Seq(SectorWrites) /\ Len(w) = last - first + 1
    BY <2>5, <2>6
  <2> QED BY <1>2, <2>4, <2>7 DEF w, bytes
<1> QED BY <1>3, <1>4

-----------------------------------------------------------------------------
(* What is true of every disk that a command leaves behind, or a crash.    *)

SectorOf(dsk, i) == DirectoryOn(dsk).sector[i]
HeaderOf(dsk, i) == dsk[SectorOf(dsk, i)]

\* Each name leads to a header, and two of them to different sectors.
Openable(dsk) ==
  FormattedDisk(dsk) =>
    /\ LaidOut(dsk)
    /\ \A i \in InUse(dsk) :
         /\ HeaderOf(dsk, i) \in Headers
         /\ SectorOf(dsk, i) \notin Range(HeaderOf(dsk, i).blocks)
         /\ SectorsOf(dsk, i) \cap Reserved = {}
         /\ \A j \in InUse(dsk) \ {i} : SectorsOf(dsk, i) \cap SectorsOf(dsk, j) = {}

\* The free map marks what is in use, and no two entries have the same name.
Agrees(dsk) ==
  /\ dsk[MapBlock].used = Reserved \cup UNION {SectorsOf(dsk, i) : i \in InUse(dsk)}
  /\ \A i, j \in InUse(dsk) : DirectoryOn(dsk).name[i] = DirectoryOn(dsk).name[j] => i = j

LEMMA SectorsOfAre ==
  ASSUME NEW dsk, NEW i
  PROVE  SectorsOf(dsk, i) = {SectorOf(dsk, i)} \cup Range(HeaderOf(dsk, i).blocks)
BY DEF SectorsOf, SectorOf, HeaderOf

LEMMA InUseAre ==
  ASSUME NEW dsk
  PROVE  /\ InUse(dsk) \subseteq Entries
         /\ \A i \in Entries : i \in InUse(dsk) <=> DirectoryOn(dsk).inUse[i]
         /\ -1 \notin InUse(dsk)
<1>1. -1 \notin Entries
  BY EntriesAreNumbers
<1> QED BY <1>1 DEF InUse

LEMMA LaidOutIsFormatted ==
  ASSUME NEW dsk, LaidOut(dsk)
  PROVE  FormattedDisk(dsk)
BY DEF LaidOut, FormattedDisk, LastParts, LastPart, Part

\* A disk is still openable when its entries are as they were, but for one file,
\* whose sectors are its own.
LEMMA StillOpenable ==
  ASSUME NEW dsk1, FormattedDisk(dsk1), Openable(dsk1), NEW dsk2, LaidOut(dsk2), NEW e,
         \A i \in InUse(dsk2) \ {e} :
            /\ i \in InUse(dsk1)
            /\ SectorOf(dsk2, i) = SectorOf(dsk1, i)
            /\ HeaderOf(dsk2, i) = HeaderOf(dsk1, i),
         e \in InUse(dsk2) =>
            /\ HeaderOf(dsk2, e) \in Headers
            /\ SectorOf(dsk2, e) \notin Range(HeaderOf(dsk2, e).blocks)
            /\ SectorsOf(dsk2, e) \cap Reserved = {}
            /\ \A j \in InUse(dsk1) \ {e} : SectorsOf(dsk2, e) \cap SectorsOf(dsk1, j) = {}
  PROVE  Openable(dsk2)
<1>1. \A i \in InUse(dsk2) \ {e} : SectorsOf(dsk2, i) = SectorsOf(dsk1, i)
  BY SectorsOfAre
<1>2. \A i \in InUse(dsk1) :
        /\ HeaderOf(dsk1, i) \in Headers
        /\ SectorOf(dsk1, i) \notin Range(HeaderOf(dsk1, i).blocks)
        /\ SectorsOf(dsk1, i) \cap Reserved = {}
        /\ \A j \in InUse(dsk1) \ {i} : SectorsOf(dsk1, i) \cap SectorsOf(dsk1, j) = {}
  BY DEF Openable
<1>3. ASSUME NEW i \in InUse(dsk2)
      PROVE  /\ HeaderOf(dsk2, i) \in Headers
             /\ SectorOf(dsk2, i) \notin Range(HeaderOf(dsk2, i).blocks)
             /\ SectorsOf(dsk2, i) \cap Reserved = {}
  <2>1. CASE i = e
    BY <2>1
  <2>2. CASE i # e
    BY <1>1, <1>2, <2>2
  <2> QED BY <2>1, <2>2
<1>4. ASSUME NEW i \in InUse(dsk2), NEW j \in InUse(dsk2) \ {i}
      PROVE  SectorsOf(dsk2, i) \cap SectorsOf(dsk2, j) = {}
  <2>1. CASE i = e
    BY <1>1, <2>1
  <2>2. CASE j = e
    BY <1>1, <2>2
  <2>3. CASE i # e /\ j # e
    BY <1>1, <1>2, <2>3
  <2> QED BY <2>1, <2>2, <2>3
<1> QED BY <1>3, <1>4 DEF Openable

\* A file is the same when its entry and its sectors are.
LEMMA SameFile ==
  ASSUME NEW dsk1, NEW dsk2, NEW i \in Entries,
         i \in InUse(dsk2) <=> i \in InUse(dsk1),
         i \in InUse(dsk1) =>
            /\ DirectoryOn(dsk2).name[i] = DirectoryOn(dsk1).name[i]
            /\ SectorOf(dsk2, i) = SectorOf(dsk1, i)
            /\ HeaderOf(dsk1, i) \in Headers
            /\ \A b \in SectorsOf(dsk1, i) : dsk2[b] = dsk1[b]
  PROVE  FileAt(dsk2, i) = FileAt(dsk1, i)
<1> DEFINE Contents1(dsk) == ReadAt(dsk, HeaderOf(dsk, i), HeaderOf(dsk, i).length, 0)
<1>1. \A dsk : FileAt(dsk, i) = IF i \notin InUse(dsk) THEN <<>>
                                ELSE <<DirectoryOn(dsk).name[i], Contents1(dsk)>>
  BY DEF FileAt, HeaderOf, SectorOf
<1>2. ASSUME i \in InUse(dsk1)
      PROVE  Contents1(dsk2) = Contents1(dsk1)
  <2>1. HeaderOf(dsk2, i) = HeaderOf(dsk1, i)
    BY <1>2, SectorsOfAre DEF HeaderOf
  <2>2. \A b \in Range(HeaderOf(dsk1, i).blocks) : dsk2[b] = dsk1[b]
    BY <1>2, SectorsOfAre
  <2>3. HeaderOf(dsk1, i) \in Headers
    BY <1>2
  <2> QED BY <2>1, <2>2, <2>3, SameSectorsSameBytes
<1> HIDE DEF Contents1
<1> QED BY <1>1, <1>2

-----------------------------------------------------------------------------
(* The directory in memory.                                                *)

SameEntry(d1, d2, i) ==
  d2.inUse[i] = d1.inUse[i] /\ d2.sector[i] = d1.sector[i] /\ d2.name[i] = d1.name[i]

\* Directory::FindIndex finds an entry of that name if there is one.
LEMMA FindIndexFinds ==
  ASSUME NEW d, NEW n
  PROVE  /\ FindIndex(d, n) # -1 => /\ FindIndex(d, n) \in Entries
                                    /\ d.inUse[FindIndex(d, n)] /\ d.name[FindIndex(d, n)] = n
         /\ FindIndex(d, n) = -1 => \A i \in Entries : d.inUse[i] => d.name[i] # n
<1>1. Matches(d, n) \in SUBSET Nat /\ \A i \in Matches(d, n) : i # -1
  <2>1. Matches(d, n) \subseteq Entries
    BY DEF Matches
  <2> HIDE DEF Matches
  <2>2. Matches(d, n) \subseteq Nat
    BY <2>1, EntriesAreNumbers
  <2>3. \A i \in Nat : i # -1
    OBVIOUS
  <2> QED BY <2>2, <2>3
<1>2. CASE Matches(d, n) = {}
  <2>1. FindIndex(d, n) = -1
    BY <1>2 DEF FindIndex
  <2>2. \A i \in Entries : d.inUse[i] => d.name[i] # n
    BY <1>2 DEF Matches
  <2> QED BY <2>1, <2>2
<1>3. CASE Matches(d, n) # {}
  <2>1. FindIndex(d, n) \in Matches(d, n)
    BY <1>1, <1>3, MinIsFirst DEF FindIndex
  <2> QED BY <1>1, <2>1 DEF Matches
<1> QED BY <1>2, <1>3

\* Directory::Add changes the first unused entry.
LEMMA AddTakesEntry ==
  ASSUME NEW d \in Directories, NEW n \in Names, NEW s \in Sectors, Unused(d) # {}
  PROVE  \E e \in Entries :
           /\ ~ d.inUse[e]
           /\ Add(d, n, s) \in Directories
           /\ Add(d, n, s).inUse[e] /\ Add(d, n, s).sector[e] = s /\ Add(d, n, s).name[e] = n
           /\ \A i \in Entries \ {e} : SameEntry(d, Add(d, n, s), i)
<1> DEFINE e == Min(Unused(d))
<1>1. e \in Entries /\ ~ d.inUse[e]
  <2>1. Unused(d) \in SUBSET Nat
    BY EntriesAreNumbers DEF Unused
  <2>2. e \in Unused(d)
    BY <2>1, MinIsFirst
  <2> QED BY <2>2 DEF Unused
<1>2. Add(d, n, s) = [inUse |-> [d.inUse EXCEPT ![e] = TRUE],
                      sector |-> [d.sector EXCEPT ![e] = s], name |-> [d.name EXCEPT ![e] = n]]
  BY DEF Add
<1> HIDE DEF e
<1>3. d.inUse \in [Entries -> BOOLEAN] /\ d.sector \in [Entries -> Sectors]
      /\ d.name \in [Entries -> Names \cup {NoName}]
  BY DEF Directories
<1>4. Add(d, n, s) \in Directories
  <2>1. [d.inUse EXCEPT ![e] = TRUE] \in [Entries -> BOOLEAN]
    BY <1>3
  <2>2. [d.sector EXCEPT ![e] = s] \in [Entries -> Sectors]
    BY <1>3
  <2>3. [d.name EXCEPT ![e] = n] \in [Entries -> Names \cup {NoName}]
    BY <1>3
  <2> QED BY <1>2, <2>1, <2>2, <2>3 DEF Directories
<1>5. /\ Add(d, n, s).inUse[e] /\ Add(d, n, s).sector[e] = s /\ Add(d, n, s).name[e] = n
      /\ \A i \in Entries \ {e} : SameEntry(d, Add(d, n, s), i)
  BY <1>1, <1>2, <1>3 DEF SameEntry
<1> QED BY <1>1, <1>4, <1>5

\* Directory::Remove clears the inUse of the entry it finds.
LEMMA RemoveClearsEntry ==
  ASSUME NEW d \in Directories, NEW n, FindIndex(d, n) # -1
  PROVE  /\ RemoveEntry(d, n) \in Directories
         /\ ~ RemoveEntry(d, n).inUse[FindIndex(d, n)]
         /\ \A i \in Entries \ {FindIndex(d, n)} : SameEntry(d, RemoveEntry(d, n), i)
         /\ RemoveEntry(d, n).sector = d.sector
<1> DEFINE e == FindIndex(d, n)
<1>1. e \in Entries
  BY FindIndexFinds
<1>2. RemoveEntry(d, n) = [d EXCEPT !.inUse = [@ EXCEPT ![e] = FALSE]]
  BY DEF RemoveEntry
<1> HIDE DEF e
<1>3. /\ RemoveEntry(d, n) \in Directories
      /\ ~ RemoveEntry(d, n).inUse[e]
      /\ \A i \in Entries \ {e} : SameEntry(d, RemoveEntry(d, n), i)
      /\ RemoveEntry(d, n).sector = d.sector
  <2> DEFINE f == [d.inUse EXCEPT ![e] = FALSE]
  <2>1. d.inUse \in [Entries -> BOOLEAN] /\ d.sector \in [Entries -> Sectors]
        /\ d.name \in [Entries -> Names \cup {NoName}]
        /\ d = [inUse |-> d.inUse, sector |-> d.sector, name |-> d.name]
    BY DEF Directories
  <2>2. f \in [Entries -> BOOLEAN] /\ ~ f[e] /\ \A i \in Entries \ {e} : f[i] = d.inUse[i]
    BY <1>1, <2>1
  <2> HIDE DEF f
  <2>3. RemoveEntry(d, n) = [inUse |-> f, sector |-> d.sector, name |-> d.name]
    BY <1>2, <2>1 DEF f
  <2> QED BY <2>1, <2>2, <2>3 DEF Directories, SameEntry
<1> QED BY <1>3 DEF e

-----------------------------------------------------------------------------
(* An operation's writes, one after the other.                             *)

\* d2 is d1 but for entry e, of which one part may be written and the other not.
LEMMA HalfDiffers ==
  ASSUME NEW d1 \in Directories, NEW d2 \in Directories, NEW e \in Entries,
         \A i \in Entries \ {e} : SameEntry(d1, d2, i)
  PROVE  /\ \A i \in Entries \ {e} : SameEntry(d1, Mixed(d2, d1), i)
         /\ \/ Mixed(d2, d1).inUse[e] = d1.inUse[e] /\ Mixed(d2, d1).sector[e] = d1.sector[e]
            \/ Mixed(d2, d1).inUse[e] = d2.inUse[e] /\ Mixed(d2, d1).sector[e] = d2.sector[e]
<1> DEFINE m == Mixed(d2, d1)
<1>1. \A i \in Entries :
        /\ m.inUse[i] = IF i <= StraddlingEntry THEN d2.inUse[i] ELSE d1.inUse[i]
        /\ m.sector[i] = IF i <= StraddlingEntry THEN d2.sector[i] ELSE d1.sector[i]
        /\ m.name[i] = IF i < StraddlingEntry THEN d2.name[i] ELSE d1.name[i]
  BY DEF Mixed
<1> HIDE DEF m
<1>2. \A i \in Entries \ {e} : SameEntry(d1, m, i)
  BY <1>1 DEF SameEntry
<1>3. \/ m.inUse[e] = d1.inUse[e] /\ m.sector[e] = d1.sector[e]
      \/ m.inUse[e] = d2.inUse[e] /\ m.sector[e] = d2.sector[e]
  BY <1>1
<1> QED BY <1>2, <1>3 DEF m

\* dsk2 is dsk1 with what sector s contains changed.
OneWrite(dsk1, dsk2, s, c) ==
  \A b \in Sectors : dsk2[b] = IF b = s THEN c ELSE dsk1[b]

\* The disks that up to five writes go through, each after its own.
LEMMA FirstWrites ==
  ASSUME NEW dsk, Typed(dsk), NEW writes
  PROVE  /\ Written(dsk, writes, 0) = dsk
         /\ OneWrite(dsk, Written(dsk, writes, 1), writes[1].sector, writes[1].content)
         /\ OneWrite(Written(dsk, writes, 1), Written(dsk, writes, 2),
                     writes[2].sector, writes[2].content)
         /\ OneWrite(Written(dsk, writes, 2), Written(dsk, writes, 3),
                     writes[3].sector, writes[3].content)
         /\ OneWrite(Written(dsk, writes, 3), Written(dsk, writes, 4),
                     writes[4].sector, writes[4].content)
         /\ OneWrite(Written(dsk, writes, 4), Written(dsk, writes, 5),
                     writes[5].sector, writes[5].content)
<1>1. Written(dsk, writes, 0) = dsk
  BY WrittenNothing
<1>2. ASSUME NEW k \in Nat, NEW n, n = k + 1
      PROVE  OneWrite(Written(dsk, writes, k), Written(dsk, writes, n),
                      writes[n].sector, writes[n].content)
  <2>1. ASSUME NEW b \in Sectors
        PROVE  /\ writes[n].sector = b => Written(dsk, writes, n)[b] = writes[n].content
               /\ writes[n].sector # b => Written(dsk, writes, n)[b] = Written(dsk, writes, k)[b]
    BY <1>2, WrittenOneMore
  <2> QED BY <2>1 DEF OneWrite
<1>3. 1 = 0 + 1 /\ 2 = 1 + 1 /\ 3 = 2 + 1 /\ 4 = 3 + 1 /\ 5 = 4 + 1 /\ {0, 1, 2, 3, 4} \subseteq Nat
  OBVIOUS
<1>4. OneWrite(Written(dsk, writes, 0), Written(dsk, writes, 1), writes[1].sector, writes[1].content)
  BY <1>2, <1>3
<1>5. OneWrite(Written(dsk, writes, 1), Written(dsk, writes, 2), writes[2].sector, writes[2].content)
  BY <1>2, <1>3
<1>6. OneWrite(Written(dsk, writes, 2), Written(dsk, writes, 3), writes[3].sector, writes[3].content)
  BY <1>2, <1>3
<1>7. OneWrite(Written(dsk, writes, 3), Written(dsk, writes, 4), writes[4].sector, writes[4].content)
  BY <1>2, <1>3
<1>8. OneWrite(Written(dsk, writes, 4), Written(dsk, writes, 5), writes[5].sector, writes[5].content)
  BY <1>2, <1>3
<1> QED BY <1>1, <1>4, <1>5, <1>6, <1>7, <1>8

\* What an operation may leave of the disk dsk1 when it is interrupted, with the
\* file of entry e at stake.
Stage(dsk1, dsk2, e) ==
  /\ Openable(dsk2) /\ LaidOut(dsk2)
  /\ \A i \in Entries \ {e} :
       /\ i \in InUse(dsk2) <=> i \in InUse(dsk1)
       /\ FileAt(dsk2, i) = FileAt(dsk1, i)
       /\ i \in InUse(dsk1) => /\ SectorsOf(dsk2, i) = SectorsOf(dsk1, i)
                               /\ DirectoryOn(dsk2).name[i] = DirectoryOn(dsk1).name[i]

\* An operation that changes entry e of the directory, if it has a new file then
\* in sectors that were clear, and nothing of the others.
LEMMA StageOfOperation ==
  ASSUME NEW dsk1, Typed(dsk1), FormattedDisk(dsk1), Openable(dsk1),
         NEW dsk2, LaidOut(dsk2), NEW e \in Entries, NEW S \in SUBSET Sectors,
         \A i \in Entries \ {e} : SameEntry(DirectoryOn(dsk1), DirectoryOn(dsk2), i),
         \A b \in Sectors \ S : dsk2[b] = dsk1[b],
         \A i \in InUse(dsk1) \ {e} : SectorsOf(dsk1, i) \cap S = {},
         e \in InUse(dsk2) =>
            /\ HeaderOf(dsk2, e) \in Headers
            /\ SectorOf(dsk2, e) \notin Range(HeaderOf(dsk2, e).blocks)
            /\ SectorsOf(dsk2, e) \cap Reserved = {}
            /\ \A j \in InUse(dsk1) \ {e} : SectorsOf(dsk2, e) \cap SectorsOf(dsk1, j) = {}
  PROVE  Stage(dsk1, dsk2, e)
<1>1. \A i \in Entries \ {e} : /\ i \in InUse(dsk2) <=> i \in InUse(dsk1)
                               /\ SectorOf(dsk2, i) = SectorOf(dsk1, i)
                               /\ DirectoryOn(dsk2).name[i] = DirectoryOn(dsk1).name[i]
  BY InUseAre DEF SameEntry, SectorOf
<1>2. ASSUME NEW i \in InUse(dsk1) \ {e}
      PROVE  /\ HeaderOf(dsk1, i) \in Headers
             /\ SectorsOf(dsk1, i) \subseteq Sectors
             /\ \A b \in SectorsOf(dsk1, i) : dsk2[b] = dsk1[b]
             /\ HeaderOf(dsk2, i) = HeaderOf(dsk1, i)
             /\ SectorsOf(dsk2, i) = SectorsOf(dsk1, i)
  <2>1. i \in Entries /\ HeaderOf(dsk1, i) \in Headers
    BY InUseAre DEF Openable
  <2>2. DirectoryOn(dsk1) \in Directories
    BY DirectoryOfLaidOut DEF Openable
  <2>3. SectorOf(dsk1, i) \in Sectors
    BY <2>1, <2>2 DEF SectorOf, Directories
  <2>4. SectorsOf(dsk1, i) \subseteq Sectors
    BY <2>1, <2>3, SectorsOfAre, HeadersAre
  <2>5. \A b \in SectorsOf(dsk1, i) : dsk2[b] = dsk1[b]
    BY <2>4
  <2>6. HeaderOf(dsk2, i) = HeaderOf(dsk1, i)
    <3>1. SectorOf(dsk1, i) \in SectorsOf(dsk1, i)
      BY SectorsOfAre
    <3> QED BY <1>1, <2>1, <2>5, <3>1 DEF HeaderOf
  <2>7. SectorsOf(dsk2, i) = SectorsOf(dsk1, i)
    BY <1>1, <2>1, <2>6, SectorsOfAre
  <2> QED BY <2>1, <2>4, <2>5, <2>6, <2>7
<1>3. \A i \in InUse(dsk2) \ {e} : i \in InUse(dsk1) \ {e}
  BY <1>1, InUseAre
<1>4. Openable(dsk2)
  <2>1. \A i \in InUse(dsk2) \ {e} : /\ i \in InUse(dsk1)
                                     /\ SectorOf(dsk2, i) = SectorOf(dsk1, i)
                                     /\ HeaderOf(dsk2, i) = HeaderOf(dsk1, i)
    BY <1>1, <1>2, <1>3, InUseAre
  <2> QED BY <2>1, StillOpenable
<1>5. ASSUME NEW i \in Entries \ {e}
      PROVE  FileAt(dsk2, i) = FileAt(dsk1, i)
  BY <1>1, <1>2, SameFile
<1> QED BY <1>1, <1>2, <1>4, <1>5 DEF Stage

\* A new file in clear sectors: its entry may be there, and then its header is.
LEMMA StageOfCreate ==
  ASSUME NEW dsk1, Typed(dsk1), FormattedDisk(dsk1), Openable(dsk1), Agrees(dsk1),
         NEW s \in Sectors, s \notin dsk1[MapBlock].used,
         NEW h \in Headers, s \notin Range(h.blocks),
         Range(h.blocks) \cap dsk1[MapBlock].used = {},
         NEW e \in Entries,
         NEW dsk2, LaidOut(dsk2),
         \A i \in Entries \ {e} : SameEntry(DirectoryOn(dsk1), DirectoryOn(dsk2), i),
         \A b \in Sectors \ (Reserved \cup {s}) : dsk2[b] = dsk1[b],
         e \in InUse(dsk2) => SectorOf(dsk2, e) = s /\ dsk2[s] = h
  PROVE  Stage(dsk1, dsk2, e)
<1> DEFINE S == Reserved \cup {s}
           used == dsk1[MapBlock].used
<1>1. S \in SUBSET Sectors
  BY Layout
<1>2. Reserved \subseteq used /\ \A i \in InUse(dsk1) : SectorsOf(dsk1, i) \subseteq used
  BY DEF Agrees
<1>3. \A i \in InUse(dsk1) : SectorsOf(dsk1, i) \cap Reserved = {}
  BY DEF Openable
<1>4. \A i \in InUse(dsk1) \ {e} : SectorsOf(dsk1, i) \cap S = {}
  BY <1>2, <1>3
<1>5. ASSUME e \in InUse(dsk2)
      PROVE  /\ HeaderOf(dsk2, e) \in Headers
             /\ SectorOf(dsk2, e) \notin Range(HeaderOf(dsk2, e).blocks)
             /\ SectorsOf(dsk2, e) \cap Reserved = {}
             /\ \A j \in InUse(dsk1) \ {e} : SectorsOf(dsk2, e) \cap SectorsOf(dsk1, j) = {}
  <2>1. SectorOf(dsk2, e) = s /\ HeaderOf(dsk2, e) = h
    BY <1>5 DEF HeaderOf
  <2>2. SectorsOf(dsk2, e) = {s} \cup Range(h.blocks)
    BY <2>1, SectorsOfAre
  <2>3. SectorsOf(dsk2, e) \cap used = {}
    BY <2>2
  <2> QED BY <1>2, <2>1, <2>3
<1>6. \A b \in Sectors \ S : dsk2[b] = dsk1[b]
  OBVIOUS
<1> HIDE DEF S, used
<1> QED BY <1>1, <1>4, <1>5, <1>6, StageOfOperation

\* What the disk is after each write of Create.
LEMMA WritesOfCreate ==
  ASSUME NEW dsk, Typed(dsk), LaidOut(dsk), NEW s \in Sectors \ Reserved, NEW h,
         NEW d \in Directories, NEW m \in FreeMaps, NEW writes,
         writes[1] = [sector |-> s, content |-> h],
         writes[2] = [sector |-> DirectoryBlock(1), content |-> FirstPart(d)],
         writes[3] = [sector |-> DirectoryBlock(2), content |-> LastPart(d)],
         writes[4] = [sector |-> MapBlock, content |-> m]
  PROVE  /\ Written(dsk, writes, 0) = dsk
         /\ \A k \in 1..4 :
              /\ LaidOut(Written(dsk, writes, k))
              /\ \A b \in Sectors \ (Reserved \cup {s}) : Written(dsk, writes, k)[b] = dsk[b]
              /\ Written(dsk, writes, k)[s] = h
         /\ DirectoryOn(Written(dsk, writes, 1)) = DirectoryOn(dsk)
         /\ DirectoryOn(Written(dsk, writes, 2)) = Mixed(d, DirectoryOn(dsk))
         /\ DirectoryOn(Written(dsk, writes, 3)) = d
         /\ DirectoryOn(Written(dsk, writes, 4)) = d
         /\ Written(dsk, writes, 4)[MapBlock] = m
<1> DEFINE D(k) == Written(dsk, writes, k)
           one == DirectoryBlock(1)
           two == DirectoryBlock(2)
           p == FirstPart(d)
           q == LastPart(d)
<1>1. /\ {one, two, MapBlock, s} \subseteq Sectors
      /\ one # two /\ one # MapBlock /\ two # MapBlock
      /\ one # s /\ two # s /\ MapBlock # s
      /\ {one, two, MapBlock} \subseteq Reserved
  BY Layout
<1>2. /\ D(0) = dsk /\ OneWrite(dsk, D(1), s, h) /\ OneWrite(D(1), D(2), one, p)
      /\ OneWrite(D(2), D(3), two, q) /\ OneWrite(D(3), D(4), MapBlock, m)
  BY FirstWrites
<1> HIDE DEF D, one, two, p, q
<1>3. /\ D(1)[s] = h /\ D(1)[one] = dsk[one] /\ D(1)[two] = dsk[two] /\ D(1)[MapBlock] = dsk[MapBlock]
      /\ \A b \in Sectors \ (Reserved \cup {s}) : D(1)[b] = dsk[b]
  BY <1>1, <1>2 DEF OneWrite
<1>4. /\ D(2)[s] = h /\ D(2)[one] = p /\ D(2)[two] = dsk[two] /\ D(2)[MapBlock] = dsk[MapBlock]
      /\ \A b \in Sectors \ (Reserved \cup {s}) : D(2)[b] = dsk[b]
  BY <1>1, <1>2, <1>3 DEF OneWrite
<1>5. /\ D(3)[s] = h /\ D(3)[one] = p /\ D(3)[two] = q /\ D(3)[MapBlock] = dsk[MapBlock]
      /\ \A b \in Sectors \ (Reserved \cup {s}) : D(3)[b] = dsk[b]
  BY <1>1, <1>2, <1>4 DEF OneWrite
<1>6. /\ D(4)[s] = h /\ D(4)[one] = p /\ D(4)[two] = q /\ D(4)[MapBlock] = m
      /\ \A b \in Sectors \ (Reserved \cup {s}) : D(4)[b] = dsk[b]
  BY <1>1, <1>2, <1>5 DEF OneWrite
<1>7. p \in FirstParts /\ q \in LastParts
  BY DEF p, q, FirstParts, LastParts
<1>8. LaidOut(D(1)) /\ LaidOut(D(2)) /\ LaidOut(D(3)) /\ LaidOut(D(4))
  BY <1>3, <1>4, <1>5, <1>6, <1>7 DEF LaidOut, one, two
<1>9. DirectoryOn(D(1)) = DirectoryOn(dsk)
  BY <1>3 DEF DirectoryOn, one, two
<1>10. DirectoryOn(D(2)) = Mixed(d, DirectoryOn(dsk))
  BY <1>4, DirectoryHalfWritten DEF one, two, p
<1>11. DirectoryOn(D(3)) = d /\ DirectoryOn(D(4)) = d
  BY <1>5, <1>6, DirectoryWritten DEF one, two, p, q
<1>12. ASSUME NEW k \in 1..4
       PROVE  /\ LaidOut(D(k)) /\ D(k)[s] = h
              /\ \A b \in Sectors \ (Reserved \cup {s}) : D(k)[b] = dsk[b]
  <2>1. k = 1 \/ k = 2 \/ k = 3 \/ k = 4
    OBVIOUS
  <2> QED BY <2>1, <1>3, <1>4, <1>5, <1>6, <1>8
<1> QED BY <1>2, <1>6, <1>9, <1>10, <1>11, <1>12 DEF D

\* What Create has when it succeeds: clear sectors for a header and its blocks, and
\* a directory with a new entry.
NewFile(dsk, s, h, d, e) ==
  /\ s \in Sectors /\ s \notin dsk[MapBlock].used
  /\ h \in Headers /\ s \notin Range(h.blocks)
  /\ Range(h.blocks) \cap dsk[MapBlock].used = {}
  /\ d \in Directories /\ e \in Entries
  /\ ~ DirectoryOn(dsk).inUse[e] /\ d.inUse[e] /\ d.sector[e] = s
  /\ \A i \in Entries \ {e} : SameEntry(DirectoryOn(dsk), d, i)
  /\ \A i \in Entries : DirectoryOn(dsk).inUse[i] => DirectoryOn(dsk).name[i] # d.name[e]

\* Its writes.
NewFileWrites(writes, dsk, s, h, d) ==
  /\ writes[1] = [sector |-> s, content |-> h]
  /\ writes[2] = [sector |-> DirectoryBlock(1), content |-> FirstPart(d)]
  /\ writes[3] = [sector |-> DirectoryBlock(2), content |-> LastPart(d)]
  /\ writes[4] = [sector |-> MapBlock,
                  content |-> FreeMap((dsk[MapBlock].used \cup {s}) \cup Range(h.blocks))]

\* Create at every moment, and when it is done.
LEMMA CreateStages ==
  ASSUME NEW dsk, Typed(dsk), FormattedDisk(dsk), Openable(dsk), Agrees(dsk),
         NEW s, NEW h, NEW d, NEW e, NewFile(dsk, s, h, d, e),
         NEW writes, NewFileWrites(writes, dsk, s, h, d)
  PROVE  /\ \A k \in 0..4 : Stage(dsk, Written(dsk, writes, k), e)
         /\ Agrees(Written(dsk, writes, 4))
         /\ e \notin InUse(dsk) /\ e \in InUse(Written(dsk, writes, 4))
         /\ DirectoryOn(Written(dsk, writes, 4)) = d
         /\ HeaderOf(Written(dsk, writes, 4), e) = h
<1> SUFFICES ASSUME
         s \in Sectors, s \notin dsk[MapBlock].used,
         h \in Headers, s \notin Range(h.blocks),
         Range(h.blocks) \cap dsk[MapBlock].used = {},
         d \in Directories, e \in Entries,
         ~ DirectoryOn(dsk).inUse[e], d.inUse[e], d.sector[e] = s,
         \A i \in Entries \ {e} : SameEntry(DirectoryOn(dsk), d, i),
         \A i \in Entries : DirectoryOn(dsk).inUse[i] => DirectoryOn(dsk).name[i] # d.name[e],
         writes[1] = [sector |-> s, content |-> h],
         writes[2] = [sector |-> DirectoryBlock(1), content |-> FirstPart(d)],
         writes[3] = [sector |-> DirectoryBlock(2), content |-> LastPart(d)],
         writes[4] = [sector |-> MapBlock,
                      content |-> FreeMap((dsk[MapBlock].used \cup {s}) \cup Range(h.blocks))]
       PROVE  /\ \A k \in 0..4 : Stage(dsk, Written(dsk, writes, k), e)
              /\ Agrees(Written(dsk, writes, 4))
              /\ e \notin InUse(dsk) /\ e \in InUse(Written(dsk, writes, 4))
              /\ DirectoryOn(Written(dsk, writes, 4)) = d
              /\ HeaderOf(Written(dsk, writes, 4), e) = h
  BY DEF NewFile, NewFileWrites
<1> DEFINE used == dsk[MapBlock].used
           d1 == DirectoryOn(dsk)
           m == FreeMap((used \cup {s}) \cup Range(h.blocks))
           D(k) == Written(dsk, writes, k)
<1>1. LaidOut(dsk) /\ d1 \in Directories
  BY DirectoryOfLaidOut DEF Openable
<1>2. s \notin Reserved
  BY DEF Agrees
<1>3. m \in FreeMaps
  <2>1. used \subseteq Sectors
    BY <1>1 DEF LaidOut, FreeMaps
  <2>2. (used \cup {s}) \cup Range(h.blocks) \subseteq Sectors
    BY <2>1, HeadersAre
  <2> QED BY <2>2 DEF FreeMaps, FreeMap
<1>4. /\ D(0) = dsk
      /\ \A k \in 1..4 : /\ LaidOut(D(k)) /\ D(k)[s] = h
                         /\ \A b \in Sectors \ (Reserved \cup {s}) : D(k)[b] = dsk[b]
      /\ DirectoryOn(D(1)) = d1 /\ DirectoryOn(D(2)) = Mixed(d, d1)
      /\ DirectoryOn(D(3)) = d /\ DirectoryOn(D(4)) = d
      /\ D(4)[MapBlock] = m
  <2> HIDE DEF m
  <2>1. writes[4] = [sector |-> MapBlock, content |-> m]
    BY DEF m
  <2> QED BY <1>1, <1>2, <1>3, <2>1, WritesOfCreate
<1>5. e \notin InUse(dsk)
  BY InUseAre
<1>6. \A i \in Entries \ {e} : SameEntry(d1, d1, i)
  BY DEF SameEntry
<1>7. Stage(dsk, D(0), e)
  BY <1>1, <1>4, <1>5, <1>6, StageOfCreate
<1>8. ASSUME NEW k \in 1..4,
             \A i \in Entries \ {e} : SameEntry(d1, DirectoryOn(D(k)), i),
             e \in InUse(D(k)) => SectorOf(D(k), e) = s
      PROVE  Stage(dsk, D(k), e)
  <2> HIDE DEF D
  <2>1. /\ LaidOut(D(k)) /\ D(k)[s] = h
        /\ \A b \in Sectors \ (Reserved \cup {s}) : D(k)[b] = dsk[b]
    BY <1>4
  <2> QED BY <1>8, <2>1, StageOfCreate
<1> HIDE DEF D, m
<1>9. Stage(dsk, D(1), e)
  <2>1. e \notin InUse(D(1))
    BY <1>4, InUseAre
  <2> QED BY <1>4, <1>6, <1>8, <2>1
<1>10. Stage(dsk, D(2), e)
  <2>1. /\ \A i \in Entries \ {e} : SameEntry(d1, Mixed(d, d1), i)
        /\ \/ Mixed(d, d1).inUse[e] = d1.inUse[e]
           \/ Mixed(d, d1).sector[e] = d.sector[e]
    BY <1>1, HalfDiffers
  <2>2. e \in InUse(D(2)) => SectorOf(D(2), e) = s
    BY <1>4, <2>1, InUseAre DEF SectorOf
  <2> QED BY <1>4, <1>8, <2>1, <2>2
<1>11. Stage(dsk, D(3), e)
  <2>1. SectorOf(D(3), e) = s
    BY <1>4 DEF SectorOf
  <2> QED BY <1>4, <1>8, <2>1
<1>12. Stage(dsk, D(4), e)
  <2>1. SectorOf(D(4), e) = s
    BY <1>4 DEF SectorOf
  <2> QED BY <1>4, <1>8, <2>1
<1>13. \A k \in 0..4 : Stage(dsk, D(k), e)
  <2>1. \A k \in 0..4 : k = 0 \/ k = 1 \/ k = 2 \/ k = 3 \/ k = 4
    OBVIOUS
  <2> QED BY <1>7, <1>9, <1>10, <1>11, <1>12, <2>1
<1>14. Agrees(D(4))
  <2>1. InUse(D(4)) = InUse(dsk) \cup {e}
    <3>1. e \in InUse(D(4))
      BY <1>4, InUseAre
    <3>2. \A i \in Entries \ {e} : i \in InUse(D(4)) <=> i \in InUse(dsk)
      BY <1>12 DEF Stage
    <3> QED BY <3>1, <3>2, InUseAre
  <2>2. SectorsOf(D(4), e) = {s} \cup Range(h.blocks)
    <3>1. SectorOf(D(4), e) = s /\ D(4)[s] = h
      BY <1>4 DEF SectorOf
    <3> QED BY <3>1, SectorsOfAre DEF HeaderOf
  <2>3. \A i \in InUse(dsk) : SectorsOf(D(4), i) = SectorsOf(dsk, i)
    BY <1>5, <1>12, InUseAre DEF Stage
  <2>4. UNION {SectorsOf(D(4), i) : i \in InUse(D(4))}
          = ({s} \cup Range(h.blocks)) \cup UNION {SectorsOf(dsk, i) : i \in InUse(dsk)}
    <3>1. {SectorsOf(D(4), i) : i \in InUse(D(4))}
            = {SectorsOf(dsk, i) : i \in InUse(dsk)} \cup {{s} \cup Range(h.blocks)}
      BY <1>5, <2>1, <2>2, <2>3
    <3> QED BY <3>1
  <2>5. D(4)[MapBlock].used = (used \cup {s}) \cup Range(h.blocks)
    BY <1>4 DEF m, FreeMap
  <2>6. used = Reserved \cup UNION {SectorsOf(dsk, i) : i \in InUse(dsk)}
    BY DEF Agrees
  <2>7. D(4)[MapBlock].used = Reserved \cup UNION {SectorsOf(D(4), i) : i \in InUse(D(4))}
    BY <2>4, <2>5, <2>6
  <2>8. ASSUME NEW i \in InUse(D(4)), NEW j \in InUse(D(4)),
               DirectoryOn(D(4)).name[i] = DirectoryOn(D(4)).name[j]
        PROVE  i = j
    <3>1. \A l \in InUse(dsk) : /\ l \in Entries \ {e} /\ d1.inUse[l]
                                /\ d.name[l] = d1.name[l] /\ d1.name[l] # d.name[e]
      BY <1>5, InUseAre DEF SameEntry
    <3>2. \A l, n \in InUse(dsk) : d1.name[l] = d1.name[n] => l = n
      BY DEF Agrees
    <3> QED BY <1>4, <2>1, <2>8, <3>1, <3>2
  <2> QED BY <2>7, <2>8 DEF Agrees
<1>15. e \in InUse(D(4)) /\ DirectoryOn(D(4)) = d /\ HeaderOf(D(4), e) = h
  <2>1. e \in InUse(D(4))
    BY <1>4, InUseAre
  <2>2. SectorOf(D(4), e) = s /\ D(4)[s] = h
    BY <1>4 DEF SectorOf
  <2> QED BY <1>4, <2>1, <2>2 DEF HeaderOf
<1> QED BY <1>5, <1>13, <1>14, <1>15 DEF D

\* What the disk is after each write of Remove.
LEMMA WritesOfRemove ==
  ASSUME NEW dsk, Typed(dsk), LaidOut(dsk), NEW d \in Directories, NEW m \in FreeMaps, NEW writes,
         writes[1] = [sector |-> MapBlock, content |-> m],
         writes[2] = [sector |-> DirectoryBlock(1), content |-> FirstPart(d)],
         writes[3] = [sector |-> DirectoryBlock(2), content |-> LastPart(d)]
  PROVE  /\ \A k \in 0..3 :
              /\ LaidOut(Written(dsk, writes, k))
              /\ \A b \in Sectors \ Reserved : Written(dsk, writes, k)[b] = dsk[b]
         /\ DirectoryOn(Written(dsk, writes, 0)) = DirectoryOn(dsk)
         /\ DirectoryOn(Written(dsk, writes, 1)) = DirectoryOn(dsk)
         /\ DirectoryOn(Written(dsk, writes, 2)) = Mixed(d, DirectoryOn(dsk))
         /\ DirectoryOn(Written(dsk, writes, 3)) = d
         /\ Written(dsk, writes, 3)[MapBlock] = m
<1> DEFINE D(k) == Written(dsk, writes, k)
           one == DirectoryBlock(1)
           two == DirectoryBlock(2)
           p == FirstPart(d)
           q == LastPart(d)
<1>1. /\ {one, two, MapBlock} \subseteq Sectors
      /\ one # two /\ one # MapBlock /\ two # MapBlock
      /\ {one, two, MapBlock} \subseteq Reserved
  BY Layout
<1>2. /\ D(0) = dsk /\ OneWrite(dsk, D(1), MapBlock, m) /\ OneWrite(D(1), D(2), one, p)
      /\ OneWrite(D(2), D(3), two, q)
  BY FirstWrites
<1> HIDE DEF D, one, two, p, q
<1>3. /\ D(1)[one] = dsk[one] /\ D(1)[two] = dsk[two] /\ D(1)[MapBlock] = m
      /\ \A b \in Sectors \ Reserved : D(1)[b] = dsk[b]
  BY <1>1, <1>2 DEF OneWrite
<1>4. /\ D(2)[one] = p /\ D(2)[two] = dsk[two] /\ D(2)[MapBlock] = m
      /\ \A b \in Sectors \ Reserved : D(2)[b] = dsk[b]
  BY <1>1, <1>2, <1>3 DEF OneWrite
<1>5. /\ D(3)[one] = p /\ D(3)[two] = q /\ D(3)[MapBlock] = m
      /\ \A b \in Sectors \ Reserved : D(3)[b] = dsk[b]
  BY <1>1, <1>2, <1>4 DEF OneWrite
<1>6. p \in FirstParts /\ q \in LastParts
  BY DEF p, q, FirstParts, LastParts
<1>7. LaidOut(D(0)) /\ LaidOut(D(1)) /\ LaidOut(D(2)) /\ LaidOut(D(3))
  BY <1>2, <1>3, <1>4, <1>5, <1>6 DEF LaidOut, one, two
<1>8. DirectoryOn(D(1)) = DirectoryOn(dsk)
  BY <1>3 DEF DirectoryOn, one, two
<1>9. DirectoryOn(D(2)) = Mixed(d, DirectoryOn(dsk))
  BY <1>4, DirectoryHalfWritten DEF one, two, p
<1>10. DirectoryOn(D(3)) = d
  BY <1>5, DirectoryWritten DEF one, two, p, q
<1>11. ASSUME NEW k \in 0..3
       PROVE  LaidOut(D(k)) /\ \A b \in Sectors \ Reserved : D(k)[b] = dsk[b]
  <2>1. k = 0 \/ k = 1 \/ k = 2 \/ k = 3
    OBVIOUS
  <2> QED BY <2>1, <1>2, <1>3, <1>4, <1>5, <1>7
<1> QED BY <1>2, <1>5, <1>8, <1>9, <1>10, <1>11 DEF D

\* Remove at every moment, and when it is done.
LEMMA RemoveStages ==
  ASSUME NEW dsk, Typed(dsk), FormattedDisk(dsk), Openable(dsk), Agrees(dsk),
         NEW e \in InUse(dsk), NEW d \in Directories,
         ~ d.inUse[e], d.sector = DirectoryOn(dsk).sector,
         \A i \in Entries \ {e} : SameEntry(DirectoryOn(dsk), d, i),
         NEW writes,
         writes[1] = [sector |-> MapBlock,
                      content |-> FreeMap(Freed(dsk[MapBlock].used, SectorOf(dsk, e),
                                                HeaderOf(dsk, e)))],
         writes[2] = [sector |-> DirectoryBlock(1), content |-> FirstPart(d)],
         writes[3] = [sector |-> DirectoryBlock(2), content |-> LastPart(d)]
  PROVE  /\ \A k \in 0..3 : Stage(dsk, Written(dsk, writes, k), e)
         /\ Agrees(Written(dsk, writes, 3)) /\ e \notin InUse(Written(dsk, writes, 3))
<1> DEFINE used == dsk[MapBlock].used
           d1 == DirectoryOn(dsk)
           m == FreeMap(Freed(used, SectorOf(dsk, e), HeaderOf(dsk, e)))
           D(k) == Written(dsk, writes, k)
<1>1. LaidOut(dsk) /\ d1 \in Directories /\ e \in Entries
  BY DirectoryOfLaidOut, InUseAre DEF Openable
<1>2. \A i \in InUse(dsk) :
        /\ HeaderOf(dsk, i) \in Headers
        /\ SectorOf(dsk, i) \notin Range(HeaderOf(dsk, i).blocks)
        /\ SectorsOf(dsk, i) \cap Reserved = {}
        /\ \A j \in InUse(dsk) \ {i} : SectorsOf(dsk, i) \cap SectorsOf(dsk, j) = {}
  BY DEF Openable
<1>3. m \in FreeMaps
  <2>1. used \subseteq Sectors
    BY <1>1 DEF LaidOut, FreeMaps
  <2> QED BY <2>1 DEF FreeMaps, FreeMap, Freed
<1>4. /\ \A k \in 0..3 : LaidOut(D(k)) /\ \A b \in Sectors \ Reserved : D(k)[b] = dsk[b]
      /\ DirectoryOn(D(0)) = d1 /\ DirectoryOn(D(1)) = d1
      /\ DirectoryOn(D(2)) = Mixed(d, d1) /\ DirectoryOn(D(3)) = d
      /\ D(3)[MapBlock] = m
  <2> HIDE DEF m
  <2>1. writes[1] = [sector |-> MapBlock, content |-> m]
    BY DEF m
  <2> QED BY <1>1, <1>3, <2>1, WritesOfRemove
<1> HIDE DEF D, m
<1>5. ASSUME NEW k \in 0..3,
             \A i \in Entries \ {e} : SameEntry(d1, DirectoryOn(D(k)), i),
             SectorOf(D(k), e) = SectorOf(dsk, e)
      PROVE  Stage(dsk, D(k), e)
  <2>1. SectorOf(dsk, e) \in Sectors \ Reserved
    <3>1. SectorOf(dsk, e) \in Sectors
      BY <1>1 DEF SectorOf, Directories
    <3> QED BY <1>2, <3>1, SectorsOfAre
  <2>2. HeaderOf(D(k), e) = HeaderOf(dsk, e)
    BY <1>4, <1>5, <2>1 DEF HeaderOf
  <2>3. SectorsOf(D(k), e) = SectorsOf(dsk, e)
    BY <1>5, <2>2, SectorsOfAre
  <2>4. /\ HeaderOf(D(k), e) \in Headers
        /\ SectorOf(D(k), e) \notin Range(HeaderOf(D(k), e).blocks)
        /\ SectorsOf(D(k), e) \cap Reserved = {}
        /\ \A j \in InUse(dsk) \ {e} : SectorsOf(D(k), e) \cap SectorsOf(dsk, j) = {}
    BY <1>2, <1>5, <2>2, <2>3
  <2>5. Reserved \in SUBSET Sectors
    BY Layout
  <2>6. \A i \in InUse(dsk) \ {e} : SectorsOf(dsk, i) \cap Reserved = {}
    BY <1>2
  <2> QED BY <1>1, <1>4, <1>5, <2>4, <2>5, <2>6, StageOfOperation
<1>6. Stage(dsk, D(0), e) /\ Stage(dsk, D(1), e)
  <2>1. \A i \in Entries \ {e} : SameEntry(d1, d1, i)
    BY DEF SameEntry
  <2>2. SectorOf(D(0), e) = SectorOf(dsk, e) /\ SectorOf(D(1), e) = SectorOf(dsk, e)
    BY <1>4 DEF SectorOf
  <2>3. 0 \in 0..3 /\ 1 \in 0..3
    OBVIOUS
  <2> QED BY <1>4, <1>5, <2>1, <2>2, <2>3
<1>7. Stage(dsk, D(2), e)
  <2>1. /\ \A i \in Entries \ {e} : SameEntry(d1, Mixed(d, d1), i)
        /\ Mixed(d, d1).sector[e] = d1.sector[e]
    BY <1>1, HalfDiffers
  <2>2. SectorOf(D(2), e) = SectorOf(dsk, e) /\ 2 \in 0..3
    BY <1>4, <2>1 DEF SectorOf
  <2> QED BY <1>4, <1>5, <2>1, <2>2
<1>8. Stage(dsk, D(3), e)
  <2>1. SectorOf(D(3), e) = SectorOf(dsk, e) /\ 3 \in 0..3
    BY <1>4 DEF SectorOf
  <2> QED BY <1>4, <1>5, <2>1
<1>9. \A k \in 0..3 : Stage(dsk, D(k), e)
  <2>1. \A k \in 0..3 : k = 0 \/ k = 1 \/ k = 2 \/ k = 3
    OBVIOUS
  <2> QED BY <1>6, <1>7, <1>8, <2>1
<1>10. Agrees(D(3)) /\ e \notin InUse(D(3))
  <2>1. InUse(D(3)) = InUse(dsk) \ {e}
    <3>1. e \notin InUse(D(3))
      BY <1>4, InUseAre
    <3>2. \A i \in Entries \ {e} : i \in InUse(D(3)) <=> i \in InUse(dsk)
      BY <1>8 DEF Stage
    <3> QED BY <3>1, <3>2, InUseAre
  <2>2. \A i \in InUse(dsk) \ {e} : SectorsOf(D(3), i) = SectorsOf(dsk, i)
    BY <1>8, InUseAre DEF Stage
  <2>3. {SectorsOf(D(3), i) : i \in InUse(D(3))} = {SectorsOf(dsk, i) : i \in InUse(dsk) \ {e}}
    BY <2>1, <2>2
  <2>4. D(3)[MapBlock].used = used \ SectorsOf(dsk, e)
    <3>1. D(3)[MapBlock].used = used \ (Range(HeaderOf(dsk, e).blocks) \cup {SectorOf(dsk, e)})
      BY <1>4 DEF m, FreeMap, Freed
    <3> QED BY <3>1, SectorsOfAre
  <2>5. used = Reserved \cup UNION {SectorsOf(dsk, i) : i \in InUse(dsk)}
    BY DEF Agrees
  <2>6. D(3)[MapBlock].used = Reserved \cup UNION {SectorsOf(dsk, i) : i \in InUse(dsk) \ {e}}
    <3> DEFINE R == Reserved \cup UNION {SectorsOf(dsk, i) : i \in InUse(dsk) \ {e}}
    <3>1. R \cap SectorsOf(dsk, e) = {}
      BY <1>2
    <3>2. used = R \cup SectorsOf(dsk, e)
      BY <2>5
    <3> HIDE DEF R
    <3> QED BY <2>4, <3>1, <3>2 DEF R
  <2>7. D(3)[MapBlock].used = Reserved \cup UNION {SectorsOf(D(3), i) : i \in InUse(D(3))}
    BY <2>3, <2>6
  <2>8. ASSUME NEW i \in InUse(D(3)), NEW j \in InUse(D(3)),
               DirectoryOn(D(3)).name[i] = DirectoryOn(D(3)).name[j]
        PROVE  i = j
    <3>1. \A l \in InUse(dsk) \ {e} : l \in Entries \ {e} /\ d.name[l] = d1.name[l]
      BY InUseAre DEF SameEntry
    <3>2. \A l, n \in InUse(dsk) : d1.name[l] = d1.name[n] => l = n
      BY DEF Agrees
    <3> QED BY <1>4, <2>1, <2>8, <3>1, <3>2
  <2> QED BY <2>1, <2>7, <2>8 DEF Agrees
<1> QED BY <1>9, <1>10 DEF D

\* Sectors of a file are written, and nothing else.
LEMMA TransferStage ==
  ASSUME NEW dsk1, Typed(dsk1), FormattedDisk(dsk1), Openable(dsk1), Agrees(dsk1),
         NEW e \in InUse(dsk1), NEW dsk2,
         \A b \in Sectors \ Range(HeaderOf(dsk1, e).blocks) : dsk2[b] = dsk1[b]
  PROVE  /\ Stage(dsk1, dsk2, e) /\ Agrees(dsk2)
         /\ e \in InUse(dsk2) /\ HeaderOf(dsk2, e) = HeaderOf(dsk1, e)
         /\ DirectoryOn(dsk2) = DirectoryOn(dsk1)
<1> DEFINE S == Range(HeaderOf(dsk1, e).blocks)
<1>1. LaidOut(dsk1) /\ DirectoryOn(dsk1) \in Directories /\ e \in Entries
  BY DirectoryOfLaidOut, InUseAre DEF Openable
<1>2. \A i \in InUse(dsk1) :
        /\ HeaderOf(dsk1, i) \in Headers
        /\ SectorOf(dsk1, i) \notin Range(HeaderOf(dsk1, i).blocks)
        /\ SectorsOf(dsk1, i) \cap Reserved = {}
        /\ \A j \in InUse(dsk1) \ {i} : SectorsOf(dsk1, i) \cap SectorsOf(dsk1, j) = {}
  BY DEF Openable
<1>3. S \in SUBSET Sectors /\ S \subseteq SectorsOf(dsk1, e) /\ SectorOf(dsk1, e) \in Sectors \ S
  <2>1. SectorOf(dsk1, e) \in Sectors
    BY <1>1 DEF SectorOf, Directories
  <2> QED BY <1>2, <2>1, HeadersAre, SectorsOfAre
<1>4. \A b \in Reserved : b \in Sectors \ S
  BY <1>2, <1>3, Layout
<1>5. /\ dsk2[MapBlock] = dsk1[MapBlock]
      /\ dsk2[DirectoryBlock(1)] = dsk1[DirectoryBlock(1)]
      /\ dsk2[DirectoryBlock(2)] = dsk1[DirectoryBlock(2)]
  BY <1>4, Layout
<1>6. LaidOut(dsk2) /\ DirectoryOn(dsk2) = DirectoryOn(dsk1)
  BY <1>1, <1>5 DEF LaidOut, DirectoryOn
<1>7. InUse(dsk2) = InUse(dsk1) /\ \A i : SectorOf(dsk2, i) = SectorOf(dsk1, i)
  BY <1>6 DEF InUse, SectorOf
<1>8. HeaderOf(dsk2, e) = HeaderOf(dsk1, e) /\ SectorsOf(dsk2, e) = SectorsOf(dsk1, e)
  <2>1. HeaderOf(dsk2, e) = HeaderOf(dsk1, e)
    BY <1>3, <1>7 DEF HeaderOf
  <2> QED BY <1>7, <2>1, SectorsOfAre
<1>9. Stage(dsk1, dsk2, e)
  <2>1. \A i \in Entries \ {e} : SameEntry(DirectoryOn(dsk1), DirectoryOn(dsk2), i)
    BY <1>6 DEF SameEntry
  <2>2. \A i \in InUse(dsk1) \ {e} : SectorsOf(dsk1, i) \cap S = {}
    BY <1>2, <1>3
  <2>3. /\ HeaderOf(dsk2, e) \in Headers
        /\ SectorOf(dsk2, e) \notin Range(HeaderOf(dsk2, e).blocks)
        /\ SectorsOf(dsk2, e) \cap Reserved = {}
        /\ \A j \in InUse(dsk1) \ {e} : SectorsOf(dsk2, e) \cap SectorsOf(dsk1, j) = {}
    BY <1>2, <1>7, <1>8
  <2>4. \A b \in Sectors \ S : dsk2[b] = dsk1[b]
    OBVIOUS
  <2> HIDE DEF S
  <2> QED BY <1>1, <1>3, <1>6, <2>1, <2>2, <2>3, <2>4, StageOfOperation
<1>10. Agrees(dsk2)
  <2>1. \A i \in InUse(dsk1) : SectorsOf(dsk2, i) = SectorsOf(dsk1, i)
    BY <1>8, <1>9, InUseAre DEF Stage
  <2>2. {SectorsOf(dsk2, i) : i \in InUse(dsk2)} = {SectorsOf(dsk1, i) : i \in InUse(dsk1)}
    BY <1>7, <2>1
  <2> QED BY <1>5, <1>6, <1>7, <2>2 DEF Agrees
<1> QED BY <1>6, <1>7, <1>8, <1>9, <1>10

\* An empty directory.
LEMMA EmptyDirectoryIs ==
  EmptyDirectory \in Directories /\ \A i \in Entries : ~ EmptyDirectory.inUse[i]
<1>1. 0 \in Sectors
  BY Layout
<1> QED BY <1>1 DEF EmptyDirectory, Directories

\* What the disk is after each write of formatting.
LEMMA WritesOfFormat ==
  ASSUME NEW dsk, Typed(dsk), NEW writes,
         writes[1] = [sector |-> FreeMapSector, content |-> MapHeader],
         writes[2] = [sector |-> DirectorySector, content |-> DirectoryHeader],
         writes[3] = [sector |-> MapBlock, content |-> FreeMap(Reserved)],
         writes[4] = [sector |-> DirectoryBlock(1), content |-> FirstPart(EmptyDirectory)],
         writes[5] = [sector |-> DirectoryBlock(2), content |-> LastPart(EmptyDirectory)]
  PROVE  /\ \A k \in 0..5 :
              /\ LaidOut(dsk) => LaidOut(Written(dsk, writes, k))
              /\ \A b \in Sectors \ Reserved : Written(dsk, writes, k)[b] = dsk[b]
         /\ \A k \in 0..4 :
              Written(dsk, writes, k)[DirectoryBlock(2)] = dsk[DirectoryBlock(2)]
         /\ \A k \in 0..3 : DirectoryOn(Written(dsk, writes, k)) = DirectoryOn(dsk)
         /\ LaidOut(dsk) => DirectoryOn(Written(dsk, writes, 4))
                              = Mixed(EmptyDirectory, DirectoryOn(dsk))
         /\ LaidOut(Written(dsk, writes, 5))
         /\ DirectoryOn(Written(dsk, writes, 5)) = EmptyDirectory
         /\ Written(dsk, writes, 5)[MapBlock] = FreeMap(Reserved)
<1> DEFINE D(k) == Written(dsk, writes, k)
           one == DirectoryBlock(1)
           two == DirectoryBlock(2)
           p == FirstPart(EmptyDirectory)
           q == LastPart(EmptyDirectory)
           m == FreeMap(Reserved)
<1>1. /\ {0, 1, one, two, MapBlock} \subseteq Sectors /\ {0, 1, one, two, MapBlock} \subseteq Reserved
      /\ one # two /\ one # MapBlock /\ two # MapBlock
      /\ one \notin {0, 1} /\ two \notin {0, 1} /\ MapBlock \notin {0, 1}
  BY Layout
<1>2. /\ D(0) = dsk /\ OneWrite(dsk, D(1), 0, MapHeader) /\ OneWrite(D(1), D(2), 1, DirectoryHeader)
      /\ OneWrite(D(2), D(3), MapBlock, m) /\ OneWrite(D(3), D(4), one, p)
      /\ OneWrite(D(4), D(5), two, q)
  BY FirstWrites DEF FreeMapSector, DirectorySector
<1>3. p \in FirstParts /\ q \in LastParts /\ m \in FreeMaps
  BY EmptyDirectoryIs, Layout DEF FirstParts, LastParts, FreeMaps, FreeMap
<1> HIDE DEF D, one, two, p, q, m
<1>4. /\ D(1)[one] = dsk[one] /\ D(1)[two] = dsk[two] /\ D(1)[MapBlock] = dsk[MapBlock]
      /\ \A b \in Sectors \ Reserved : D(1)[b] = dsk[b]
  BY <1>1, <1>2 DEF OneWrite
<1>5. /\ D(2)[one] = dsk[one] /\ D(2)[two] = dsk[two] /\ D(2)[MapBlock] = dsk[MapBlock]
      /\ \A b \in Sectors \ Reserved : D(2)[b] = dsk[b]
  BY <1>1, <1>2, <1>4 DEF OneWrite
<1>6. /\ D(3)[one] = dsk[one] /\ D(3)[two] = dsk[two] /\ D(3)[MapBlock] = m
      /\ \A b \in Sectors \ Reserved : D(3)[b] = dsk[b]
  BY <1>1, <1>2, <1>5 DEF OneWrite
<1>7. /\ D(4)[one] = p /\ D(4)[two] = dsk[two] /\ D(4)[MapBlock] = m
      /\ \A b \in Sectors \ Reserved : D(4)[b] = dsk[b]
  BY <1>1, <1>2, <1>6 DEF OneWrite
<1>8. /\ D(5)[one] = p /\ D(5)[two] = q /\ D(5)[MapBlock] = m
      /\ \A b \in Sectors \ Reserved : D(5)[b] = dsk[b]
  BY <1>1, <1>2, <1>7 DEF OneWrite
<1>9. ASSUME NEW k \in 0..5
      PROVE  /\ LaidOut(dsk) => LaidOut(D(k))
             /\ \A b \in Sectors \ Reserved : D(k)[b] = dsk[b]
             /\ k <= 4 => D(k)[two] = dsk[two]
             /\ k <= 3 => DirectoryOn(D(k)) = DirectoryOn(dsk)
  <2>1. CASE k \in {0, 1, 2, 3}
    <3>1. /\ D(k)[one] = dsk[one] /\ D(k)[two] = dsk[two] /\ D(k)[MapBlock] \in {m, dsk[MapBlock]}
          /\ \A b \in Sectors \ Reserved : D(k)[b] = dsk[b]
      BY <1>2, <1>4, <1>5, <1>6, <2>1
    <3>2. DirectoryOn(D(k)) = DirectoryOn(dsk)
      BY <3>1 DEF DirectoryOn, one, two
    <3>3. LaidOut(dsk) => LaidOut(D(k))
      BY <1>3, <3>1 DEF LaidOut, one, two
    <3> QED BY <3>1, <3>2, <3>3
  <2>2. CASE k = 4
    <3>1. LaidOut(dsk) => LaidOut(D(k))
      BY <1>3, <1>7, <2>2 DEF LaidOut, one, two
    <3> QED BY <1>7, <2>2, <3>1
  <2>3. CASE k = 5
    <3>1. LaidOut(dsk) => LaidOut(D(k))
      BY <1>3, <1>8, <2>3 DEF LaidOut, one, two
    <3> QED BY <1>8, <2>3, <3>1
  <2> QED BY <2>1, <2>2, <2>3
<1>10. LaidOut(dsk) => DirectoryOn(D(4)) = Mixed(EmptyDirectory, DirectoryOn(dsk))
  BY <1>7, DirectoryHalfWritten, EmptyDirectoryIs DEF one, two, p
<1>11. LaidOut(D(5)) /\ DirectoryOn(D(5)) = EmptyDirectory
  <2>1. LaidOut(D(5))
    BY <1>3, <1>8 DEF LaidOut, one, two
  <2> QED BY <1>8, <2>1, DirectoryWritten, EmptyDirectoryIs DEF one, two, p, q
<1>12. (\A k \in 0..4 : k \in 0..5 /\ k <= 4) /\ (\A k \in 0..3 : k \in 0..5 /\ k <= 3)
  OBVIOUS
<1>13. (\A k \in 0..4 : D(k)[two] = dsk[two]) /\ \A k \in 0..3 : DirectoryOn(D(k)) = DirectoryOn(dsk)
  BY <1>9, <1>12
<1> QED BY <1>8, <1>9, <1>10, <1>11, <1>13 DEF D, two, m

\* Formatting at every moment, and when it is done.
LEMMA FormatStages ==
  ASSUME NEW dsk, Typed(dsk), Openable(dsk), NEW writes,
         writes[1] = [sector |-> FreeMapSector, content |-> MapHeader],
         writes[2] = [sector |-> DirectorySector, content |-> DirectoryHeader],
         writes[3] = [sector |-> MapBlock, content |-> FreeMap(Reserved)],
         writes[4] = [sector |-> DirectoryBlock(1), content |-> FirstPart(EmptyDirectory)],
         writes[5] = [sector |-> DirectoryBlock(2), content |-> LastPart(EmptyDirectory)]
  PROVE  /\ \A k \in 0..5 : Openable(Written(dsk, writes, k))
         /\ FormattedDisk(Written(dsk, writes, 5)) /\ Agrees(Written(dsk, writes, 5))
         /\ InUse(Written(dsk, writes, 5)) = {}
<1> DEFINE D(k) == Written(dsk, writes, k)
<1>1. /\ \A k \in 0..5 : /\ LaidOut(dsk) => LaidOut(D(k))
                         /\ \A b \in Sectors \ Reserved : D(k)[b] = dsk[b]
      /\ \A k \in 0..4 : D(k)[DirectoryBlock(2)] = dsk[DirectoryBlock(2)]
      /\ \A k \in 0..3 : DirectoryOn(D(k)) = DirectoryOn(dsk)
      /\ LaidOut(dsk) => DirectoryOn(D(4)) = Mixed(EmptyDirectory, DirectoryOn(dsk))
      /\ LaidOut(D(5)) /\ DirectoryOn(D(5)) = EmptyDirectory /\ D(5)[MapBlock] = FreeMap(Reserved)
  BY WritesOfFormat
<1> HIDE DEF D
<1>2. InUse(D(5)) = {}
  BY <1>1, EmptyDirectoryIs, InUseAre
<1>3. Openable(D(5))
  BY <1>1, <1>2 DEF Openable
<1>4. Agrees(D(5))
  <2>1. D(5)[MapBlock].used = Reserved
    BY <1>1 DEF FreeMap
  <2>2. UNION {SectorsOf(D(5), i) : i \in {}} = {}
    OBVIOUS
  <2> QED BY <1>2, <2>1, <2>2 DEF Agrees
<1>5. ASSUME NEW k \in 0..4
      PROVE  Openable(D(k))
  <2>1. CASE ~ FormattedDisk(dsk)
    BY <1>1, <2>1 DEF Openable, FormattedDisk
  <2>2. CASE FormattedDisk(dsk)
    <3>1. LaidOut(dsk) /\ LaidOut(D(k)) /\ k \in 0..5
      BY <1>1, <2>2 DEF Openable
    <3>2. ASSUME NEW i \in InUse(D(k))
          PROVE  i \in InUse(dsk) /\ SectorOf(D(k), i) = SectorOf(dsk, i)
      <4>1. CASE k \in 0..3
        BY <1>1, <4>1 DEF InUse, SectorOf
      <4>2. CASE k = 4
        <5> DEFINE m == Mixed(EmptyDirectory, DirectoryOn(dsk))
        <5>1. i \in Entries /\ m.inUse[i] /\ DirectoryOn(D(k)) = m
          BY <1>1, <3>1, <4>2, InUseAre
        <5>2. ~ (i <= StraddlingEntry)
          BY <5>1, EmptyDirectoryIs DEF Mixed
        <5>3. m.inUse[i] = DirectoryOn(dsk).inUse[i] /\ m.sector[i] = DirectoryOn(dsk).sector[i]
          BY <5>1, <5>2 DEF Mixed
        <5> HIDE DEF m
        <5> QED BY <5>1, <5>3, InUseAre DEF SectorOf
      <4> QED BY <4>1, <4>2
    <3>3. ASSUME NEW i \in InUse(D(k))
          PROVE  HeaderOf(D(k), i) = HeaderOf(dsk, i)
      <4>1. i \in InUse(dsk) /\ SectorOf(D(k), i) = SectorOf(dsk, i) /\ i \in Entries
        BY <3>2, InUseAre
      <4>2. SectorOf(dsk, i) \in Sectors
        BY <3>1, <4>1, DirectoryOfLaidOut DEF SectorOf, Directories
      <4>3. SectorOf(dsk, i) \notin Reserved
        BY <2>2, <4>1, SectorsOfAre DEF Openable
      <4> QED BY <1>1, <3>1, <4>1, <4>2, <4>3 DEF HeaderOf
    <3> QED BY <2>2, <3>1, <3>2, <3>3, StillOpenable, InUseAre
  <2> QED BY <2>1, <2>2
<1>6. \A k \in 0..5 : k \in 0..4 \/ k = 5
  OBVIOUS
<1> QED BY <1>1, <1>2, <1>3, <1>4, <1>5, <1>6, LaidOutIsFormatted DEF D

-----------------------------------------------------------------------------
(* The inductive invariant.                                                *)

\* The disks from now until the operation is done, each of which a crash may
\* leave, and the last of them.
Moments(dsk, writes) == {Written(dsk, writes, k) : k \in 0 .. Len(writes)}
Done(dsk, writes) == Written(dsk, writes, Len(writes))

AlwaysSafe(dsk, writes) == \A D \in Moments(dsk, writes) : Openable(D)
EndsWell(dsk, writes) == FormattedDisk(Done(dsk, writes)) /\ Agrees(Done(dsk, writes))
OneAtStake(dsk, writes) ==
  \E e \in Entries : \A D \in Moments(dsk, writes) : \A i \in Entries \ {e} :
    FileAt(D, i) = FileAt(Done(dsk, writes), i)

CopyJobs == [command : {"-cp"}, name : Names, data : UnixFiles, step : {"create", "open"}]
CopyTransfers ==
  [command : {"-cp"}, name : Names, data : UnixFiles, step : {"transfer"}, hdr : Headers,
   amountRead : Nat, seekPosition : Nat]
PrintJobs == [command : {"-p"}, name : Names, step : {"open"}]
PrintTransfers ==
  [command : {"-p"}, name : Names, data : {<<>>}, step : {"transfer"}, hdr : Headers,
   amountRead : Nat, seekPosition : Nat]
RemoveJobs == [command : {"-r"}, name : Names, step : {"remove"}]
TestJobs == [command : {"-t"}, name : Names, step : {"create", "remove"}]
FormatJobs == [command : {"-f"}, step : {"finish"}]
Jobs == {NoJob} \cup CopyJobs \cup CopyTransfers \cup PrintJobs \cup PrintTransfers
        \cup RemoveJobs \cup TestJobs \cup FormatJobs

FsTypes ==
  /\ Typed(disk)
  /\ pending \in Seq(SectorWrites) /\ FitWrites(pending)
  /\ job \in Jobs
  /\ sound \in BOOLEAN
  /\ output \in Seq(Bytes)

\* Whatever the moment, the disk is openable; and as long as no crash interrupts
\* it, the operation ends with a map that agrees with the directory.
DiskInv ==
  /\ AlwaysSafe(disk, pending)
  /\ sound => EndsWell(disk, pending)
  /\ sound /\ job.command # "-f" => OneAtStake(disk, pending)

\* What the commands rely on.
JobInv ==
  /\ job.command \in {"-cp", "-r", "-t"} => sound
  /\ job.command = "-p" => pending = <<>> /\ FormattedDisk(disk)
  /\ job \in CopyTransfers =>
       \E i \in InUse(Done(disk, pending)) : job.hdr = HeaderOf(Done(disk, pending), i)

FsInv == FsTypes /\ DiskInv /\ JobInv

LEMMA MomentsAre ==
  ASSUME NEW dsk, Typed(dsk), NEW writes \in Seq(SectorWrites)
  PROVE  /\ dsk \in Moments(dsk, writes) /\ Done(dsk, writes) \in Moments(dsk, writes)
         /\ writes = <<>> => Moments(dsk, writes) = {dsk} /\ Done(dsk, writes) = dsk
<1> DEFINE n == Len(writes)
<1>1. n \in Nat /\ 0 \in 0..n /\ n \in 0..n /\ (writes = <<>> => n = 0)
  OBVIOUS
<1>2. Moments(dsk, writes) = {Written(dsk, writes, k) : k \in 0..n} /\ Done(dsk, writes) = Written(dsk, writes, n)
  BY DEF Moments, Done
<1> HIDE DEF n
<1>3. Written(dsk, writes, 0) = dsk
  BY WrittenNothing
<1>4. 0..0 = {0}
  OBVIOUS
<1> QED BY <1>1, <1>2, <1>3, <1>4

\* The moments of so many writes.
LEMMA MomentsOfWrites ==
  ASSUME NEW dsk, NEW writes, NEW n, Len(writes) = n
  PROVE  Moments(dsk, writes) = {Written(dsk, writes, k) : k \in 0..n}
         /\ Done(dsk, writes) = Written(dsk, writes, n)
BY DEF Moments, Done

\* A write brings the operation nearer to the same end.
LEMMA MomentsAfterWrite ==
  ASSUME NEW dsk, Typed(dsk), NEW writes \in Seq(SectorWrites), FitWrites(writes), writes # <<>>,
         NEW dsk2, dsk2 = [dsk EXCEPT ![Head(writes).sector] = Head(writes).content]
  PROVE  /\ Typed(dsk2) /\ Tail(writes) \in Seq(SectorWrites) /\ FitWrites(Tail(writes))
         /\ Moments(dsk2, Tail(writes)) \subseteq Moments(dsk, writes)
         /\ Done(dsk2, Tail(writes)) = Done(dsk, writes)
<1> DEFINE rest == Tail(writes)
           n == Len(writes) - 1
<1>1. /\ rest \in Seq(SectorWrites) /\ Len(rest) = n /\ n \in Nat /\ Len(writes) = n + 1
      /\ Head(writes) = writes[1] /\ 1 \in 1..Len(writes)
      /\ \A i \in 1..n : rest[i] = writes[i + 1] /\ i + 1 \in 1..Len(writes)
  OBVIOUS
<1>2. FitWrites(rest)
  BY <1>1 DEF FitWrites
<1>3. Typed(dsk2)
  <2>1. writes[1].sector \in Sectors /\ Fits(writes[1].sector, writes[1].content)
    BY <1>1 DEF FitWrites
  <2>2. dsk2 = [dsk EXCEPT ![writes[1].sector] = writes[1].content]
    BY <1>1
  <2> QED BY <2>1, <2>2 DEF Typed
<1>4. \A k \in 0..n : Written(dsk2, rest, k) = Written(dsk, writes, k + 1)
  BY <1>1, WrittenAfterFirst
<1>5. /\ Moments(dsk2, rest) = {Written(dsk2, rest, k) : k \in 0..n}
      /\ Done(dsk2, rest) = Written(dsk2, rest, n)
  <2>1. Len(rest) = n
    BY <1>1
  <2> HIDE DEF n, rest
  <2> QED BY <2>1, Zenon DEF Moments, Done
<1>6. /\ Moments(dsk, writes) = {Written(dsk, writes, k) : k \in 0..(n + 1)}
      /\ Done(dsk, writes) = Written(dsk, writes, n + 1)
  BY <1>1, MomentsOfWrites
<1>7. n \in 0..n /\ \A k \in 0..n : k + 1 \in 0..(n + 1)
  BY <1>1
<1> HIDE DEF n, rest
<1> QED BY <1>1, <1>2, <1>3, <1>4, <1>5, <1>6, <1>7 DEF rest

\* An operation with one file at stake.
LEMMA StagesSuffice ==
  ASSUME NEW dsk, Typed(dsk), NEW writes \in Seq(SectorWrites), NEW e \in Entries,
         \A D \in Moments(dsk, writes) : Stage(dsk, D, e)
  PROVE  /\ AlwaysSafe(dsk, writes) /\ OneAtStake(dsk, writes)
         /\ FormattedDisk(Done(dsk, writes))
<1>1. Done(dsk, writes) \in Moments(dsk, writes)
  BY MomentsAre
<1>2. \A D \in Moments(dsk, writes) : Openable(D)
  BY DEF Stage
<1>3. \A D \in Moments(dsk, writes) : \A i \in Entries \ {e} :
        FileAt(D, i) = FileAt(Done(dsk, writes), i)
  BY <1>1 DEF Stage
<1>4. FormattedDisk(Done(dsk, writes))
  BY <1>1, LaidOutIsFormatted DEF Stage
<1> QED BY <1>2, <1>3, <1>4 DEF AlwaysSafe, OneAtStake

\* Between operations the disk is what the last one made of it.
LEMMA AtRest ==
  ASSUME FsInv, pending = <<>>
  PROVE  /\ Done(disk, pending) = disk /\ Openable(disk)
         /\ sound => FormattedDisk(disk) /\ Agrees(disk)
<1>1. Moments(disk, pending) = {disk} /\ Done(disk, pending) = disk
  BY MomentsAre DEF FsInv, FsTypes
<1> QED BY <1>1 DEF FsInv, DiskInv, AlwaysSafe, EndsWell

\* What is true of a disk with nothing to write.
LEMMA NothingToWrite ==
  ASSUME NEW dsk, Typed(dsk), NEW writes, writes = <<>>, Openable(dsk)
  PROVE  /\ AlwaysSafe(dsk, writes) /\ OneAtStake(dsk, writes)
         /\ FormattedDisk(dsk) /\ Agrees(dsk) => EndsWell(dsk, writes)
         /\ Done(dsk, writes) = dsk
<1>1. Moments(dsk, writes) = {dsk} /\ Done(dsk, writes) = dsk
  <2>1. writes \in Seq(SectorWrites)
    OBVIOUS
  <2> QED BY <2>1, MomentsAre
<1>2. StraddlingEntry \in Entries
  BY FileSystemAssumption DEF Entries
<1> QED BY <1>1, <1>2 DEF AlwaysSafe, OneAtStake, EndsWell

\* A step that writes nothing.
LEMMA StaysAtRest ==
  ASSUME FsInv, pending = <<>>, disk' = disk, pending' = <<>>, sound' = sound
  PROVE  /\ DiskInv' /\ Typed(disk)' /\ (pending \in Seq(SectorWrites))' /\ FitWrites(pending)'
         /\ (sound \in BOOLEAN)' /\ Done(disk', pending') = disk
<1>1. Openable(disk) /\ (sound => FormattedDisk(disk) /\ Agrees(disk))
  BY AtRest
<1>2. Typed(disk) /\ sound \in BOOLEAN
  BY DEF FsInv, FsTypes
<1>3. /\ AlwaysSafe(disk', pending') /\ OneAtStake(disk', pending')
      /\ FormattedDisk(disk) /\ Agrees(disk) => EndsWell(disk', pending')
      /\ Done(disk', pending') = disk
  BY <1>1, <1>2, NothingToWrite
<1>4. DiskInv'
  BY <1>1, <1>3 DEF DiskInv
<1>5. Typed(disk')
  BY <1>2
<1>6. pending' \in Seq(SectorWrites) /\ FitWrites(pending')
  BY DEF FitWrites
<1> QED BY <1>2, <1>3, <1>4, <1>5, <1>6

-----------------------------------------------------------------------------
(* Every action preserves it.                                              *)

LEMMA JobIs ==
  ASSUME NEW j \in Jobs
  PROVE  /\ j \in CopyTransfers <=> j.command = "-cp" /\ j.step = "transfer"
         /\ j.command = "-cp" /\ j.step \in {"create", "open"} => j \in CopyJobs
         /\ j.command = "-p" /\ j.step = "open" => j \in PrintJobs
         /\ j.command = "-p" /\ j.step = "transfer" => j \in PrintTransfers
         /\ j.command = "-r" => j \in RemoveJobs
         /\ j.command = "-t" => j \in TestJobs
         /\ j.command \in {"none", "-f", "-cp", "-p", "-r", "-t"}
<1>1. CASE j = NoJob
  BY <1>1 DEF NoJob, CopyTransfers
<1>2. CASE j \in CopyJobs
  BY <1>2 DEF CopyJobs, CopyTransfers
<1>3. CASE j \in CopyTransfers
  BY <1>3 DEF CopyTransfers
<1>4. CASE j \in PrintJobs
  BY <1>4 DEF PrintJobs, CopyTransfers
<1>5. CASE j \in PrintTransfers
  BY <1>5 DEF PrintTransfers, CopyTransfers
<1>6. CASE j \in RemoveJobs
  BY <1>6 DEF RemoveJobs, CopyTransfers
<1>7. CASE j \in TestJobs
  BY <1>7 DEF TestJobs, CopyTransfers
<1>8. CASE j \in FormatJobs
  BY <1>8 DEF FormatJobs, CopyTransfers
<1> QED BY <1>1, <1>2, <1>3, <1>4, <1>5, <1>6, <1>7, <1>8 DEF Jobs

LEMMA InitFs ==
  ASSUME Init
  PROVE  FsInv
<1>1. Typed(disk)
  BY DEF Init, Typed, Fits
<1>2. ~ FormattedDisk(disk)
  BY Layout DEF Init, FormattedDisk, Garbage
<1>3. Openable(disk) /\ pending = <<>>
  BY <1>2 DEF Openable, Init
<1>4. DiskInv
  BY <1>1, <1>3, NothingToWrite DEF Init, DiskInv
<1>5. FsTypes
  <2>1. pending \in Seq(SectorWrites) /\ FitWrites(pending)
    BY <1>3 DEF FitWrites
  <2>2. output \in Seq(Bytes)
    BY DEF Init
  <2> QED BY <1>1, <2>1, <2>2 DEF Init, FsTypes, Jobs
<1>6. JobInv
  BY DEF Init, JobInv, NoJob, CopyTransfers
<1> QED BY <1>4, <1>5, <1>6 DEF FsInv

LEMMA CommandKeeps ==
  ASSUME FsInv, NEW j \in Jobs \ CopyTransfers, j.command \in {"-cp", "-p", "-r", "-t"}, Command(j)
  PROVE  FsInv'
<1>1. /\ pending = <<>> /\ pending' = <<>> /\ disk' = disk /\ sound' = sound
      /\ job' = j /\ output' = <<>> /\ FormattedDisk(disk) /\ (sound \/ j.command = "-p")
  BY DEF Command, Formatted, FormattedDisk
<1>2. /\ DiskInv' /\ Typed(disk)' /\ (pending \in Seq(SectorWrites))' /\ FitWrites(pending)'
      /\ (sound \in BOOLEAN)'
  BY <1>1, StaysAtRest
<1>3. (output \in Seq(Bytes))'
  BY <1>1
<1>4. JobInv'
  BY <1>1 DEF JobInv
<1> QED BY <1>1, <1>2, <1>3, <1>4 DEF FsInv, FsTypes

LEMMA CommandsKeep ==
  ASSUME FsInv, NEW n \in Names,
         \/ \E u \in UnixFiles : CopyCommand(n, u)
         \/ PrintCommand(n) \/ RemoveCommand(n) \/ TestCommand(n)
  PROVE  FsInv'
<1>1. ASSUME NEW u \in UnixFiles, CopyCommand(n, u)
      PROVE  FsInv'
  <2> DEFINE j == [command |-> "-cp", name |-> n, data |-> u, step |-> "create"]
  <2>1. j \in Jobs \ CopyTransfers
    BY DEF Jobs, CopyJobs, CopyTransfers
  <2> QED BY <1>1, <2>1, CommandKeeps DEF CopyCommand
<1>2. CASE PrintCommand(n)
  <2> DEFINE j == [command |-> "-p", name |-> n, step |-> "open"]
  <2>1. j \in Jobs \ CopyTransfers
    BY DEF Jobs, PrintJobs, CopyTransfers
  <2> QED BY <1>2, <2>1, CommandKeeps DEF PrintCommand
<1>3. CASE RemoveCommand(n)
  <2> DEFINE j == [command |-> "-r", name |-> n, step |-> "remove"]
  <2>1. j \in Jobs \ CopyTransfers
    BY DEF Jobs, RemoveJobs, CopyTransfers
  <2> QED BY <1>3, <2>1, CommandKeeps DEF RemoveCommand
<1>4. CASE TestCommand(n)
  <2> DEFINE j == [command |-> "-t", name |-> n, step |-> "create"]
  <2>1. j \in Jobs \ CopyTransfers
    BY DEF Jobs, TestJobs, CopyTransfers
  <2> QED BY <1>4, <2>1, CommandKeeps DEF TestCommand
<1> QED BY <1>1, <1>2, <1>3, <1>4

\* A list of writes that fit.
LEMMA WritesAre ==
  /\ \A s \in Sectors : \A h \in Headers :
       [sector |-> s, content |-> h] \in SectorWrites /\ Fits(s, h)
  /\ \A m \in FreeMaps : [sector |-> MapBlock, content |-> m] \in SectorWrites /\ Fits(MapBlock, m)
  /\ \A d \in Directories :
       /\ [sector |-> DirectoryBlock(1), content |-> FirstPart(d)] \in SectorWrites
       /\ Fits(DirectoryBlock(1), FirstPart(d))
       /\ [sector |-> DirectoryBlock(2), content |-> LastPart(d)] \in SectorWrites
       /\ Fits(DirectoryBlock(2), LastPart(d))
<1>1. {MapBlock, DirectoryBlock(1), DirectoryBlock(2)} \subseteq Sectors
  BY Layout
<1>2. \A d \in Directories : FirstPart(d) \in FirstParts /\ LastPart(d) \in LastParts
  BY DEF FirstParts, LastParts
<1> QED BY <1>1, <1>2 DEF SectorWrites, Contents, Fits

LEMMA FormatKeeps ==
  ASSUME FsInv, Format
  PROVE  FsInv' /\ InUse(Done(disk', pending')) = {}
<1> DEFINE w1 == [sector |-> FreeMapSector, content |-> MapHeader]
           w2 == [sector |-> DirectorySector, content |-> DirectoryHeader]
           w3 == [sector |-> MapBlock, content |-> FreeMap(Reserved)]
           w4 == [sector |-> DirectoryBlock(1), content |-> FirstPart(EmptyDirectory)]
           w5 == [sector |-> DirectoryBlock(2), content |-> LastPart(EmptyDirectory)]
<1>1. /\ pending = <<>> /\ disk' = disk /\ sound' = TRUE /\ output' = output
      /\ job' = [command |-> "-f", step |-> "finish"]
  BY DEF Format
<1>2. pending' = <<w1>> \o <<w2>> \o <<w3>> \o <<w4, w5>>
  BY DEF Format, WriteHeader, WriteMap, WriteDirectory
<1>3. /\ {w1, w2, w3, w4, w5} \subseteq SectorWrites
      /\ \A w \in {w1, w2, w3, w4, w5} : Fits(w.sector, w.content)
  <2>1. FreeMap(Reserved) \in FreeMaps
    BY Layout DEF FreeMap, FreeMaps
  <2>2. w1 \in SectorWrites /\ Fits(w1.sector, w1.content)
        /\ w2 \in SectorWrites /\ Fits(w2.sector, w2.content)
    BY WritesAre, Layout DEF FreeMapSector, DirectorySector
  <2>3. w3 \in SectorWrites /\ Fits(w3.sector, w3.content)
    BY WritesAre, <2>1
  <2>4. w4 \in SectorWrites /\ Fits(w4.sector, w4.content)
        /\ w5 \in SectorWrites /\ Fits(w5.sector, w5.content)
    BY WritesAre, EmptyDirectoryIs
  <2> HIDE DEF w1, w2, w3, w4, w5
  <2> QED BY <2>2, <2>3, <2>4
<1>4. /\ pending' \in Seq(SectorWrites) /\ Len(pending') = 5
      /\ pending'[1] = w1 /\ pending'[2] = w2 /\ pending'[3] = w3
      /\ pending'[4] = w4 /\ pending'[5] = w5
  <2> HIDE DEF w1, w2, w3, w4, w5
  <2>1. /\ w1 \in SectorWrites /\ w2 \in SectorWrites /\ w3 \in SectorWrites
        /\ w4 \in SectorWrites /\ w5 \in SectorWrites
    BY <1>3
  <2>2. LET s == <<w1>> \o <<w2>> \o <<w3>> \o <<w4, w5>>
        IN  /\ s \in Seq(SectorWrites) /\ Len(s) = 5
            /\ s[1] = w1 /\ s[2] = w2 /\ s[3] = w3 /\ s[4] = w4 /\ s[5] = w5
    BY <2>1
  <2> QED BY <1>2, <2>2, Zenon
<1>5. FitWrites(pending')
  <2> HIDE DEF w1, w2, w3, w4, w5
  <2>1. \A i \in 1..Len(pending') : pending'[i] \in {w1, w2, w3, w4, w5}
    <3>1. \A i \in 1..5 : i = 1 \/ i = 2 \/ i = 3 \/ i = 4 \/ i = 5
      OBVIOUS
    <3> QED BY <1>4, <3>1
  <2> QED BY <1>3, <2>1 DEF FitWrites, SectorWrites
<1>6. Typed(disk) /\ Openable(disk)
  BY <1>1, AtRest DEF FsInv, FsTypes
<1>7. /\ \A k \in 0..5 : Openable(Written(disk, pending', k))
      /\ FormattedDisk(Written(disk, pending', 5)) /\ Agrees(Written(disk, pending', 5))
      /\ InUse(Written(disk, pending', 5)) = {}
  BY <1>4, <1>6, FormatStages
<1>8. Moments(disk, pending') = {Written(disk, pending', k) : k \in 0..5}
      /\ Done(disk, pending') = Written(disk, pending', 5)
  <2>1. Len(pending') = 5
    BY <1>4
  <2> QED BY <2>1, MomentsOfWrites, Zenon
<1>9. DiskInv'
  <2>1. AlwaysSafe(disk, pending') /\ EndsWell(disk, pending')
    BY <1>7, <1>8 DEF AlwaysSafe, EndsWell
  <2> QED BY <1>1, <2>1 DEF DiskInv
<1>10. FsTypes'
  <2>1. job' \in Jobs
    BY <1>1 DEF Jobs, FormatJobs
  <2>2. output \in Seq(Bytes)
    BY DEF FsInv, FsTypes
  <2>3. Typed(disk')
    BY <1>1, <1>6
  <2> HIDE DEF w1, w2, w3, w4, w5
  <2> QED BY <1>1, <1>4, <1>5, <2>1, <2>2, <2>3 DEF FsTypes
<1>11. JobInv'
  BY <1>1 DEF JobInv, CopyTransfers
<1>12. InUse(Done(disk', pending')) = {}
  BY <1>1, <1>7, <1>8
<1> QED BY <1>9, <1>10, <1>11, <1>12 DEF FsInv

LEMMA WriteSectorKeeps ==
  ASSUME FsInv, WriteSector
  PROVE  FsInv'
<1>1. /\ Typed(disk) /\ pending \in Seq(SectorWrites) /\ FitWrites(pending)
      /\ job \in Jobs /\ sound \in BOOLEAN /\ output \in Seq(Bytes)
  BY DEF FsInv, FsTypes
<1>2. /\ pending # <<>> /\ disk' = [disk EXCEPT ![Head(pending).sector] = Head(pending).content]
      /\ pending' = Tail(pending) /\ job' = job /\ sound' = sound /\ output' = output
  BY DEF WriteSector
<1>3. /\ Typed(disk') /\ pending' \in Seq(SectorWrites) /\ FitWrites(pending')
      /\ Moments(disk', pending') \subseteq Moments(disk, pending)
      /\ Done(disk', pending') = Done(disk, pending)
  BY <1>1, <1>2, MomentsAfterWrite
<1>4. FsTypes'
  BY <1>1, <1>2, <1>3 DEF FsTypes
<1>5. DiskInv'
  <2>1. AlwaysSafe(disk, pending) => AlwaysSafe(disk', pending')
    BY <1>3 DEF AlwaysSafe
  <2>2. EndsWell(disk, pending) => EndsWell(disk', pending')
    BY <1>3 DEF EndsWell
  <2>3. OneAtStake(disk, pending) => OneAtStake(disk', pending')
    BY <1>3 DEF OneAtStake
  <2> QED BY <1>2, <2>1, <2>2, <2>3 DEF FsInv, DiskInv
<1>6. JobInv'
  BY <1>2, <1>3 DEF FsInv, JobInv
<1> QED BY <1>4, <1>5, <1>6 DEF FsInv

\* An operation that starts on a sound disk, with one file at stake.
LEMMA OperationStarts ==
  ASSUME FsInv, pending = <<>>, sound, disk' = disk, sound' = sound, output' = output,
         job' \in Jobs, job'.command # "-p",
         pending' \in Seq(SectorWrites), FitWrites(pending'),
         NEW e \in Entries, \A D \in Moments(disk, pending') : Stage(disk, D, e),
         Agrees(Done(disk, pending')),
         job' \in CopyTransfers =>
            \E i \in InUse(Done(disk, pending')) : job'.hdr = HeaderOf(Done(disk, pending'), i)
  PROVE  FsInv'
<1>1. Typed(disk) /\ output \in Seq(Bytes) /\ sound \in BOOLEAN
  BY DEF FsInv, FsTypes
<1>2. FsTypes'
  BY <1>1 DEF FsTypes
<1>3. DiskInv'
  <2>1. /\ AlwaysSafe(disk, pending') /\ OneAtStake(disk, pending')
        /\ FormattedDisk(Done(disk, pending'))
    BY <1>1, StagesSuffice
  <2> QED BY <2>1 DEF DiskInv, EndsWell
<1>4. JobInv'
  BY DEF JobInv
<1> QED BY <1>2, <1>3, <1>4 DEF FsInv

LEMMA OpenKeeps ==
  ASSUME FsInv, Open
  PROVE  FsInv'
<1> DEFINE i == FindIndex(Directory, job.name)
<1>1. /\ pending = <<>> /\ job.command \in {"-cp", "-p"} /\ job.step = "open"
      /\ disk' = disk /\ pending' = <<>> /\ sound' = sound /\ output' = output
      /\ job' = IF i = -1 THEN NoJob
                ELSE [command |-> job.command, name |-> job.name,
                      data |-> IF job.command = "-cp" THEN job.data ELSE <<>>,
                      step |-> "transfer", hdr |-> disk[Directory.sector[i]],
                      amountRead |-> 0, seekPosition |-> 0]
  BY DEF Open, At
<1>2. /\ DiskInv' /\ Typed(disk)' /\ (pending \in Seq(SectorWrites))' /\ FitWrites(pending)'
      /\ (sound \in BOOLEAN)' /\ Done(disk', pending') = disk
  BY <1>1, StaysAtRest
<1>3. /\ job \in Jobs /\ output \in Seq(Bytes)
      /\ job.command = "-cp" => sound
      /\ job.command = "-p" => FormattedDisk(disk)
  BY DEF FsInv, FsTypes, JobInv
<1>4. FormattedDisk(disk) /\ Openable(disk)
  BY <1>1, <1>3, AtRest
<1>5. CASE i = -1
  <2>1. job' = NoJob /\ NoJob \in Jobs
    BY <1>1, <1>5 DEF Jobs
  <2>2. JobInv'
    BY <2>1 DEF JobInv, NoJob, CopyTransfers
  <2> QED BY <1>1, <1>2, <1>3, <2>1, <2>2 DEF FsInv, FsTypes
<1>6. CASE i # -1
  <2>1. i \in Entries /\ Directory.inUse[i]
    BY <1>6, FindIndexFinds
  <2>2. i \in InUse(disk)
    BY <2>1, InUseAre DEF Directory
  <2>3. disk[Directory.sector[i]] = HeaderOf(disk, i) /\ HeaderOf(disk, i) \in Headers
    BY <1>4, <2>2 DEF Openable, HeaderOf, SectorOf, Directory
  <2> DEFINE h == HeaderOf(disk, i)
  <2> HIDE DEF i, h
  <2>4. CASE job.command = "-cp"
    <3>1. job \in CopyJobs
      BY <1>1, <1>3, <2>4, JobIs
    <3>2. job' = [command |-> "-cp", name |-> job.name, data |-> job.data, step |-> "transfer",
                  hdr |-> h, amountRead |-> 0, seekPosition |-> 0]
      BY <1>1, <1>6, <2>3, <2>4 DEF h
    <3>3. job' \in CopyTransfers /\ job'.hdr = h /\ job'.command = "-cp"
      BY <2>3, <3>1, <3>2 DEF CopyJobs, CopyTransfers, h
    <3>4. job' \in Jobs
      BY <3>3 DEF Jobs
    <3>5. JobInv'
      BY <1>1, <1>2, <1>3, <2>2, <2>4, <3>3 DEF JobInv, h
    <3> QED BY <1>1, <1>2, <1>3, <3>4, <3>5 DEF FsInv, FsTypes
  <2>5. CASE job.command = "-p"
    <3>1. job \in PrintJobs
      BY <1>1, <1>3, <2>5, JobIs
    <3>2. job' = [command |-> "-p", name |-> job.name, data |-> <<>>, step |-> "transfer",
                  hdr |-> h, amountRead |-> 0, seekPosition |-> 0]
      BY <1>1, <1>6, <2>3, <2>5 DEF h
    <3>3. job' \in PrintTransfers /\ job'.command = "-p"
      BY <2>3, <3>1, <3>2 DEF PrintJobs, PrintTransfers, h
    <3>4. job' \in Jobs
      BY <3>3 DEF Jobs
    <3>5. JobInv'
      BY <1>1, <1>4, <3>3 DEF JobInv, CopyTransfers
    <3> QED BY <1>1, <1>2, <1>3, <3>4, <3>5 DEF FsInv, FsTypes
  <2> QED BY <1>1, <2>4, <2>5
<1> QED BY <1>5, <1>6

LEMMA PrintChunkKeeps ==
  ASSUME FsInv, PrintChunk
  PROVE  FsInv'
<1> DEFINE chunk == ReadAt(disk, job.hdr, TransferSize, job.seekPosition)
<1>1. /\ pending = <<>> /\ job.command = "-p" /\ job.step = "transfer"
      /\ disk' = disk /\ pending' = <<>> /\ sound' = sound /\ output' = output \o chunk
      /\ job' = [job EXCEPT !.seekPosition = @ + Len(chunk)]
  BY DEF PrintChunk, At
<1>2. /\ DiskInv' /\ Typed(disk)' /\ (pending \in Seq(SectorWrites))' /\ FitWrites(pending)'
      /\ (sound \in BOOLEAN)'
  BY <1>1, StaysAtRest
<1>3. /\ job \in Jobs /\ output \in Seq(Bytes) /\ Typed(disk) /\ FormattedDisk(disk)
  BY <1>1 DEF FsInv, FsTypes, JobInv
<1>4. job \in PrintTransfers
  BY <1>1, <1>3, JobIs
<1>5. job.hdr \in Headers /\ job.seekPosition \in Nat /\ TransferSize \in Nat
  BY <1>4, FileSystemAssumption DEF PrintTransfers
<1>6. chunk \in Seq(Bytes)
  BY <1>3, <1>5, ReadAtBytes
<1> HIDE DEF chunk
<1>7. Len(chunk) \in Nat /\ output \o chunk \in Seq(Bytes)
  BY <1>3, <1>6
<1>8. job' \in PrintTransfers /\ job'.command = "-p"
  <2> DEFINE n == Len(chunk)
  <2>1. n \in Nat
    BY <1>7
  <2>2. job' = [job EXCEPT !.seekPosition = @ + n]
    BY <1>1
  <2> HIDE DEF n
  <2>3. job.seekPosition + n \in Nat
    BY <1>5, <2>1
  <2>4. job' = [job EXCEPT !.seekPosition = job.seekPosition + n]
    BY <2>2, <1>4 DEF PrintTransfers
  <2> QED BY <1>4, <2>3, <2>4 DEF PrintTransfers
<1>9. job' \in Jobs
  BY <1>8 DEF Jobs
<1>10. JobInv'
  BY <1>1, <1>3, <1>8 DEF JobInv, CopyTransfers
<1> QED BY <1>1, <1>2, <1>7, <1>9, <1>10 DEF FsInv, FsTypes

LEMMA FinishKeeps ==
  ASSUME FsInv, Finish
  PROVE  FsInv'
<1>1. /\ pending = <<>> /\ disk' = disk /\ pending' = <<>> /\ sound' = sound
      /\ output' = output /\ job' = NoJob
  BY DEF Finish, At
<1>2. /\ DiskInv' /\ Typed(disk)' /\ (pending \in Seq(SectorWrites))' /\ FitWrites(pending)'
      /\ (sound \in BOOLEAN)'
  BY <1>1, StaysAtRest
<1>3. output \in Seq(Bytes) /\ NoJob \in Jobs
  BY DEF FsInv, FsTypes, Jobs
<1>4. JobInv'
  BY <1>1 DEF JobInv, NoJob, CopyTransfers
<1> QED BY <1>1, <1>2, <1>3, <1>4 DEF FsInv, FsTypes

LEMMA CrashKeeps ==
  ASSUME FsInv, Crash
  PROVE  FsInv'
<1>1. /\ disk' = disk /\ pending' = <<>> /\ sound' = (sound /\ pending = <<>>)
      /\ output' = <<>> /\ job' = NoJob
  BY DEF Crash
<1>2. Typed(disk) /\ pending \in Seq(SectorWrites) /\ sound \in BOOLEAN /\ AlwaysSafe(disk, pending)
  BY DEF FsInv, FsTypes, DiskInv
<1>3. Openable(disk)
  BY <1>2, MomentsAre DEF AlwaysSafe
<1>4. sound' => FormattedDisk(disk) /\ Agrees(disk)
  BY <1>1, AtRest
<1>5. DiskInv'
  <2>1. /\ AlwaysSafe(disk', pending') /\ OneAtStake(disk', pending')
        /\ FormattedDisk(disk) /\ Agrees(disk) => EndsWell(disk', pending')
    BY <1>1, <1>2, <1>3, NothingToWrite
  <2> QED BY <1>4, <2>1 DEF DiskInv
<1>6. FsTypes'
  <2>1. pending' \in Seq(SectorWrites) /\ FitWrites(pending') /\ output' \in Seq(Bytes)
    BY <1>1 DEF FitWrites
  <2>2. Typed(disk') /\ job' \in Jobs /\ sound' \in BOOLEAN
    BY <1>1, <1>2 DEF Jobs
  <2> QED BY <2>1, <2>2 DEF FsTypes
<1>7. JobInv'
  BY <1>1 DEF JobInv, NoJob, CopyTransfers
<1> QED BY <1>5, <1>6, <1>7 DEF FsInv

\* What the writes of Create do: a file more in the directory.
Makes(dsk, writes, n, length) ==
  /\ writes \in Seq(SectorWrites) /\ FitWrites(writes)
  /\ \E e \in Entries : /\ \A D \in Moments(dsk, writes) : Stage(dsk, D, e)
                        /\ e \notin InUse(dsk) /\ e \in InUse(Done(dsk, writes))
                        /\ DirectoryOn(Done(dsk, writes)).name[e] = n
                        /\ HeaderOf(Done(dsk, writes), e).length = length
  /\ Agrees(Done(dsk, writes))

\* What those of Remove do: the file of entry e is no longer there.
Removes(dsk, writes, n, e) ==
  /\ writes \in Seq(SectorWrites) /\ FitWrites(writes)
  /\ e \in Entries /\ \A D \in Moments(dsk, writes) : Stage(dsk, D, e)
  /\ Agrees(Done(dsk, writes))
  /\ e \in InUse(dsk) /\ e \notin InUse(Done(dsk, writes))
  /\ DirectoryOn(dsk).name[e] = n

\* Create with success.
LEMMA CreateDoes ==
  ASSUME NEW dsk, Typed(dsk), FormattedDisk(dsk), Openable(dsk), Agrees(dsk),
         NEW n \in Names, FindIndex(DirectoryOn(dsk), n) = -1, NEW length \in Nat,
         Clear(dsk[MapBlock].used) # {}, Unused(DirectoryOn(dsk)) # {},
         NEW s, s = Find(dsk[MapBlock].used),
         CanAllocate(dsk[MapBlock].used \cup {s}, length),
         NEW h, h = Allocate(dsk[MapBlock].used \cup {s}, length),
         NEW writes, writes = CreateWrites(s, h, Add(DirectoryOn(dsk), n, s),
                                           (dsk[MapBlock].used \cup {s}) \cup Range(h.blocks))
  PROVE  Makes(dsk, writes, n, length)
<1> DEFINE used == dsk[MapBlock].used
           d == Add(DirectoryOn(dsk), n, s)
           m == FreeMap((used \cup {s}) \cup Range(h.blocks))
           w1 == [sector |-> s, content |-> h]
           w2 == [sector |-> DirectoryBlock(1), content |-> FirstPart(d)]
           w3 == [sector |-> DirectoryBlock(2), content |-> LastPart(d)]
           w4 == [sector |-> MapBlock, content |-> m]
<1>1. LaidOut(dsk) /\ DirectoryOn(dsk) \in Directories /\ used \subseteq Sectors
  <2>1. LaidOut(dsk)
    BY DEF Openable
  <2> QED BY <2>1, DirectoryOfLaidOut DEF LaidOut, FreeMaps
<1>2. s \in Sectors /\ s \notin used
  BY FindIsClear
<1>3. /\ h \in Headers /\ s \notin Range(h.blocks) /\ Range(h.blocks) \cap used = {}
      /\ Range(h.blocks) \subseteq Sectors /\ h.length = length
  <2> DEFINE taken == used \cup {s}
  <2>1. h \in Headers /\ h.length = length /\ h.blocks \in [1..BlocksFor(length) -> Clear(taken)]
    <3> HIDE DEF taken
    <3>1. CanAllocate(taken, length) /\ h = Allocate(taken, length)
      BY DEF taken
    <3>2. /\ Allocate(taken, length) \in Headers /\ Allocate(taken, length).length = length
          /\ Allocate(taken, length).blocks \in [1..BlocksFor(length) -> Clear(taken)]
      BY <3>1, AllocateIsHeader, Zenon
    <3> QED BY <3>1, <3>2, Zenon
  <2>2. Range(h.blocks) = {h.blocks[i] : i \in 1..BlocksFor(length)}
    BY <2>1, HeadersAre
  <2>3. Range(h.blocks) \subseteq Clear(taken)
    BY <2>1, <2>2
  <2> QED BY <2>1, <2>3 DEF Clear
<1>4. PICK e \in Entries :
        /\ ~ DirectoryOn(dsk).inUse[e]
        /\ d \in Directories /\ d.inUse[e] /\ d.sector[e] = s /\ d.name[e] = n
        /\ \A i \in Entries \ {e} : SameEntry(DirectoryOn(dsk), d, i)
  BY <1>1, <1>2, AddTakesEntry
<1>5. \A i \in Entries : DirectoryOn(dsk).inUse[i] => DirectoryOn(dsk).name[i] # d.name[e]
  BY <1>4, FindIndexFinds
<1>6. writes = <<w1>> \o <<w2, w3>> \o <<w4>>
  BY DEF CreateWrites, WriteHeader, WriteMap, WriteDirectory
<1> HIDE DEF d
<1>7. /\ w1 \in SectorWrites /\ Fits(w1.sector, w1.content)
      /\ w2 \in SectorWrites /\ Fits(w2.sector, w2.content)
      /\ w3 \in SectorWrites /\ Fits(w3.sector, w3.content)
      /\ w4 \in SectorWrites /\ Fits(w4.sector, w4.content)
  <2>1. m \in FreeMaps
    BY <1>1, <1>2, <1>3 DEF FreeMaps, FreeMap
  <2> HIDE DEF m
  <2> QED BY <1>2, <1>3, <1>4, <2>1, WritesAre
<1> HIDE DEF w1, w2, w3, w4
<1>8. /\ writes \in Seq(SectorWrites) /\ Len(writes) = 4
      /\ writes[1] = w1 /\ writes[2] = w2 /\ writes[3] = w3 /\ writes[4] = w4
  <2>1. LET l == <<w1>> \o <<w2, w3>> \o <<w4>>
        IN  /\ l \in Seq(SectorWrites) /\ Len(l) = 4
            /\ l[1] = w1 /\ l[2] = w2 /\ l[3] = w3 /\ l[4] = w4
    BY <1>7
  <2> QED BY <1>6, <2>1, Zenon
<1>9. FitWrites(writes)
  <2>1. \A i \in 1..4 : i = 1 \/ i = 2 \/ i = 3 \/ i = 4
    OBVIOUS
  <2>2. \A i \in 1..Len(writes) : writes[i] \in {w1, w2, w3, w4}
    BY <1>8, <2>1
  <2> QED BY <1>7, <2>2 DEF FitWrites, SectorWrites
<1>10. /\ \A k \in 0..4 : Stage(dsk, Written(dsk, writes, k), e)
       /\ Agrees(Written(dsk, writes, 4))
       /\ e \notin InUse(dsk) /\ e \in InUse(Written(dsk, writes, 4))
       /\ DirectoryOn(Written(dsk, writes, 4)) = d
       /\ HeaderOf(Written(dsk, writes, 4), e) = h
  <2>1. NewFileWrites(writes, dsk, s, h, d)
    BY <1>8 DEF NewFileWrites, w1, w2, w3, w4
  <2>2. NewFile(dsk, s, h, d, e)
    BY <1>2, <1>3, <1>4, <1>5 DEF NewFile
  <2> QED BY <2>1, <2>2, CreateStages
<1>11. Moments(dsk, writes) = {Written(dsk, writes, k) : k \in 0..4}
       /\ Done(dsk, writes) = Written(dsk, writes, 4)
  <2>1. Len(writes) = 4
    BY <1>8
  <2> QED BY <2>1, Zenon DEF Moments, Done
<1>12. \A D \in Moments(dsk, writes) : Stage(dsk, D, e)
  BY <1>10, <1>11
<1>13. /\ e \notin InUse(dsk) /\ e \in InUse(Done(dsk, writes))
       /\ DirectoryOn(Done(dsk, writes)).name[e] = n
       /\ HeaderOf(Done(dsk, writes), e).length = length
  BY <1>3, <1>4, <1>10, <1>11
<1>14. Agrees(Done(dsk, writes))
  BY <1>10, <1>11
<1> QED BY <1>8, <1>9, <1>12, <1>13, <1>14 DEF Makes

\* Remove of a file that is there.
LEMMA RemoveDoes ==
  ASSUME NEW dsk, Typed(dsk), FormattedDisk(dsk), Openable(dsk), Agrees(dsk),
         NEW n, NEW e, e = FindIndex(DirectoryOn(dsk), n), e # -1,
         NEW s, s = DirectoryOn(dsk).sector[e],
         NEW writes, writes = WriteMap(Freed(dsk[MapBlock].used, s, dsk[s]))
                              \o WriteDirectory(RemoveEntry(DirectoryOn(dsk), n))
  PROVE  Removes(dsk, writes, n, e)
<1> DEFINE used == dsk[MapBlock].used
           d == RemoveEntry(DirectoryOn(dsk), n)
           m == FreeMap(Freed(used, s, dsk[s]))
           w1 == [sector |-> MapBlock, content |-> m]
           w2 == [sector |-> DirectoryBlock(1), content |-> FirstPart(d)]
           w3 == [sector |-> DirectoryBlock(2), content |-> LastPart(d)]
<1>1. LaidOut(dsk) /\ DirectoryOn(dsk) \in Directories /\ used \subseteq Sectors
  <2>1. LaidOut(dsk)
    BY DEF Openable
  <2> QED BY <2>1, DirectoryOfLaidOut DEF LaidOut, FreeMaps
<1>2. e \in InUse(dsk) /\ e \in Entries /\ DirectoryOn(dsk).name[e] = n
  BY FindIndexFinds, InUseAre
<1>3. s = SectorOf(dsk, e) /\ dsk[s] = HeaderOf(dsk, e)
  BY DEF SectorOf, HeaderOf
<1>4. /\ d \in Directories /\ ~ d.inUse[e] /\ d.sector = DirectoryOn(dsk).sector
      /\ \A i \in Entries \ {e} : SameEntry(DirectoryOn(dsk), d, i)
  BY <1>1, RemoveClearsEntry
<1>5. writes = <<w1>> \o <<w2, w3>>
  BY DEF WriteMap, WriteDirectory
<1> HIDE DEF d
<1>6. /\ w1 \in SectorWrites /\ Fits(w1.sector, w1.content)
      /\ w2 \in SectorWrites /\ Fits(w2.sector, w2.content)
      /\ w3 \in SectorWrites /\ Fits(w3.sector, w3.content)
  <2>1. m \in FreeMaps
    BY <1>1 DEF FreeMaps, FreeMap, Freed
  <2> HIDE DEF m
  <2> QED BY <1>4, <2>1, WritesAre
<1> HIDE DEF w1, w2, w3
<1>7. /\ writes \in Seq(SectorWrites) /\ Len(writes) = 3
      /\ writes[1] = w1 /\ writes[2] = w2 /\ writes[3] = w3
  <2>1. LET l == <<w1>> \o <<w2, w3>>
        IN  /\ l \in Seq(SectorWrites) /\ Len(l) = 3
            /\ l[1] = w1 /\ l[2] = w2 /\ l[3] = w3
    BY <1>6
  <2> QED BY <1>5, <2>1, Zenon
<1>8. FitWrites(writes)
  <2>1. \A i \in 1..3 : i = 1 \/ i = 2 \/ i = 3
    OBVIOUS
  <2>2. \A i \in 1..Len(writes) : writes[i] \in {w1, w2, w3}
    BY <1>7, <2>1
  <2> QED BY <1>6, <2>2 DEF FitWrites, SectorWrites
<1>9. /\ \A k \in 0..3 : Stage(dsk, Written(dsk, writes, k), e)
      /\ Agrees(Written(dsk, writes, 3)) /\ e \notin InUse(Written(dsk, writes, 3))
  <2>1. /\ writes[1] = [sector |-> MapBlock,
                        content |-> FreeMap(Freed(dsk[MapBlock].used, SectorOf(dsk, e),
                                                  HeaderOf(dsk, e)))]
        /\ writes[2] = [sector |-> DirectoryBlock(1), content |-> FirstPart(d)]
        /\ writes[3] = [sector |-> DirectoryBlock(2), content |-> LastPart(d)]
    BY <1>3, <1>7 DEF w1, w2, w3
  <2> QED BY <1>2, <1>4, <2>1, RemoveStages
<1>10. Moments(dsk, writes) = {Written(dsk, writes, k) : k \in 0..3}
       /\ Done(dsk, writes) = Written(dsk, writes, 3)
  <2>1. Len(writes) = 3
    BY <1>7
  <2> QED BY <2>1, Zenon DEF Moments, Done
<1>11. \A D \in Moments(dsk, writes) : Stage(dsk, D, e)
  BY <1>9, <1>10
<1> QED BY <1>2, <1>7, <1>8, <1>9, <1>10, <1>11 DEF Removes

\* A transfer: the writes are in sectors of the file.
LEMMA TransferDoes ==
  ASSUME NEW dsk, Typed(dsk), FormattedDisk(dsk), Openable(dsk), Agrees(dsk),
         NEW e \in InUse(dsk), NEW writes \in Seq(SectorWrites),
         \A i \in 1..Len(writes) : /\ writes[i].sector \in Range(HeaderOf(dsk, e).blocks)
                                   /\ writes[i].content \in DataSectors
  PROVE  /\ FitWrites(writes)
         /\ \A D \in Moments(dsk, writes) : Stage(dsk, D, e)
         /\ Agrees(Done(dsk, writes))
         /\ e \in InUse(Done(dsk, writes)) /\ HeaderOf(Done(dsk, writes), e) = HeaderOf(dsk, e)
         /\ DirectoryOn(Done(dsk, writes)) = DirectoryOn(dsk)
<1> DEFINE h == HeaderOf(dsk, e)
<1>1. h \in Headers
  BY DEF Openable
<1>2. FitWrites(writes)
  BY <1>1, HeadersAre DEF FitWrites, Fits
<1>3. ASSUME NEW D \in Moments(dsk, writes)
      PROVE  /\ Stage(dsk, D, e) /\ Agrees(D) /\ e \in InUse(D) /\ HeaderOf(D, e) = h
             /\ DirectoryOn(D) = DirectoryOn(dsk)
  <2>1. PICK k \in 0..Len(writes) : D = Written(dsk, writes, k)
    BY DEF Moments
  <2>2. k \in Nat /\ \A i \in 1..k : i \in 1..Len(writes)
    OBVIOUS
  <2>3. \A i \in 1..k : writes[i].sector \in Range(h.blocks)
    BY <2>2
  <2>4. ASSUME NEW b \in Sectors \ Range(h.blocks)
        PROVE  D[b] = dsk[b]
    <3>1. \A i \in 1..k : writes[i].sector # b
      BY <2>3
    <3>2. Written(dsk, writes, k)[b] = dsk[b]
      BY <2>2, <3>1, WrittenSector
    <3> QED BY <2>1, <3>2
  <2> QED BY <2>4, TransferStage
<1>4. Done(dsk, writes) \in Moments(dsk, writes)
  BY MomentsAre
<1> QED BY <1>2, <1>3, <1>4

LEMMA FilesAreBytes ==
  ASSUME NEW u \in UnixFiles
  PROVE  u \in Seq(Bytes) /\ Len(u) \in Nat
<1>1. u \in Seq(Range(u))
  BY FileSystemAssumption
<1>2. Range(u) \subseteq Bytes
  BY DEF Bytes
<1>3. u \in Seq(Bytes)
  BY <1>1, <1>2, SeqMonotonic
<1> QED BY <1>3

\* FileSystem::Create succeeds.
CanMake(dsk, n, length) ==
  LET used == dsk[MapBlock].used
  IN  /\ FindIndex(DirectoryOn(dsk), n) = -1
      /\ Clear(used) # {}
      /\ Unused(DirectoryOn(dsk)) # {}
      /\ CanAllocate(used \cup {Find(used)}, length)

NewLength == IF job.command = "-cp" THEN Len(job.data) ELSE 0

LEMMA CreateCases ==
  ASSUME FsInv, Create
  PROVE  /\ pending = <<>> /\ job.command \in {"-cp", "-t"} /\ job.step = "create" /\ sound
         /\ disk' = disk /\ sound' = sound /\ output' = output
         /\ Typed(disk) /\ FormattedDisk(disk) /\ Openable(disk) /\ Agrees(disk)
         /\ job.name \in Names /\ NewLength \in Nat
         /\ CanMake(disk, job.name, NewLength) =>
              /\ Makes(disk, pending', job.name, NewLength)
              /\ job.command = "-cp" => job' = [job EXCEPT !.step = "open"]
         /\ ~ CanMake(disk, job.name, NewLength) =>
              pending' = <<>> /\ (job.command = "-cp" => job' = NoJob)
         /\ job.command = "-t" => job' = [job EXCEPT !.step = "remove"]
         /\ outcome' = IF job.command = "-t" \/ CanMake(disk, job.name, NewLength)
                       THEN outcome ELSE "failed"
<1> DEFINE s == Find(disk[MapBlock].used)
           used == disk[MapBlock].used \cup {s}
           h == Allocate(used, NewLength)
           success == CanMake(disk, job.name, NewLength)
<1>1. /\ pending = <<>> /\ job.command \in {"-cp", "-t"} /\ job.step = "create"
      /\ disk' = disk /\ sound' = sound /\ output' = output
      /\ pending' = IF success
                    THEN CreateWrites(s, h, Add(DirectoryOn(disk), job.name, s),
                                      used \cup Range(h.blocks))
                    ELSE <<>>
      /\ job' = IF job.command = "-t" THEN [job EXCEPT !.step = "remove"]
                ELSE IF success THEN [job EXCEPT !.step = "open"] ELSE NoJob
      /\ outcome' = IF job.command = "-t" \/ success THEN outcome ELSE "failed"
  BY DEF Create, At, Used, Directory, CanMake, NewLength
<1> HIDE DEF s, used, h, success
<1>2. /\ Typed(disk) /\ job \in Jobs /\ sound
  BY <1>1 DEF FsInv, FsTypes, JobInv
<1>3. FormattedDisk(disk) /\ Openable(disk) /\ Agrees(disk)
  BY <1>1, <1>2, AtRest
<1>4. job.name \in Names /\ NewLength \in Nat
  <2>1. CASE job.command = "-cp"
    <3>1. job \in CopyJobs
      BY <1>1, <1>2, <2>1, JobIs
    <3>2. job.name \in Names /\ job.data \in UnixFiles
      BY <3>1 DEF CopyJobs
    <3> QED BY <2>1, <3>2, FilesAreBytes DEF NewLength
  <2>2. CASE job.command = "-t"
    <3>1. job \in TestJobs
      BY <1>2, <2>2, JobIs
    <3> QED BY <2>2, <3>1 DEF TestJobs, NewLength
  <2> QED BY <1>1, <2>1, <2>2
<1>5. ASSUME success
      PROVE  Makes(disk, pending', job.name, NewLength)
  <2>1. pending' = CreateWrites(s, h, Add(DirectoryOn(disk), job.name, s),
                                (disk[MapBlock].used \cup {s}) \cup Range(h.blocks))
    BY <1>1, <1>5 DEF used
  <2>2. /\ FindIndex(DirectoryOn(disk), job.name) = -1 /\ Clear(disk[MapBlock].used) # {}
        /\ Unused(DirectoryOn(disk)) # {} /\ CanAllocate(disk[MapBlock].used \cup {s}, NewLength)
        /\ s = Find(disk[MapBlock].used)
        /\ h = Allocate(disk[MapBlock].used \cup {s}, NewLength)
    BY <1>5 DEF success, CanMake, s, h, used
  <2> QED BY <1>2, <1>3, <1>4, <2>1, <2>2, CreateDoes
<1> QED BY <1>1, <1>2, <1>3, <1>4, <1>5 DEF success

LEMMA CreateKeeps ==
  ASSUME FsInv, Create
  PROVE  FsInv'
<1> DEFINE success == CanMake(disk, job.name, NewLength)
<1>1. /\ pending = <<>> /\ job.command \in {"-cp", "-t"} /\ job.step = "create" /\ sound
      /\ disk' = disk /\ sound' = sound /\ output' = output
      /\ success => /\ Makes(disk, pending', job.name, NewLength)
                    /\ job.command = "-cp" => job' = [job EXCEPT !.step = "open"]
      /\ ~ success => pending' = <<>> /\ (job.command = "-cp" => job' = NoJob)
      /\ job.command = "-t" => job' = [job EXCEPT !.step = "remove"]
  BY CreateCases
<1> HIDE DEF success
<1>2. job \in Jobs /\ output \in Seq(Bytes)
  BY DEF FsInv, FsTypes
<1>3. job' \in Jobs /\ job'.command # "-p" /\ job' \notin CopyTransfers
      /\ job'.command \in {"none", "-cp", "-t"}
  <2>1. CASE job.command = "-t"
    <3>1. job \in TestJobs
      BY <1>2, <2>1, JobIs
    <3>2. job' = [job EXCEPT !.step = "remove"]
      BY <1>1, <2>1
    <3>3. job' \in TestJobs
      BY <3>1, <3>2 DEF TestJobs
    <3> QED BY <3>3 DEF TestJobs, CopyTransfers, Jobs
  <2>2. CASE job.command = "-cp" /\ success
    <3>1. job \in CopyJobs
      BY <1>1, <1>2, <2>2, JobIs
    <3>2. job' = [job EXCEPT !.step = "open"]
      BY <1>1, <2>2
    <3>3. job' \in CopyJobs
      BY <3>1, <3>2 DEF CopyJobs
    <3> QED BY <3>3 DEF CopyJobs, CopyTransfers, Jobs
  <2>3. CASE job.command = "-cp" /\ ~ success
    <3>1. job' = NoJob
      BY <1>1, <2>3
    <3> QED BY <3>1 DEF NoJob, CopyTransfers, Jobs
  <2> QED BY <1>1, <2>1, <2>2, <2>3
<1>4. CASE ~ success
  <2>1. pending' = <<>>
    BY <1>1, <1>4
  <2>2. /\ DiskInv' /\ Typed(disk)' /\ (pending \in Seq(SectorWrites))' /\ FitWrites(pending)'
        /\ (sound \in BOOLEAN)'
    BY <1>1, <2>1, StaysAtRest
  <2>3. JobInv'
    BY <1>1, <1>3 DEF JobInv
  <2> QED BY <1>1, <1>2, <1>3, <2>2, <2>3 DEF FsInv, FsTypes
<1>5. CASE success
  <2>1. /\ pending' \in Seq(SectorWrites) /\ FitWrites(pending')
        /\ \E e \in Entries : \A D \in Moments(disk, pending') : Stage(disk, D, e)
        /\ Agrees(Done(disk, pending'))
    BY <1>1, <1>5 DEF Makes
  <2> QED BY <1>1, <1>3, <2>1, OperationStarts
<1> QED BY <1>4, <1>5

LEMMA RemoveCases ==
  ASSUME FsInv, Remove
  PROVE  /\ pending = <<>> /\ job.command \in {"-r", "-t"} /\ job.step = "remove" /\ sound
         /\ disk' = disk /\ sound' = sound /\ output' = output /\ job' = NoJob
         /\ Typed(disk) /\ FormattedDisk(disk) /\ Openable(disk) /\ Agrees(disk)
         /\ LET i == FindIndex(DirectoryOn(disk), job.name)
            IN  /\ i = -1 => pending' = <<>> /\ outcome' = "failed"
                /\ i # -1 => Removes(disk, pending', job.name, i) /\ outcome' = "done"
<1> DEFINE i == FindIndex(DirectoryOn(disk), job.name)
           s == DirectoryOn(disk).sector[i]
<1>1. /\ pending = <<>> /\ job.command \in {"-r", "-t"} /\ job.step = "remove"
      /\ disk' = disk /\ sound' = sound /\ output' = output /\ job' = NoJob
      /\ pending' = IF i = -1 THEN <<>>
                    ELSE WriteMap(Freed(disk[MapBlock].used, s, disk[s]))
                         \o WriteDirectory(RemoveEntry(DirectoryOn(disk), job.name))
      /\ outcome' = IF i = -1 THEN "failed" ELSE "done"
  BY DEF Remove, At, Used, Directory
<1> HIDE DEF i, s
<1>2. Typed(disk) /\ sound
  BY <1>1 DEF FsInv, FsTypes, JobInv
<1>3. FormattedDisk(disk) /\ Openable(disk) /\ Agrees(disk)
  BY <1>1, <1>2, AtRest
<1>4. ASSUME i # -1
      PROVE  Removes(disk, pending', job.name, i)
  <2>1. pending' = WriteMap(Freed(disk[MapBlock].used, s, disk[s]))
                   \o WriteDirectory(RemoveEntry(DirectoryOn(disk), job.name))
    BY <1>1, <1>4
  <2>2. i = FindIndex(DirectoryOn(disk), job.name) /\ s = DirectoryOn(disk).sector[i]
    BY DEF i, s
  <2> QED BY <1>2, <1>3, <1>4, <2>1, <2>2, RemoveDoes
<1> QED BY <1>1, <1>2, <1>3, <1>4 DEF i

LEMMA RemoveKeeps ==
  ASSUME FsInv, Remove
  PROVE  FsInv'
<1> DEFINE i == FindIndex(DirectoryOn(disk), job.name)
<1>1. /\ pending = <<>> /\ sound
      /\ disk' = disk /\ sound' = sound /\ output' = output /\ job' = NoJob
      /\ i = -1 => pending' = <<>>
      /\ i # -1 => Removes(disk, pending', job.name, i)
  BY RemoveCases
<1> HIDE DEF i
<1>2. output \in Seq(Bytes)
  BY DEF FsInv, FsTypes
<1>3. job' \in Jobs /\ job'.command # "-p" /\ job' \notin CopyTransfers
      /\ job'.command = "none"
  BY <1>1 DEF NoJob, CopyTransfers, Jobs
<1>4. CASE i = -1
  <2>1. pending' = <<>>
    BY <1>1, <1>4
  <2>2. /\ DiskInv' /\ Typed(disk)' /\ (pending \in Seq(SectorWrites))' /\ FitWrites(pending)'
        /\ (sound \in BOOLEAN)'
    BY <1>1, <2>1, StaysAtRest
  <2>3. JobInv'
    BY <1>3 DEF JobInv
  <2> QED BY <1>1, <1>2, <1>3, <2>2, <2>3 DEF FsInv, FsTypes
<1>5. CASE i # -1
  <2>1. /\ pending' \in Seq(SectorWrites) /\ FitWrites(pending')
        /\ i \in Entries /\ \A D \in Moments(disk, pending') : Stage(disk, D, i)
        /\ Agrees(Done(disk, pending'))
    BY <1>1, <1>5 DEF Removes
  <2> QED BY <1>1, <1>3, <2>1, OperationStarts
<1> QED BY <1>4, <1>5

LEMMA CopyChunkKeeps ==
  ASSUME FsInv, CopyChunk
  PROVE  FsInv'
<1> DEFINE last == Min({job.amountRead + TransferSize, Len(job.data)})
           chunk == SubSeq(job.data, job.amountRead + 1, last)
           n == Len(Clamp(job.hdr, chunk, job.seekPosition))
<1>1. /\ pending = <<>> /\ job.command = "-cp" /\ job.step = "transfer"
      /\ disk' = disk /\ sound' = sound /\ output' = output
      /\ job.amountRead < Len(job.data)
      /\ pending' = WriteAt(disk, job.hdr, chunk, job.seekPosition)
      /\ job' = [job EXCEPT !.amountRead = last, !.seekPosition = @ + n]
  BY DEF CopyChunk, At
<1>2. /\ Typed(disk) /\ job \in Jobs /\ output \in Seq(Bytes) /\ sound
  BY <1>1 DEF FsInv, FsTypes, JobInv
<1>3. FormattedDisk(disk) /\ Openable(disk) /\ Agrees(disk) /\ Done(disk, pending) = disk
  BY <1>1, <1>2, AtRest
<1>4. job \in CopyTransfers
  BY <1>1, <1>2, JobIs
<1>5. /\ job.hdr \in Headers /\ job.seekPosition \in Nat /\ job.amountRead \in Nat
      /\ job.data \in UnixFiles /\ TransferSize \in Nat /\ TransferSize > 0
  BY <1>4, FileSystemAssumption DEF CopyTransfers
<1>6. PICK e \in InUse(disk) : job.hdr = HeaderOf(disk, e)
  BY <1>3, <1>4 DEF FsInv, JobInv
<1>7. job.data \in Seq(Bytes) /\ Len(job.data) \in Nat
  BY <1>5, FilesAreBytes
<1>8. last \in Nat /\ chunk \in Seq(Bytes)
  <2> DEFINE S == {job.amountRead + TransferSize, Len(job.data)}
             m == Min(S)
  <2>1. S \in SUBSET Nat /\ S # {}
    BY <1>5, <1>7
  <2>2. m \in S /\ m <= Len(job.data)
    BY <2>1, MinIsFirst
  <2>3. m \in Nat
    BY <2>1, <2>2
  <2> HIDE DEF m, S
  <2>4. SubSeq(job.data, job.amountRead + 1, m) \in Seq(Bytes)
    BY <1>5, <1>7, <2>2, <2>3
  <2> QED BY <2>3, <2>4 DEF m, S
<1> HIDE DEF last, chunk
<1>9. /\ pending' \in Seq(SectorWrites)
      /\ \A i \in 1..Len(pending') : /\ pending'[i].sector \in Range(job.hdr.blocks)
                                     /\ pending'[i].content \in DataSectors
      /\ n \in Nat
  <2> HIDE DEF n
  <2>1. /\ WriteAt(disk, job.hdr, chunk, job.seekPosition) \in Seq(SectorWrites)
        /\ \A i \in 1..Len(WriteAt(disk, job.hdr, chunk, job.seekPosition)) :
             /\ WriteAt(disk, job.hdr, chunk, job.seekPosition)[i].sector \in Range(job.hdr.blocks)
             /\ WriteAt(disk, job.hdr, chunk, job.seekPosition)[i].content \in DataSectors
        /\ Len(Clamp(job.hdr, chunk, job.seekPosition)) \in Nat
    BY <1>2, <1>5, <1>8, WriteAtBlocks
  <2> QED BY <1>1, <2>1 DEF n
<1>10. /\ FitWrites(pending')
       /\ \A D \in Moments(disk, pending') : Stage(disk, D, e)
       /\ Agrees(Done(disk, pending'))
       /\ e \in InUse(Done(disk, pending'))
       /\ HeaderOf(Done(disk, pending'), e) = HeaderOf(disk, e)
  <2>1. \A i \in 1..Len(pending') : /\ pending'[i].sector \in Range(HeaderOf(disk, e).blocks)
                                    /\ pending'[i].content \in DataSectors
    BY <1>6, <1>9
  <2> QED BY <1>2, <1>3, <1>9, <2>1, TransferDoes
<1>11. /\ job' \in CopyTransfers /\ job'.command = "-cp" /\ job'.hdr = job.hdr
  <2>1. job' = [job EXCEPT !.amountRead = last, !.seekPosition = job.seekPosition + n]
    <3> HIDE DEF n
    <3> QED BY <1>1, <1>4 DEF CopyTransfers
  <2>2. job.seekPosition + n \in Nat
    BY <1>5, <1>9
  <2> HIDE DEF n
  <2> QED BY <1>4, <1>8, <2>1, <2>2 DEF CopyTransfers
<1>12. job' \in Jobs /\ job'.command # "-p" /\ e \in Entries
       /\ \E i \in InUse(Done(disk, pending')) : job'.hdr = HeaderOf(Done(disk, pending'), i)
  BY <1>6, <1>10, <1>11, InUseAre DEF Jobs
<1> HIDE DEF n
<1> QED BY <1>1, <1>2, <1>9, <1>10, <1>12, OperationStarts

LEMMA NextFs ==
  ASSUME FsInv, [Next]_vars
  PROVE  FsInv'
<1>1. CASE Format
  BY <1>1, FormatKeeps
<1>2. ASSUME NEW n \in Names,
             \/ \E u \in UnixFiles : CopyCommand(n, u)
             \/ PrintCommand(n) \/ RemoveCommand(n) \/ TestCommand(n)
      PROVE  FsInv'
  BY <1>2, CommandsKeep
<1>3. CASE WriteSector
  BY <1>3, WriteSectorKeeps
<1>4. CASE Create
  BY <1>4, CreateKeeps
<1>5. CASE Open
  BY <1>5, OpenKeeps
<1>6. CASE CopyChunk
  BY <1>6, CopyChunkKeeps
<1>7. CASE PrintChunk
  BY <1>7, PrintChunkKeeps
<1>8. CASE Finish
  BY <1>8, FinishKeeps
<1>9. CASE Remove
  BY <1>9, RemoveKeeps
<1>10. CASE Crash
  BY <1>10, CrashKeeps
<1>11. CASE UNCHANGED vars
  BY <1>11 DEF vars, FsInv, FsTypes, DiskInv, JobInv
<1> QED
  BY <1>1, <1>2, <1>3, <1>4, <1>5, <1>6, <1>7, <1>8, <1>9, <1>10, <1>11 DEF Next

\* The inductive invariant is one.
LEMMA FsInvariant == Spec => []FsInv
<1>1. Init => FsInv
  BY InitFs
<1>2. FsInv /\ [Next]_vars => FsInv'
  BY NextFs
<1> QED BY <1>1, <1>2, PTL DEF Spec

-----------------------------------------------------------------------------
(* What it says.                                                           *)

LEMMA SettledIsDone ==
  ASSUME pending \in Seq(SectorWrites)
  PROVE  Settled = Done(disk, pending)
<1>1. DOMAIN pending = 1..Len(pending)
  OBVIOUS
<1>2. Settled = [s \in Sectors |->
                   LET W == {i \in 1..Len(pending) : pending[i].sector = s}
                   IN  IF W = {} THEN disk[s] ELSE pending[Max(W)].content]
  BY <1>1, Zenon DEF Settled
<1> QED BY <1>2, Zenon DEF Done, Written

\* How the last command ended.
OutcomeTyped == outcome \in {"none", "done", "failed", "killed"}

LEMMA OutcomesAre == Spec => []OutcomeTyped
<1>1. Init => OutcomeTyped
  BY DEF Init, OutcomeTyped
<1>2. OutcomeTyped /\ [Next]_vars => OutcomeTyped'
  <2> SUFFICES ASSUME OutcomeTyped, [Next]_vars
               PROVE  OutcomeTyped'
    OBVIOUS
  <2>1. CASE Format
    BY <2>1 DEF Format, OutcomeTyped
  <2>2. ASSUME NEW j, Command(j)
        PROVE  OutcomeTyped'
    BY <2>2 DEF Command, OutcomeTyped
  <2>3. CASE \E n \in Names : \/ \E u \in UnixFiles : CopyCommand(n, u)
                              \/ PrintCommand(n) \/ RemoveCommand(n) \/ TestCommand(n)
    BY <2>2, <2>3, Zenon DEF CopyCommand, PrintCommand, RemoveCommand, TestCommand
  <2>4. CASE WriteSector \/ CopyChunk \/ PrintChunk \/ UNCHANGED vars
    BY <2>4 DEF WriteSector, CopyChunk, PrintChunk, vars, OutcomeTyped
  <2>5. CASE Create \/ Open \/ Remove
    BY <2>5 DEF Create, Open, Remove, OutcomeTyped
  <2>6. CASE Finish \/ Crash
    BY <2>6 DEF Finish, Crash, OutcomeTyped
  <2> QED BY <2>1, <2>3, <2>4, <2>5, <2>6 DEF Next
<1> QED BY <1>1, <1>2, PTL DEF Spec

LEMMA TypesOfFs ==
  ASSUME FsInv, OutcomeTyped
  PROVE  TypeOK
<1>1. /\ Typed(disk) /\ pending \in Seq(SectorWrites)
      /\ job \in Jobs /\ sound \in BOOLEAN /\ output \in Seq(Bytes)
  BY DEF FsInv, FsTypes
<1>2. ASSUME NEW s \in Sectors
      PROVE  CASE disk[s].kind = "garbage"   -> disk[s] = Garbage
               [] disk[s].kind = "header"    -> /\ Range(disk[s].blocks) \subseteq Sectors
                                                /\ Len(disk[s].blocks) = BlocksFor(disk[s].length)
               [] disk[s].kind = "map"       -> s = MapBlock /\ disk[s].used \subseteq Sectors
               [] disk[s].kind = "directory" -> s \in Range(DirectoryHeader.blocks)
               [] disk[s].kind = "data"      -> DOMAIN disk[s].bytes = 0 .. SectorSize - 1
  <2> DEFINE c == disk[s]
  <2>1. Fits(s, c)
    BY <1>1 DEF Typed
  <2> HIDE DEF c
  <2>2. c.kind = "garbage" => c = Garbage
    BY <2>1, KindOfContent
  <2>3. c.kind = "header" => Range(c.blocks) \subseteq Sectors /\ Len(c.blocks) = BlocksFor(c.length)
    <3> SUFFICES ASSUME c.kind = "header"
                 PROVE  Range(c.blocks) \subseteq Sectors /\ Len(c.blocks) = BlocksFor(c.length)
      OBVIOUS
    <3>1. c \in Headers
      BY <2>1, KindOfContent
    <3>2. /\ c.blocks \in [1..BlocksFor(c.length) -> Sectors] /\ BlocksFor(c.length) \in Nat
          /\ Range(c.blocks) \subseteq Sectors
      BY <3>1, HeadersAre, BlocksForLength
    <3> QED BY <3>2
  <2>4. c.kind = "map" => s = MapBlock /\ c.used \subseteq Sectors
    BY <2>1, KindOfContent DEF FreeMaps
  <2>5. c.kind = "directory" => s \in Range(DirectoryHeader.blocks)
    BY <2>1, KindOfContent, Layout
  <2>6. c.kind = "data" => DOMAIN c.bytes = 0 .. SectorSize - 1
    BY <2>1, KindOfContent DEF DataSectors
  <2>7. c.kind \in {"header", "data", "map", "directory", "garbage"}
    BY <2>1, KindOfContent
  <2> QED BY <2>2, <2>3, <2>4, <2>5, <2>6, <2>7 DEF c
<1>3. \A i \in DOMAIN pending : pending[i].sector \in Sectors
  <2>1. \A i \in DOMAIN pending : pending[i] \in SectorWrites
    BY <1>1
  <2> QED BY <2>1 DEF SectorWrites
<1>4. job.command \in {"none", "-f", "-cp", "-p", "-r", "-t"}
  BY <1>1, JobIs
<1>5. Range(output) \subseteq {Junk} \cup UNION {Range(u) : u \in UnixFiles}
  <2>1. Range(output) \subseteq Bytes
    BY <1>1 DEF Range
  <2> QED BY <2>1 DEF Bytes
<1> QED BY <1>1, <1>2, <1>3, <1>4, <1>5 DEF TypeOK, OutcomeTyped

\* At every moment the sectors contain what their kinds say, and if the disk is
\* formatted each name in the directory leads to a header, away from the map and
\* the directory, and no sector belongs to two files: whatever write is the last
\* before Nachos is killed, Open (filesys.cc) finds on the disk what it expects.
\* After a kill inside an operation that is so until a command changes the disk.
THEOREM EveryMomentIsOpenable == Spec => []AlwaysOpenable
<1>1. FsInv /\ OutcomeTyped => AlwaysOpenable
  <2> SUFFICES ASSUME FsInv, OutcomeTyped PROVE AlwaysOpenable
    OBVIOUS
  <2>1. Openable(disk)
    BY MomentsAre DEF FsInv, FsTypes, DiskInv, AlwaysSafe
  <2>2. ASSUME Formatted, NEW i \in InUse(disk)
        PROVE  /\ disk[Directory.sector[i]].kind = "header"
               /\ SectorsOf(disk, i) \cap Reserved = {}
               /\ \A j \in InUse(disk) \ {i} : SectorsOf(disk, i) \cap SectorsOf(disk, j) = {}
    <3>1. FormattedDisk(disk)
      BY <2>2 DEF Formatted, FormattedDisk
    <3>2. disk[Directory.sector[i]] = HeaderOf(disk, i)
      BY DEF Directory, HeaderOf, SectorOf
    <3>3. HeaderOf(disk, i) \in Headers
      BY <2>1, <2>2, <3>1 DEF Openable
    <3>4. disk[Directory.sector[i]].kind = "header"
      BY <3>2, <3>3, HeadersAre
    <3> QED BY <2>1, <2>2, <3>1, <3>4 DEF Openable
  <2>3. TypeOK
    BY TypesOfFs
  <2> QED BY <2>2, <2>3 DEF AlwaysOpenable
<1> QED BY <1>1, FsInvariant, OutcomesAre, PTL

\* After any sequence of commands that no crash interrupted in the middle of an
\* operation, the free map marks exactly the sectors of the files in the directory
\* and those of the map and the directory: Create, Remove and the transfers
\* (filesys.cc, filehdr.cc) leak no sector and give none to two files; and no two
\* entries have the same name.
THEOREM TheMapAgrees == Spec => []MapAgreesWithDirectory
<1>1. FsInv => MapAgreesWithDirectory
  <2> SUFFICES ASSUME FsInv, sound
               PROVE  Agrees(Settled)
    BY DEF MapAgreesWithDirectory, Agrees
  <2>1. Agrees(Done(disk, pending))
    BY DEF FsInv, DiskInv, EndsWell
  <2>2. Settled = Done(disk, pending)
    BY SettledIsDone DEF FsInv, FsTypes
  <2> QED BY <2>1, <2>2
<1> QED BY <1>1, FsInvariant, PTL

\* Whenever Nachos is killed inside a command other than -f, at most one entry of
\* the directory has not the file that it had before or will have when the command
\* ends: the writes of one operation never touch the files of other names.
THEOREM OneFileIsAtStake == Spec => []OneFileAtStake
<1>1. FsInv => OneFileAtStake
  <2> SUFFICES ASSUME FsInv, sound, job.command # "-f"
               PROVE  Cardinality({i \in Entries : FileAt(disk, i) # FileAt(Settled, i)}) <= 1
    BY DEF OneFileAtStake
  <2>1. /\ Settled = Done(disk, pending) /\ disk \in Moments(disk, pending)
        /\ OneAtStake(disk, pending)
    BY SettledIsDone, MomentsAre DEF FsInv, FsTypes, DiskInv
  <2>2. PICK e \in Entries : \A i \in Entries \ {e} : FileAt(disk, i) = FileAt(Settled, i)
    BY <2>1 DEF OneAtStake
  <2> DEFINE S == {i \in Entries : FileAt(disk, i) # FileAt(Settled, i)}
  <2>3. S \in SUBSET {e}
    BY <2>2
  <2> HIDE DEF S
  <2>4. IsFiniteSet({e}) /\ Cardinality({e}) = 1
    BY FS_Singleton
  <2>5. Cardinality(S) <= Cardinality({e})
    BY <2>3, <2>4, FS_Subset
  <2> QED BY <2>4, <2>5 DEF S
<1> QED BY <1>1, FsInvariant, PTL

-----------------------------------------------------------------------------
(* What a transfer does to the contents of its file.                       *)

\* The number of a byte, from those of its sector and of its place there.
LEMMA ByteNumber ==
  ASSUME NEW k \in Nat
  PROVE  /\ k \div SectorSize \in Nat /\ k % SectorSize \in 0 .. SectorSize - 1
         /\ (k \div SectorSize) * SectorSize + (k % SectorSize) = k
<1>1. SectorSize \in Nat /\ SectorSize > 0
  BY FileSystemAssumption
<1> QED BY <1>1, Z3

LEMMA SectorsInOrder ==
  ASSUME NEW k \in Nat, NEW n \in Nat, k <= n
  PROVE  k \div SectorSize <= n \div SectorSize
<1>1. SectorSize \in Nat /\ SectorSize > 0
  BY FileSystemAssumption
<1> QED BY <1>1, Z3

\* A whole file, read.
LEMMA ReadAll ==
  ASSUME NEW dsk, Typed(dsk), NEW h \in Headers
  PROVE  /\ ReadAt(dsk, h, h.length, 0) \in Seq(Bytes)
         /\ Len(ReadAt(dsk, h, h.length, 0)) = h.length
         /\ DOMAIN ReadAt(dsk, h, h.length, 0) = 1..h.length
         /\ \A k \in 1..h.length : ReadAt(dsk, h, h.length, 0)[k] = ByteAt(dsk, h, k - 1)
<1> DEFINE r == ReadAt(dsk, h, h.length, 0)
<1>1. h.length \in Nat
  BY HeadersAre
<1>2. r \in Seq(Bytes)
  BY <1>1, ReadAtBytes
<1>3. CASE h.length = 0
  <2>1. r = <<>>
    BY <1>3 DEF ReadAt
  <2> HIDE DEF r
  <2> QED BY <1>2, <1>3, <2>1 DEF r
<1>4. CASE h.length # 0
  <2>1. r = [k \in 1..h.length |-> ByteAt(dsk, h, 0 + k - 1)]
    BY <1>1, <1>4 DEF ReadAt
  <2>2. \A k \in 1..h.length : 0 + k - 1 = k - 1
    BY <1>1
  <2> HIDE DEF r
  <2>3. DOMAIN r = 1..h.length /\ \A k \in 1..h.length : r[k] = ByteAt(dsk, h, k - 1)
    BY <2>1, <2>2
  <2>4. Len(r) = h.length
    BY <1>1, <1>2, <2>3
  <2> QED BY <1>2, <2>3, <2>4 DEF r
<1> QED BY <1>1, <1>3, <1>4

\* The bytes of a file before and after a write.
Overwrites(dsk, D, h, from, position) ==
  \A k \in Nat : k < h.length =>
    ByteAt(D, h, k) = IF k \in position .. position + Len(from) - 1
                      THEN from[k - position + 1] ELSE ByteAt(dsk, h, k)

\* OpenFile::WriteAt changes the bytes it is told to, if the file has them, and
\* no others.
LEMMA WriteAtWrites ==
  ASSUME NEW dsk, Typed(dsk), NEW h \in Headers, NEW from \in Seq(Bytes), from # <<>>,
         NEW position \in Nat, position + Len(from) <= h.length,
         NEW D, D = Done(dsk, WriteAt(dsk, h, from, position))
  PROVE  Clamp(h, from, position) = from /\ Overwrites(dsk, D, h, from, position)
<1> DEFINE first == position \div SectorSize
           last == (position + Len(from) - 1) \div SectorSize
           n == last - first + 1
           w == WriteAt(dsk, h, from, position)
           end == position + Len(from) - 1
<1>1. /\ h.length \in Nat /\ SectorSize \in Nat /\ SectorSize > 0
      /\ Len(from) \in Nat /\ Len(from) >= 1 /\ end \in Nat
  BY HeadersAre, FileSystemAssumption
<1>2. Clamp(h, from, position) = from
  <2> DEFINE S == {Len(from), h.length - position}
  <2>1. S \in SUBSET Nat /\ S # {} /\ h.length - position >= Len(from) /\ position < h.length
    BY <1>1
  <2>2. Min(S) \in S /\ Min(S) <= Len(from)
    BY <2>1, MinIsFirst
  <2>3. Min(S) = Len(from)
    BY <1>1, <2>1, <2>2
  <2>4. Clamp(h, from, position) = SubSeq(from, 1, Min(S))
    <3>1. ~ (from = <<>> \/ position >= h.length)
      BY <1>1, <2>1
    <3> QED BY <3>1, Zenon DEF Clamp
  <2> HIDE DEF S
  <2>5. SubSeq(from, 1, Len(from)) = from
    OBVIOUS
  <2> QED BY <2>3, <2>4, <2>5, Zenon
<1>3. first \in Nat /\ last \in Nat /\ first <= last /\ n \in Nat
  <2>1. first \in Nat /\ last \in Nat
    BY <1>1, ByteNumber
  <2>2. first <= last
    BY <1>1, SectorsInOrder
  <2> HIDE DEF first, last
  <2> QED BY <2>1, <2>2
<1>4. w = [i \in 1..n |-> [sector |-> h.blocks[first + i],
                           content |-> NewSector(dsk, h, first + i - 1, from, position)]]
  BY <1>2 DEF WriteAt
<1>5. w \in Seq(SectorWrites)
  BY WriteAtBlocks
<1> HIDE DEF w, first, last
<1>6. Len(w) = n
  <2>1. DOMAIN w = 1..n
    BY <1>4
  <2> QED BY <1>3, <1>5, <2>1
<1>7. D = Written(dsk, w, n)
  BY <1>6, Zenon DEF Done, w
<1>8. ASSUME NEW k \in Nat, k < h.length
      PROVE  ByteAt(D, h, k) = IF k \in position .. end
                               THEN from[k - position + 1] ELSE ByteAt(dsk, h, k)
  <2> DEFINE q == k \div SectorSize
             b == h.blocks[q + 1]
  <2>1. q \in Nat /\ q * SectorSize + (k % SectorSize) = k /\ k % SectorSize \in 0 .. SectorSize - 1
    BY ByteNumber
  <2>2. q + 1 \in 1..BlocksFor(h.length) /\ b \in Sectors
    BY <1>1, <1>8, BlocksForLength, HeadersAre
  <2>3. ByteAt(D, h, k) = (IF D[b].kind = "data" THEN D[b].bytes[k % SectorSize] ELSE Junk)
        /\ ByteAt(dsk, h, k) = (IF dsk[b].kind = "data" THEN dsk[b].bytes[k % SectorSize] ELSE Junk)
    BY DEF ByteAt
  <2>4. k \in position .. end => first <= q /\ q <= last
    BY <1>1, SectorsInOrder DEF first, last
  <2> HIDE DEF q, b
  <2>5. CASE /\ \A i \in 1..n : w[i].sector # b
             /\ D[b] = dsk[b]
    <3>1. k \notin position .. end
      <4> SUFFICES ASSUME k \in position .. end PROVE FALSE
        OBVIOUS
      <4> DEFINE i == q - first + 1
      <4>1. i \in 1..n /\ first + i = q + 1
        BY <1>3, <2>1, <2>4
      <4>2. w[i].sector = h.blocks[first + i]
        BY <1>4, <4>1
      <4>3. w[i].sector = b
        BY <4>1, <4>2 DEF b
      <4> QED BY <2>5, <4>1, <4>3
    <3> QED BY <2>3, <2>5, <3>1
  <2>6. CASE \E i \in 1..n : w[i].sector = b /\ D[b] = w[i].content
    <3>1. PICK i \in 1..n : w[i].sector = b /\ D[b] = w[i].content
      BY <2>6
    <3>2. /\ h.blocks[first + i] = h.blocks[q + 1]
          /\ D[b] = NewSector(dsk, h, first + i - 1, from, position)
      BY <1>4, <3>1 DEF b
    <3>3. first + i = q + 1
      <4>1. first + i \in 1 .. last + 1 /\ last + 1 \in 1..BlocksFor(h.length)
        <5>1. end < h.length
          BY <1>1
        <5>2. last + 1 \in 1..BlocksFor(h.length)
          BY <1>1, <5>1, BlocksForLength DEF last
        <5> QED BY <1>3, <5>2
      <4>2. BlocksFor(h.length) \in Nat
        BY <1>1, BlocksForLength
      <4>3. first + i \in 1..BlocksFor(h.length)
        BY <1>3, <4>1, <4>2
      <4>4. \A x, y \in 1..BlocksFor(h.length) : h.blocks[x] = h.blocks[y] => x = y
        BY HeadersAre
      <4> QED BY <2>2, <3>2, <4>3, <4>4
    <3>4. first + i - 1 = q
      BY <1>3, <2>1, <3>3
    <3>5. D[b] = NewSector(dsk, h, q, from, position)
      BY <3>2, <3>4, Zenon
    <3>6. D[b].kind = "data" /\ \A j \in 0 .. SectorSize - 1 :
            D[b].bytes[j] = LET p == q * SectorSize + j
                            IN  IF p \in position .. position + Len(from) - 1
                                THEN from[p - position + 1]
                                ELSE IF p < h.length THEN ByteAt(dsk, h, p) ELSE Junk
      BY <3>5 DEF NewSector, DataSector
    <3>7. D[b].bytes[k % SectorSize] = IF k \in position .. end
                                       THEN from[k - position + 1] ELSE ByteAt(dsk, h, k)
      <4> DEFINE j == k % SectorSize
      <4>1. j \in 0 .. SectorSize - 1 /\ q * SectorSize + j = k
        BY <2>1
      <4> HIDE DEF j
      <4>2. D[b].bytes[j] = LET p == k
                            IN  IF p \in position .. position + Len(from) - 1
                                THEN from[p - position + 1]
                                ELSE IF p < h.length THEN ByteAt(dsk, h, p) ELSE Junk
        BY <3>6, <4>1, Zenon
      <4> QED BY <1>8, <4>2 DEF j
    <3> QED BY <2>3, <3>6, <3>7
  <2>7. \/ /\ \A i \in 1..n : w[i].sector # b
           /\ D[b] = dsk[b]
        \/ \E i \in 1..n : w[i].sector = b /\ D[b] = w[i].content
    BY <1>3, <1>7, <2>2, WrittenSector
  <2> QED BY <2>5, <2>6, <2>7
<1>9. Overwrites(dsk, D, h, from, position)
  BY <1>8, Zenon DEF Overwrites
<1> QED BY <1>2, <1>9

-----------------------------------------------------------------------------
(* The files of a directory, by name, as FilesOn has them.                 *)

NameOf(dsk, i) == DirectoryOn(dsk).name[i]
BytesOf(dsk, i) == ReadAt(dsk, HeaderOf(dsk, i), HeaderOf(dsk, i).length, 0)

LEMMA FileAtIs ==
  ASSUME NEW dsk, NEW i \in InUse(dsk)
  PROVE  FileAt(dsk, i) = <<NameOf(dsk, i), BytesOf(dsk, i)>>
BY DEF FileAt, NameOf, BytesOf, HeaderOf, SectorOf

\* FindIndex leads from a name to its only entry.
LEMMA FindIndexOfName ==
  ASSUME NEW dsk, Agrees(dsk), NEW i \in InUse(dsk)
  PROVE  FindIndex(DirectoryOn(dsk), NameOf(dsk, i)) = i
<1> DEFINE d == DirectoryOn(dsk)
           k == FindIndex(d, NameOf(dsk, i))
<1>1. i \in Entries /\ d.inUse[i]
  BY InUseAre
<1>2. k # -1
  BY <1>1, FindIndexFinds DEF NameOf
<1>3. k \in Entries /\ d.inUse[k] /\ d.name[k] = NameOf(dsk, i)
  BY <1>2, FindIndexFinds
<1>4. k \in InUse(dsk)
  BY <1>3, InUseAre
<1> HIDE DEF k
<1>5. k = i
  BY <1>3, <1>4 DEF Agrees, NameOf
<1> QED BY <1>5 DEF k

LEMMA FilesOnAre ==
  ASSUME NEW dsk, Agrees(dsk)
  PROVE  /\ DOMAIN FilesOn(dsk) = {NameOf(dsk, i) : i \in InUse(dsk)}
         /\ FilesOn(dsk) = [n \in DOMAIN FilesOn(dsk) |-> FilesOn(dsk)[n]]
         /\ \A i \in InUse(dsk) : FilesOn(dsk)[NameOf(dsk, i)] = BytesOf(dsk, i)
         /\ \A n : FindIndex(DirectoryOn(dsk), n) = -1 <=> n \notin DOMAIN FilesOn(dsk)
<1> DEFINE d == DirectoryOn(dsk)
           h(n) == dsk[d.sector[FindIndex(d, n)]]
           N == {NameOf(dsk, i) : i \in InUse(dsk)}
<1>1. FilesOn(dsk) = [n \in N |-> ReadAt(dsk, h(n), h(n).length, 0)]
  BY DEF FilesOn, NameOf
<1>2. ASSUME NEW i \in InUse(dsk)
      PROVE  FilesOn(dsk)[NameOf(dsk, i)] = BytesOf(dsk, i)
  <2>1. h(NameOf(dsk, i)) = HeaderOf(dsk, i)
    BY FindIndexOfName DEF HeaderOf, SectorOf
  <2> HIDE DEF h
  <2> QED BY <1>1, <2>1 DEF BytesOf
<1>3. ASSUME NEW n
      PROVE  FindIndex(d, n) = -1 <=> n \notin N
  <2>1. ASSUME FindIndex(d, n) = -1
        PROVE  n \notin N
    BY <2>1, FindIndexFinds, InUseAre DEF NameOf
  <2>2. ASSUME FindIndex(d, n) # -1
        PROVE  n \in N
    <3>1. FindIndex(d, n) \in InUse(dsk) /\ NameOf(dsk, FindIndex(d, n)) = n
      BY <2>2, FindIndexFinds, InUseAre DEF NameOf
    <3> QED BY <3>1
  <2> QED BY <2>1, <2>2
<1> HIDE DEF h, N
<1>4. DOMAIN FilesOn(dsk) = N
  BY <1>1
<1> QED BY <1>1, <1>2, <1>3, <1>4 DEF N

\* The files that an operation on entry e leaves as they are.
LEMMA OtherFiles ==
  ASSUME NEW dsk1, NEW dsk2, NEW e, Stage(dsk1, dsk2, e)
  PROVE  /\ InUse(dsk2) \ {e} = InUse(dsk1) \ {e}
         /\ \A i \in InUse(dsk1) \ {e} : /\ NameOf(dsk2, i) = NameOf(dsk1, i)
                                         /\ BytesOf(dsk2, i) = BytesOf(dsk1, i)
<1>1. \A i \in Entries \ {e} : i \in InUse(dsk2) <=> i \in InUse(dsk1)
  BY DEF Stage
<1>2. InUse(dsk2) \ {e} = InUse(dsk1) \ {e}
  BY <1>1, InUseAre
<1>3. ASSUME NEW i \in InUse(dsk1) \ {e}
      PROVE  NameOf(dsk2, i) = NameOf(dsk1, i) /\ BytesOf(dsk2, i) = BytesOf(dsk1, i)
  <2>1. i \in Entries \ {e} /\ i \in InUse(dsk2)
    BY <1>2, InUseAre
  <2>2. FileAt(dsk2, i) = FileAt(dsk1, i)
    BY <2>1 DEF Stage
  <2>3. <<NameOf(dsk2, i), BytesOf(dsk2, i)>> = <<NameOf(dsk1, i), BytesOf(dsk1, i)>>
    BY <2>1, <2>2, FileAtIs
  <2> QED BY <2>3
<1> QED BY <1>2, <1>3

\* One file more.
LEMMA FilesWithOneMore ==
  ASSUME NEW dsk1, NEW dsk2, NEW e, Stage(dsk1, dsk2, e), Agrees(dsk1), Agrees(dsk2),
         e \notin InUse(dsk1), e \in InUse(dsk2)
  PROVE  /\ NameOf(dsk2, e) \notin DOMAIN FilesOn(dsk1)
         /\ DOMAIN FilesOn(dsk2) = DOMAIN FilesOn(dsk1) \cup {NameOf(dsk2, e)}
         /\ Restrict(FilesOn(dsk2), DOMAIN FilesOn(dsk1)) = FilesOn(dsk1)
         /\ FilesOn(dsk2)[NameOf(dsk2, e)] = BytesOf(dsk2, e)
<1> DEFINE F1 == FilesOn(dsk1)
           F2 == FilesOn(dsk2)
<1>1. InUse(dsk2) = InUse(dsk1) \cup {e}
      /\ \A i \in InUse(dsk1) : /\ NameOf(dsk2, i) = NameOf(dsk1, i)
                                /\ BytesOf(dsk2, i) = BytesOf(dsk1, i)
  BY OtherFiles
<1>2. /\ DOMAIN F1 = {NameOf(dsk1, i) : i \in InUse(dsk1)}
      /\ F1 = [n \in DOMAIN F1 |-> F1[n]]
      /\ \A i \in InUse(dsk1) : F1[NameOf(dsk1, i)] = BytesOf(dsk1, i)
      /\ DOMAIN F2 = {NameOf(dsk2, i) : i \in InUse(dsk2)}
      /\ \A i \in InUse(dsk2) : F2[NameOf(dsk2, i)] = BytesOf(dsk2, i)
  BY FilesOnAre
<1> HIDE DEF F1, F2
<1>3. \A i \in InUse(dsk1) : NameOf(dsk2, i) # NameOf(dsk2, e)
  BY <1>1 DEF Agrees, NameOf
<1>4. DOMAIN F2 = DOMAIN F1 \cup {NameOf(dsk2, e)} /\ NameOf(dsk2, e) \notin DOMAIN F1
  BY <1>1, <1>2, <1>3
<1>5. \A n \in DOMAIN F1 : F2[n] = F1[n]
  BY <1>1, <1>2
<1>6. Restrict(F2, DOMAIN F1) = [n \in DOMAIN F1 |-> F1[n]]
  BY <1>5 DEF Restrict
<1> QED BY <1>1, <1>2, <1>4, <1>6 DEF F1, F2

\* One file less.
LEMMA FilesWithOneLess ==
  ASSUME NEW dsk1, NEW dsk2, NEW e, Stage(dsk1, dsk2, e), Agrees(dsk1), Agrees(dsk2),
         e \in InUse(dsk1), e \notin InUse(dsk2)
  PROVE  FilesOn(dsk2) = Restrict(FilesOn(dsk1), DOMAIN FilesOn(dsk1) \ {NameOf(dsk1, e)})
<1> DEFINE F1 == FilesOn(dsk1)
           F2 == FilesOn(dsk2)
<1>1. InUse(dsk2) = InUse(dsk1) \ {e}
      /\ \A i \in InUse(dsk2) : /\ NameOf(dsk2, i) = NameOf(dsk1, i)
                                /\ BytesOf(dsk2, i) = BytesOf(dsk1, i)
  BY OtherFiles
<1>2. /\ DOMAIN F1 = {NameOf(dsk1, i) : i \in InUse(dsk1)}
      /\ \A i \in InUse(dsk1) : F1[NameOf(dsk1, i)] = BytesOf(dsk1, i)
      /\ DOMAIN F2 = {NameOf(dsk2, i) : i \in InUse(dsk2)}
      /\ F2 = [n \in DOMAIN F2 |-> F2[n]]
      /\ \A i \in InUse(dsk2) : F2[NameOf(dsk2, i)] = BytesOf(dsk2, i)
  BY FilesOnAre
<1> HIDE DEF F1, F2
<1>3. \A i \in InUse(dsk2) : NameOf(dsk1, i) # NameOf(dsk1, e)
  BY <1>1 DEF Agrees, NameOf
<1>4. DOMAIN F2 = DOMAIN F1 \ {NameOf(dsk1, e)}
  BY <1>1, <1>2, <1>3
<1>5. \A n \in DOMAIN F2 : F2[n] = F1[n]
  BY <1>1, <1>2
<1>6. F2 = [n \in DOMAIN F2 |-> F1[n]]
  BY <1>2, <1>5
<1> QED BY <1>4, <1>6 DEF Restrict, F1, F2

\* One file with other contents.
LEMMA FilesWithOneChanged ==
  ASSUME NEW dsk1, NEW dsk2, NEW e, Stage(dsk1, dsk2, e), Agrees(dsk1), Agrees(dsk2),
         e \in InUse(dsk1), e \in InUse(dsk2), NameOf(dsk2, e) = NameOf(dsk1, e)
  PROVE  FilesOn(dsk2) = [FilesOn(dsk1) EXCEPT ![NameOf(dsk1, e)] = BytesOf(dsk2, e)]
<1> DEFINE F1 == FilesOn(dsk1)
           F2 == FilesOn(dsk2)
<1>1. /\ InUse(dsk2) = InUse(dsk1)
      /\ \A i \in InUse(dsk1) : NameOf(dsk2, i) = NameOf(dsk1, i)
      /\ \A i \in InUse(dsk1) \ {e} : BytesOf(dsk2, i) = BytesOf(dsk1, i)
  BY OtherFiles
<1>2. /\ DOMAIN F1 = {NameOf(dsk1, i) : i \in InUse(dsk1)}
      /\ F1 = [n \in DOMAIN F1 |-> F1[n]]
      /\ \A i \in InUse(dsk1) : F1[NameOf(dsk1, i)] = BytesOf(dsk1, i)
      /\ DOMAIN F2 = {NameOf(dsk2, i) : i \in InUse(dsk2)}
      /\ F2 = [n \in DOMAIN F2 |-> F2[n]]
      /\ \A i \in InUse(dsk2) : F2[NameOf(dsk2, i)] = BytesOf(dsk2, i)
  BY FilesOnAre
<1> HIDE DEF F1, F2
<1>3. DOMAIN F2 = DOMAIN F1
  BY <1>1, <1>2
<1>4. ASSUME NEW n \in DOMAIN F1
      PROVE  F2[n] = IF n = NameOf(dsk1, e) THEN BytesOf(dsk2, e) ELSE F1[n]
  <2>1. PICK i \in InUse(dsk1) : n = NameOf(dsk1, i)
    BY <1>2
  <2>2. CASE i = e
    BY <1>1, <1>2, <2>1, <2>2
  <2>3. CASE i # e
    <3>1. n # NameOf(dsk1, e)
      BY <2>1, <2>3 DEF Agrees, NameOf
    <3> QED BY <1>1, <1>2, <2>1, <2>3, <3>1
  <2> QED BY <2>2, <2>3
<1>5. F2 = [n \in DOMAIN F1 |-> IF n = NameOf(dsk1, e) THEN BytesOf(dsk2, e) ELSE F1[n]]
  BY <1>2, <1>3, <1>4
<1>6. F2 = [F1 EXCEPT ![NameOf(dsk1, e)] = BytesOf(dsk2, e)]
  BY <1>5
<1> QED BY <1>6 DEF F1, F2

-----------------------------------------------------------------------------
(* Room.                                                                   *)

\* There is an unused entry when there are fewer files than entries.
LEMMA FilesAreCounted ==
  ASSUME NEW dsk, Agrees(dsk)
  PROVE  Unused(DirectoryOn(dsk)) # {} <=> Cardinality(DOMAIN FilesOn(dsk)) < NumDirEntries
<1> DEFINE I == InUse(dsk)
           N == DOMAIN FilesOn(dsk)
           f == [i \in I |-> NameOf(dsk, i)]
<1>1. IsFiniteSet(Entries) /\ Cardinality(Entries) = NumDirEntries /\ NumDirEntries \in Nat
  <2>1. NumDirEntries \in Nat /\ NumDirEntries > 0
    BY FileSystemAssumption
  <2>2. NumDirEntries - 1 \in Int /\ ~ (0 > NumDirEntries - 1)
        /\ (NumDirEntries - 1) - 0 + 1 = NumDirEntries
    BY <2>1
  <2> QED BY <2>1, <2>2, FS_Interval DEF Entries
<1>2. I \subseteq Entries
  BY InUseAre
<1> HIDE DEF I
<1>3. IsFiniteSet(I) /\ Cardinality(I) \in Nat
  BY <1>1, <1>2, FS_Subset, FS_CardinalityType
<1>4. Cardinality(N) = Cardinality(I)
  <2>1. N = {NameOf(dsk, i) : i \in I}
    BY FilesOnAre DEF I
  <2>2. \A i, j \in I : NameOf(dsk, i) = NameOf(dsk, j) => i = j
    BY DEF Agrees, NameOf, I
  <2> HIDE DEF N
  <2>3. f \in Bijection(I, N)
    BY <2>1, <2>2 DEF Bijection, Injection, Surjection, IsInjective
  <2> QED BY <1>3, <2>3, FS_Bijection DEF ExistsBijection
<1>5. Unused(DirectoryOn(dsk)) = Entries \ I
  BY DEF Unused, I, InUse
<1> HIDE DEF N
<1>6. CASE Entries \ I = {}
  <2>1. I = Entries
    BY <1>2, <1>6
  <2> QED BY <1>1, <1>4, <1>5, <1>6, <2>1 DEF N
<1>7. CASE Entries \ I # {}
  <2>1. PICK u \in Entries : u \notin I
    BY <1>7
  <2>2. Cardinality(I \cup {u}) = Cardinality(I) + 1
    BY <1>3, <2>1, FS_AddElement
  <2>3. Cardinality(I \cup {u}) <= Cardinality(Entries)
    <3>1. I \cup {u} \in SUBSET Entries
      BY <1>2, <2>1
    <3> QED BY <1>1, <3>1, FS_Subset
  <2>4. Cardinality(I) < NumDirEntries
    BY <1>1, <1>3, <2>2, <2>3
  <2> QED BY <1>4, <1>5, <1>7, <2>4 DEF N
<1> QED BY <1>6, <1>7

\* A place for each sector of each file: the header and the blocks.
Places(F) == UNION {{n} \X (1 .. 1 + BlocksFor(Len(F[n]))) : n \in DOMAIN F}

Place(dsk, i, k) == IF k = 1 THEN SectorOf(dsk, i) ELSE HeaderOf(dsk, i).blocks[k - 1]

\* The sectors of a file, each in its place.
LEMMA PlacesOfFile ==
  ASSUME NEW dsk, FormattedDisk(dsk), Openable(dsk), NEW i \in InUse(dsk),
         NEW n, n = 1 + BlocksFor(HeaderOf(dsk, i).length)
  PROVE  /\ n \in Nat
         /\ \A k \in 1..n : Place(dsk, i, k) \in SectorsOf(dsk, i)
         /\ \A s \in SectorsOf(dsk, i) : \E k \in 1..n : Place(dsk, i, k) = s
         /\ \A k, l \in 1..n : Place(dsk, i, k) = Place(dsk, i, l) => k = l
<1> DEFINE h == HeaderOf(dsk, i)
           m == BlocksFor(h.length)
           s == SectorOf(dsk, i)
           P(k) == Place(dsk, i, k)
<1>1. h \in Headers /\ s \notin Range(h.blocks)
  BY DEF Openable
<1>2. /\ m \in Nat /\ n = 1 + m
      /\ Range(h.blocks) = {h.blocks[b] : b \in 1..m}
      /\ \A a, b \in 1..m : h.blocks[a] = h.blocks[b] => a = b
      /\ SectorsOf(dsk, i) = {s} \cup Range(h.blocks)
  BY <1>1, HeadersAre, BlocksForLength, SectorsOfAre
<1>3. P(1) = s /\ \A k : k # 1 => P(k) = h.blocks[k - 1]
  BY DEF Place
<1> HIDE DEF h, m, s, P
<1>4. n \in Nat /\ \A k \in 1..n : k # 1 => k - 1 \in 1..m
  BY <1>2
<1>5. \A k \in 1..n : k # 1 => P(k) \in Range(h.blocks)
  BY <1>2, <1>3, <1>4
<1>6. \A k \in 1..n : P(k) \in SectorsOf(dsk, i)
  BY <1>2, <1>3, <1>5
<1>7. ASSUME NEW t \in SectorsOf(dsk, i)
      PROVE  \E k \in 1..n : P(k) = t
  <2>1. CASE t = s
    <3>1. 1 \in 1..n
      BY <1>2
    <3> QED BY <1>3, <2>1, <3>1
  <2>2. CASE t \in Range(h.blocks)
    <3>1. PICK b \in 1..m : t = h.blocks[b]
      BY <1>2, <2>2
    <3>2. b + 1 \in 1..n /\ b + 1 # 1 /\ (b + 1) - 1 = b
      BY <1>2
    <3>3. P(b + 1) = h.blocks[(b + 1) - 1]
      BY <1>3, <3>2
    <3> QED BY <3>1, <3>2, <3>3
  <2> QED BY <1>2, <2>1, <2>2
<1>8. ASSUME NEW k \in 1..n, NEW l \in 1..n, P(k) = P(l)
      PROVE  k = l
  <2>1. CASE k = 1
    BY <1>1, <1>3, <1>5, <1>8, <2>1
  <2>2. CASE l = 1
    BY <1>1, <1>3, <1>5, <1>8, <2>2
  <2>3. CASE k # 1 /\ l # 1
    <3>1. h.blocks[k - 1] = h.blocks[l - 1] /\ k - 1 \in 1..m /\ l - 1 \in 1..m
      BY <1>3, <1>4, <1>8, <2>3
    <3>2. k - 1 = l - 1
      BY <1>2, <3>1
    <3> QED BY <1>4, <3>2
  <2> QED BY <2>1, <2>2, <2>3
<1> QED BY <1>4, <1>6, <1>7, <1>8 DEF P

LEMMA SectorsAreCounted ==
  ASSUME NEW dsk, Typed(dsk), FormattedDisk(dsk), Openable(dsk), Agrees(dsk)
  PROVE  LET taken == UNION {SectorsOf(dsk, i) : i \in InUse(dsk)}
         IN  taken \subseteq Sectors /\ Cardinality(Places(FilesOn(dsk))) = Cardinality(taken)
<1> DEFINE F == FilesOn(dsk)
           I == InUse(dsk)
           Q == UNION {SectorsOf(dsk, i) : i \in I}
           K(i) == 1 .. 1 + BlocksFor(HeaderOf(dsk, i).length)
           entry(n) == FindIndex(DirectoryOn(dsk), n)
           g == [p \in Places(F) |-> Place(dsk, entry(p[1]), p[2])]
<1>1. /\ \A i \in I : /\ entry(NameOf(dsk, i)) = i
                      /\ F[NameOf(dsk, i)] = BytesOf(dsk, i)
      /\ DOMAIN F = {NameOf(dsk, i) : i \in I}
  BY FindIndexOfName, FilesOnAre
<1>2. ASSUME NEW i \in I
      PROVE  Len(BytesOf(dsk, i)) = HeaderOf(dsk, i).length /\ SectorsOf(dsk, i) \subseteq Sectors
  <2>1. HeaderOf(dsk, i) \in Headers /\ LaidOut(dsk) /\ i \in Entries
    BY InUseAre DEF Openable
  <2>2. SectorOf(dsk, i) \in Sectors
    BY <2>1, DirectoryOfLaidOut DEF SectorOf, Directories
  <2> QED BY <2>1, <2>2, ReadAll, HeadersAre, SectorsOfAre DEF BytesOf
<1>3. ASSUME NEW i \in I
      PROVE  /\ \A k \in K(i) : Place(dsk, i, k) \in SectorsOf(dsk, i)
             /\ \A s \in SectorsOf(dsk, i) : \E k \in K(i) : Place(dsk, i, k) = s
             /\ \A k, l \in K(i) : Place(dsk, i, k) = Place(dsk, i, l) => k = l
  BY PlacesOfFile
<1>4. \A i, j \in I : i # j => SectorsOf(dsk, i) \cap SectorsOf(dsk, j) = {}
  BY DEF Openable
<1> HIDE DEF F, I, entry
<1>5. ASSUME NEW p \in Places(F)
      PROVE  \E i \in I : \E k \in K(i) : p = <<NameOf(dsk, i), k>>
  <2>1. PICK n \in DOMAIN F : p \in {n} \X (1 .. 1 + BlocksFor(Len(F[n])))
    BY DEF Places
  <2>2. PICK i \in I : n = NameOf(dsk, i)
    BY <1>1
  <2>3. p \in {n} \X K(i)
    BY <1>1, <1>2, <2>1, <2>2
  <2> HIDE DEF K
  <2> QED BY <2>2, <2>3
<1>6. ASSUME NEW i \in I, NEW k \in K(i)
      PROVE  <<NameOf(dsk, i), k>> \in Places(F) /\ g[<<NameOf(dsk, i), k>>] = Place(dsk, i, k)
  <2> DEFINE n == NameOf(dsk, i)
  <2>1. n \in DOMAIN F /\ k \in 1 .. 1 + BlocksFor(Len(F[n]))
    BY <1>1, <1>2, <1>6
  <2>2. <<n, k>> \in Places(F)
    BY <2>1 DEF Places
  <2> QED BY <1>1, <2>2
<1> HIDE DEF K, g
<1>7. ASSUME NEW p \in Places(F)
      PROVE  g[p] \in Q
  <2>1. PICK i \in I : \E k \in K(i) : p = <<NameOf(dsk, i), k>>
    BY <1>5
  <2>2. g[p] \in SectorsOf(dsk, i)
    BY <1>3, <1>6, <2>1
  <2> QED BY <2>2
<1>8. ASSUME NEW s \in Q
      PROVE  \E p \in Places(F) : g[p] = s
  <2>1. PICK i \in I : s \in SectorsOf(dsk, i)
    OBVIOUS
  <2>2. PICK k \in K(i) : Place(dsk, i, k) = s
    BY <1>3, <2>1
  <2> QED BY <1>6, <2>2
<1>9. ASSUME NEW p \in Places(F), NEW q \in Places(F), g[p] = g[q]
      PROVE  p = q
  <2>1. PICK i \in I : \E k \in K(i) : p = <<NameOf(dsk, i), k>>
    BY <1>5
  <2>2. PICK k \in K(i) : p = <<NameOf(dsk, i), k>>
    BY <2>1
  <2>3. PICK j \in I : \E l \in K(j) : q = <<NameOf(dsk, j), l>>
    BY <1>5
  <2>4. PICK l \in K(j) : q = <<NameOf(dsk, j), l>>
    BY <2>3
  <2>5. Place(dsk, i, k) = Place(dsk, j, l)
    BY <1>6, <1>9, <2>2, <2>4
  <2>6. i = j
    BY <1>3, <1>4, <2>5
  <2>7. k = l
    BY <1>3, <2>5, <2>6
  <2> QED BY <2>2, <2>4, <2>6, <2>7
<1>10. g \in Bijection(Places(F), Q)
  <2>1. g = [p \in Places(F) |-> g[p]]
    BY DEF g
  <2> HIDE DEF Q
  <2>2. g \in [Places(F) -> Q]
    BY <1>7, <2>1
  <2> QED BY <1>8, <1>9, <2>2 DEF Bijection, Injection, Surjection, IsInjective
<1>11. Q \subseteq Sectors
  BY <1>2
<1> HIDE DEF Q
<1>12. IsFiniteSet(Q)
  BY <1>11, SectorsAreNumbers, FS_Subset
<1>13. ExistsBijection(Q, Places(F))
  BY <1>10, Fun_ExistsBijSymmetric DEF ExistsBijection
<1>14. Cardinality(Places(F)) = Cardinality(Q)
  BY <1>12, <1>13, FS_Bijection
<1> QED BY <1>11, <1>14 DEF Q, F, I

\* FileSystem::Create succeeds when the promises say so: when there is no such
\* file, and an entry and as many sectors as the file takes are free.
LEMMA CreateWhenPromised ==
  ASSUME NEW dsk, Typed(dsk), FormattedDisk(dsk), Openable(dsk), Agrees(dsk),
         NEW n, NEW length \in Nat
  PROVE  CanMake(dsk, n, length) <=>
           /\ n \notin DOMAIN FilesOn(dsk)
           /\ Cardinality(DOMAIN FilesOn(dsk)) < NumDirEntries
           /\ Cardinality(Places(FilesOn(dsk))) + (1 + BlocksFor(length))
                <= NumSectors - Cardinality(Reserved)
<1> DEFINE used == dsk[MapBlock].used
           Q == UNION {SectorsOf(dsk, i) : i \in InUse(dsk)}
           c == Cardinality(Clear(used))
<1>1. BlocksFor(length) \in Nat /\ NumSectors \in Nat /\ c \in Nat /\ IsFiniteSet(Clear(used))
  BY BlocksForLength, SectorsAreNumbers
<1>2. c = NumSectors - Cardinality(Reserved) - Cardinality(Q)
  <2>1. used = Reserved \cup Q /\ Reserved \cap Q = {}
    BY DEF Agrees, Openable
  <2>2. Reserved \subseteq Sectors /\ Q \subseteq Sectors
    BY Layout, SectorsAreCounted
  <2> HIDE DEF Q, used
  <2>3. IsFiniteSet(Reserved) /\ IsFiniteSet(Q)
    BY <2>2, SectorsAreNumbers, FS_Subset
  <2>4. Cardinality(used) = Cardinality(Reserved) + Cardinality(Q) - Cardinality({})
    BY <2>1, <2>3, FS_Union
  <2>5. c = NumSectors - Cardinality(Sectors \cap used)
    BY SectorsAreNumbers, FS_Difference DEF Clear
  <2>6. Sectors \cap used = used
    BY <2>1, <2>2
  <2>7. Cardinality(Reserved) \in Nat /\ Cardinality(Q) \in Nat /\ Cardinality({}) = 0
    BY <2>3, FS_CardinalityType, FS_EmptySet
  <2>8. Cardinality(Sectors \cap used) = Cardinality(used)
    BY <2>6
  <2> DEFINE x == Cardinality(Reserved)
             y == Cardinality(Q)
  <2>9. x \in Nat /\ y \in Nat /\ c = NumSectors - (x + y - 0)
    BY <2>4, <2>5, <2>7, <2>8
  <2> HIDE DEF c, x, y
  <2> QED BY <1>1, <2>9 DEF x, y
<1>3. Cardinality(Places(FilesOn(dsk))) = Cardinality(Q)
  BY SectorsAreCounted
<1>4. (Clear(used) # {} /\ CanAllocate(used \cup {Find(used)}, length))
        <=> 1 + BlocksFor(length) <= c
  <2>1. CASE Clear(used) = {}
    <3>1. c = 0
      BY <2>1, FS_EmptySet
    <3> HIDE DEF c
    <3> QED BY <1>1, <2>1, <3>1
  <2>2. CASE Clear(used) # {}
    <3> DEFINE s == Find(used)
    <3>1. s \in Clear(used) /\ Clear(used \cup {s}) = Clear(used) \ {s}
      BY <2>2, FindIsClear DEF Clear
    <3> HIDE DEF s, used
    <3>2. Cardinality(Clear(used \cup {s})) = c - 1
      BY <1>1, <3>1, FS_RemoveElement
    <3>3. CanAllocate(used \cup {s}, length) <=> c - 1 >= BlocksFor(length)
      BY <3>2 DEF CanAllocate
    <3> HIDE DEF c
    <3> QED BY <1>1, <2>2, <3>3 DEF s
  <2> QED BY <2>1, <2>2
<1>5. Cardinality(Q) \in Nat /\ Cardinality(Reserved) \in Nat
  <2>1. Q \subseteq Sectors /\ Reserved \subseteq Sectors
    BY SectorsAreCounted, Layout
  <2> HIDE DEF Q
  <2> QED BY <2>1, SectorsAreNumbers, FS_Subset, FS_CardinalityType
<1>6. CanMake(dsk, n, length) <=>
        /\ n \notin DOMAIN FilesOn(dsk)
        /\ Cardinality(DOMAIN FilesOn(dsk)) < NumDirEntries
        /\ Clear(used) # {} /\ CanAllocate(used \cup {Find(used)}, length)
  BY FilesOnAre, FilesAreCounted DEF CanMake
<1> DEFINE q == Cardinality(Q)
           r == Cardinality(Reserved)
           b == BlocksFor(length)
<1>7. (1 + b <= c) <=> (q + (1 + b) <= NumSectors - r)
  <2> HIDE DEF q, r, b, c
  <2> QED BY <1>1, <1>2, <1>5 DEF q, r, b
<1> HIDE DEF q, r, b, c, Q, used
<1> QED BY <1>3, <1>4, <1>6, <1>7 DEF q, r, b

-----------------------------------------------------------------------------
(* AtomicFiles, as it is instantiated.                                     *)

LEMMA AbstractOperators ==
  /\ \A f, S : A!Restrict(f, S) = Restrict(f, S)
  /\ \A n, length : A!CanCreate(n, length) <=>
       /\ n \notin DOMAIN Files
       /\ Cardinality(DOMAIN Files) < NumDirEntries
       /\ Cardinality(Places(Files)) + (1 + BlocksFor(length)) <= NumSectors - Cardinality(Reserved)
<1>1. \A S : A!Cardinality(S) = Cardinality(S)
  BY DEF A!Cardinality, Cardinality
<1>2. \A f, S : A!Restrict(f, S) = Restrict(f, S)
  BY DEF A!Restrict, Restrict
<1>3. \A length : A!Sectors(length) = 1 + BlocksFor(length)
  BY DEF A!Sectors, BlocksFor
<1>4. A!SectorsTaken = Cardinality(Places(Files))
  <2>1. UNION {{n} \X (1 .. A!Sectors(Len(Files[n]))) : n \in DOMAIN Files} = Places(Files)
    BY <1>3 DEF Places
  <2> QED BY <1>1, <2>1 DEF A!SectorsTaken
<1>5. \A n, length : A!CanCreate(n, length) <=>
        /\ n \notin DOMAIN Files
        /\ Cardinality(DOMAIN Files) < NumDirEntries
        /\ Cardinality(Places(Files)) + (1 + BlocksFor(length)) <= NumSectors - Cardinality(Reserved)
  BY <1>1, <1>3, <1>4 DEF A!CanCreate
<1> QED BY <1>2, <1>5

\* The disk at the end of the operation, which the promises are about.
LEMMA EndOfWrites ==
  ASSUME NEW dsk, Typed(dsk), NEW writes \in Seq(SectorWrites), FitWrites(writes),
         AlwaysSafe(dsk, writes), EndsWell(dsk, writes)
  PROVE  LET D == Done(dsk, writes)
         IN  Typed(D) /\ FormattedDisk(D) /\ Openable(D) /\ Agrees(D)
<1>1. Openable(Done(dsk, writes))
  BY MomentsAre DEF AlwaysSafe
<1>2. Typed(Done(dsk, writes))
  <2>1. Len(writes) \in 0 .. Len(writes)
    OBVIOUS
  <2> QED BY <2>1, WrittenFits DEF Done
<1> QED BY <1>1, <1>2 DEF EndsWell

LEMMA DoneIsSound ==
  ASSUME FsInv, sound
  PROVE  LET D == Done(disk, pending)
         IN  Typed(D) /\ FormattedDisk(D) /\ Openable(D) /\ Agrees(D)
BY EndOfWrites DEF FsInv, FsTypes, DiskInv

LEMMA DoneIsSoundThen ==
  ASSUME FsInv', sound'
  PROVE  LET D == Done(disk', pending')
         IN  Typed(D) /\ FormattedDisk(D) /\ Openable(D) /\ Agrees(D)
BY EndOfWrites DEF FsInv, FsTypes, DiskInv

NoFiles == [n \in {} |-> <<>>]

\* What Files is before and after a step.
LEMMA FilesAre ==
  ASSUME FsInv, FsInv'
  PROVE  /\ sound => Files = FilesOn(Done(disk, pending))
         /\ sound' => Files' = FilesOn(Done(disk', pending'))
         /\ ~ sound => Files = NoFiles
         /\ ~ sound' => Files' = NoFiles
<1>1. pending \in Seq(SectorWrites) /\ pending' \in Seq(SectorWrites)
  BY DEF FsInv, FsTypes
<1>2. Settled = Done(disk, pending)
  BY <1>1, SettledIsDone
<1>3. Settled' = Done(disk', pending')
  <2>1. DOMAIN pending' = 1..Len(pending')
    BY <1>1
  <2>2. Settled' = [s \in Sectors |->
                      LET W == {i \in 1..Len(pending') : pending'[i].sector = s}
                      IN  IF W = {} THEN disk'[s] ELSE pending'[Max(W)].content]
    BY <2>1, Zenon DEF Settled
  <2> QED BY <2>2, Zenon DEF Done, Written
<1> QED BY <1>2, <1>3 DEF Files, NoFiles

LEMMA CanCreateWhenPromised ==
  ASSUME FsInv, sound, NEW D, D = Done(disk, pending), NEW n, NEW length \in Nat
  PROVE  A!CanCreate(n, length) <=> CanMake(D, n, length)
<1>1. Typed(D) /\ FormattedDisk(D) /\ Openable(D) /\ Agrees(D)
  BY DoneIsSound
<1>2. Files = FilesOn(D)
  <2>1. Settled = D
    BY SettledIsDone DEF FsInv, FsTypes
  <2> QED BY <2>1 DEF Files
<1> HIDE DEF Files
<1> QED BY <1>1, <1>2, AbstractOperators, CreateWhenPromised

\* The command, as AtomicFiles sees it.
LEMMA SessionOfJob ==
  /\ SessionOf(NoJob) = [command |-> "none"]
  /\ \A j : j.command = "-f" => SessionOf(j) = [command |-> "-f"]
  /\ \A j : j.command = "-cp" =>
       SessionOf(j) = [command |-> "-cp", name |-> j.name, data |-> j.data,
                       step |-> IF j.step = "create" THEN "create" ELSE "write"]
  /\ \A j : j.command = "-t" =>
       SessionOf(j) = [command |-> "-t", name |-> j.name, step |-> j.step]
  /\ \A j : j.command \in {"-p", "-r"} =>
       SessionOf(j) = [command |-> j.command, name |-> j.name]
<1>1. NoJob.command = "none"
  BY DEF NoJob
<1> QED BY <1>1 DEF SessionOf

-----------------------------------------------------------------------------
(* What a command has done so far, in terms of the file it is about.       *)

\* The file of entry i is the one that the command names, and is open.
IsOpen(dsk, j, i) == NameOf(dsk, i) = j.name /\ HeaderOf(dsk, i) = j.hdr

Created(dsk, j) ==
  \E i \in InUse(dsk) : NameOf(dsk, i) = j.name /\ HeaderOf(dsk, i).length = Len(j.data)

\* The first bytes have been copied.
CopiedSoFar(dsk, j) ==
  /\ j.seekPosition = j.amountRead /\ j.amountRead <= Len(j.data)
  /\ j.hdr.length = Len(j.data)
  /\ \E i \in InUse(dsk) :
       /\ IsOpen(dsk, j, i)
       /\ \A k \in 1..j.amountRead : BytesOf(dsk, i)[k] = j.data[k]

\* The first bytes have been printed.
PrintedSoFar(dsk, j, printed) ==
  /\ j.seekPosition <= j.hdr.length
  /\ \E i \in InUse(dsk) :
       IsOpen(dsk, j, i) /\ printed = SubSeq(BytesOf(dsk, i), 1, j.seekPosition)

Progress(dsk, j, printed) ==
  /\ j.command = "-cp" /\ j.step = "open" => Created(dsk, j)
  /\ j.command = "-cp" /\ j.step = "transfer" => CopiedSoFar(dsk, j)
  /\ j.command = "-p" /\ j.step = "open" => printed = <<>>
  /\ j.command = "-p" /\ j.step = "transfer" => PrintedSoFar(dsk, j, printed)

ProgressInv == sound => Progress(Done(disk, pending), job, output)

-----------------------------------------------------------------------------
(* Every step is a step of AtomicFiles, or none.                           *)

AbstractStep == A!Next \/ UNCHANGED <<Files, sound, Session, output, outcome>>

LEMMA InitIsAbstract ==
  ASSUME Init
  PROVE  A!Init /\ ProgressInv
<1>1. /\ sound = FALSE /\ output = <<>> /\ outcome = "none"
      /\ Session = [command |-> "none"]
  BY SessionOfJob DEF Init, Session
<1>2. Files = [n \in {} |-> <<>>]
  BY <1>1 DEF Files
<1> QED BY <1>1, <1>2 DEF A!Init, A!NoSession, ProgressInv

\* Steps that are promised nothing.
LEMMA UnpromisedSteps ==
  ASSUME FsInv, FsInv', ~ sound, ~ sound'
  PROVE  AbstractStep /\ ProgressInv'
<1>1. Files' = Files /\ sound' = sound
  BY FilesAre DEF FsInv, FsTypes
<1> HIDE DEF Files
<1>2. A!Unpromised
  BY <1>1 DEF A!Unpromised
<1> QED BY <1>2 DEF AbstractStep, A!Next, ProgressInv

\* Steps that leave the disk as it is, or as it will be.
LEMMA SameEnd ==
  ASSUME FsInv, FsInv', sound, sound', Done(disk', pending') = Done(disk, pending)
  PROVE  Files' = Files
BY FilesAre

LEMMA FormatIsAbstract ==
  ASSUME FsInv, FsInv', Format
  PROVE  AbstractStep /\ ProgressInv'
<1>1. /\ job = NoJob /\ job' = [command |-> "-f", step |-> "finish"]
      /\ sound' = TRUE /\ output' = output /\ outcome' = "none"
  BY DEF Format
<1>2. Session = [command |-> "none"] /\ Session' = [command |-> "-f"]
  BY <1>1, SessionOfJob DEF Session
<1>3. Files' = [n \in {} |-> <<>>]
  <2>1. InUse(Done(disk', pending')) = {} /\ Agrees(Done(disk', pending'))
    BY <1>1, FormatKeeps, DoneIsSoundThen
  <2>2. Files' = FilesOn(Done(disk', pending'))
    BY <1>1, FilesAre
  <2> DEFINE F == FilesOn(Done(disk', pending'))
  <2>3. DOMAIN F = {NameOf(Done(disk', pending'), i) : i \in {}} /\ F = [n \in DOMAIN F |-> F[n]]
    BY <2>1, FilesOnAre
  <2> HIDE DEF F
  <2>4. DOMAIN F = {}
    BY <2>3
  <2>5. F = [n \in {} |-> F[n]]
    BY <2>3, <2>4
  <2>6. F = [n \in {} |-> <<>>]
    BY <2>5
  <2> QED BY <2>2, <2>6 DEF F
<1> HIDE DEF Files, Session
<1>4. A!Format
  BY <1>1, <1>2, <1>3 DEF A!Format, A!NoSession
<1>5. ProgressInv'
  BY <1>1 DEF ProgressInv, Progress
<1> QED BY <1>4, <1>5 DEF AbstractStep, A!Next

LEMMA CommandIsAbstract ==
  ASSUME FsInv, FsInv', sound, NEW j, Command(j), j.step \in {"create", "open", "remove"},
         j.command = "-cp" => j.step = "create" /\ j.name \in Names /\ j.data \in UnixFiles,
         j.command = "-t" => j.step = "create",
         j.command # "-cp" => j.command \in {"-p", "-r", "-t"} /\ j.name \in Names
  PROVE  AbstractStep /\ ProgressInv'
<1>1. /\ job = NoJob /\ job' = j /\ pending = <<>> /\ pending' = <<>> /\ disk' = disk
      /\ sound' = sound /\ output' = <<>> /\ outcome' = "none"
  BY DEF Command
<1>2. Files' = Files
  BY <1>1, SameEnd
<1>3. Session = [command |-> "none"]
  BY <1>1, SessionOfJob DEF Session
<1>4. Session' \in [command : {"-p", "-r"}, name : Names]
                   \cup [command : {"-t"}, name : Names, step : {"create"}]
                   \cup [command : {"-cp"}, name : Names, data : UnixFiles, step : {"create"}]
  <2>1. Session' = SessionOf(j)
    BY <1>1 DEF Session
  <2>2. CASE j.command = "-cp"
    <3>1. SessionOf(j) = [command |-> "-cp", name |-> j.name, data |-> j.data,
                          step |-> "create"]
      BY <2>2, SessionOfJob
    <3> QED BY <2>1, <2>2, <3>1
  <2>3. CASE j.command = "-t"
    <3>1. SessionOf(j) = [command |-> "-t", name |-> j.name, step |-> "create"]
      BY <2>3, SessionOfJob
    <3>2. j.name \in Names
      BY <2>3
    <3> QED BY <2>1, <3>1, <3>2
  <2>4. CASE j.command \in {"-p", "-r"}
    <3>1. SessionOf(j) = [command |-> j.command, name |-> j.name]
      BY <2>4, SessionOfJob
    <3>2. j.name \in Names
      BY <2>4
    <3> QED BY <2>1, <2>4, <3>1, <3>2
  <2> QED BY <2>2, <2>3, <2>4
<1> HIDE DEF Files, Session
<1>5. A!Start
  BY <1>1, <1>2, <1>3, <1>4 DEF A!Start, A!NoSession
<1>6. ProgressInv'
  BY <1>1 DEF ProgressInv, Progress
<1> QED BY <1>5, <1>6 DEF AbstractStep, A!Next

LEMMA CommandsAreAbstract ==
  ASSUME FsInv, FsInv', sound, NEW n \in Names,
         \/ \E u \in UnixFiles : CopyCommand(n, u)
         \/ PrintCommand(n) \/ RemoveCommand(n) \/ TestCommand(n)
  PROVE  AbstractStep /\ ProgressInv'
<1>1. ASSUME NEW u \in UnixFiles, CopyCommand(n, u)
      PROVE  AbstractStep /\ ProgressInv'
  <2> DEFINE j == [command |-> "-cp", name |-> n, data |-> u, step |-> "create"]
  <2>1. Command(j)
    BY <1>1 DEF CopyCommand
  <2>2. j.command = "-cp" /\ j.step = "create" /\ j.name = n /\ j.data = u
    OBVIOUS
  <2> HIDE DEF j
  <2> QED BY <2>1, <2>2, CommandIsAbstract
<1>2. ASSUME NEW c \in {"-p", "-r", "-t"}, NEW step \in {"create", "open", "remove"},
             c = "-t" => step = "create",
             Command([command |-> c, name |-> n, step |-> step])
      PROVE  AbstractStep /\ ProgressInv'
  <2> DEFINE j == [command |-> c, name |-> n, step |-> step]
  <2>1. Command(j) /\ j.command = c /\ j.step = step /\ j.name = n /\ c # "-cp"
    BY <1>2
  <2> HIDE DEF j
  <2> QED BY <1>2, <2>1, CommandIsAbstract
<1>3. CASE PrintCommand(n)
  BY <1>2, <1>3 DEF PrintCommand
<1>4. CASE RemoveCommand(n)
  BY <1>2, <1>4 DEF RemoveCommand
<1>5. CASE TestCommand(n)
  BY <1>2, <1>5 DEF TestCommand
<1> QED BY <1>1, <1>3, <1>4, <1>5

LEMMA WriteSectorIsAbstract ==
  ASSUME FsInv, FsInv', ProgressInv, sound, WriteSector
  PROVE  AbstractStep /\ ProgressInv'
<1>1. /\ Typed(disk) /\ pending \in Seq(SectorWrites) /\ FitWrites(pending)
  BY DEF FsInv, FsTypes
<1>2. /\ pending # <<>> /\ disk' = [disk EXCEPT ![Head(pending).sector] = Head(pending).content]
      /\ pending' = Tail(pending) /\ job' = job /\ sound' = sound /\ output' = output
      /\ outcome' = outcome
  BY DEF WriteSector
<1>3. Done(disk', pending') = Done(disk, pending)
  BY <1>1, <1>2, MomentsAfterWrite
<1>4. Files' = Files
  BY <1>2, <1>3, SameEnd
<1>5. Session' = Session
  BY <1>2 DEF Session
<1>6. ProgressInv'
  BY <1>2, <1>3 DEF ProgressInv
<1> QED BY <1>2, <1>4, <1>5, <1>6, Zenon DEF AbstractStep

LEMMA CrashIsAbstract ==
  ASSUME FsInv, FsInv', sound, Crash
  PROVE  AbstractStep /\ ProgressInv'
<1>1. /\ disk' = disk /\ pending' = <<>> /\ sound' = (sound /\ pending = <<>>)
      /\ output' = <<>> /\ job' = NoJob /\ outcome' = "killed"
      /\ pending = <<>> => job # NoJob
  BY DEF Crash
<1>2. Session' = [command |-> "none"]
  BY <1>1, SessionOfJob DEF Session
<1>3. ProgressInv'
  BY <1>1 DEF ProgressInv, Progress, NoJob
<1>4. CASE pending = <<>>
  <2>1. Files' = Files /\ sound' = sound
    BY <1>1, <1>4, SameEnd DEF FsInv, FsTypes
  <2>2. Session # [command |-> "none"]
    <3>1. job \in Jobs /\ job # NoJob
      BY <1>1, <1>4 DEF FsInv, FsTypes
    <3>2. job.command \in {"-f", "-cp", "-p", "-r", "-t"}
      BY <3>1, JobIs DEF Jobs, FormatJobs, CopyJobs, CopyTransfers, PrintJobs, PrintTransfers,
                         RemoveJobs, TestJobs
    <3>3. Session.command = job.command
      BY <3>2, SessionOfJob DEF Session
    <3> QED BY <3>2, <3>3
  <2> HIDE DEF Files, Session
  <2>3. A!Stop
    BY <1>1, <1>2, <2>1, <2>2 DEF A!Stop, A!NoSession
  <2> QED BY <1>3, <2>3 DEF AbstractStep, A!Next
<1>5. CASE pending # <<>>
  <2>1. Files' = [n \in {} |-> <<>>] /\ sound' = FALSE
    BY <1>1, <1>5, FilesAre DEF NoFiles
  <2> HIDE DEF Files, Session
  <2>2. A!Crash
    BY <1>1, <1>2, <2>1 DEF A!Crash, A!NoSession
  <2> QED BY <1>3, <2>2 DEF AbstractStep, A!Next
<1> QED BY <1>4, <1>5

\* Create with success: a file more, of the right size.
LEMMA CreateMakesFile ==
  ASSUME FsInv, FsInv', Create, CanMake(disk, job.name, NewLength),
         NEW n, n = job.name, NEW length \in Nat, length = NewLength
  PROVE  /\ A!CanCreate(n, length)
         /\ DOMAIN Files' = DOMAIN Files \cup {n}
         /\ A!Restrict(Files', DOMAIN Files) = Files
         /\ Len(Files'[n]) = length
         /\ \E e \in InUse(Done(disk', pending')) :
              /\ NameOf(Done(disk', pending'), e) = n
              /\ HeaderOf(Done(disk', pending'), e).length = length
<1> DEFINE D == Done(disk', pending')
<1>1. /\ pending = <<>> /\ sound /\ disk' = disk /\ sound' = sound
      /\ Typed(disk) /\ FormattedDisk(disk) /\ Openable(disk) /\ Agrees(disk)
      /\ Makes(disk, pending', n, length)
  BY CreateCases
<1>2. Files = FilesOn(disk) /\ Files' = FilesOn(D) /\ Done(disk, pending) = disk
  BY <1>1, FilesAre, AtRest
<1>3. Typed(D) /\ FormattedDisk(D) /\ Openable(D) /\ Agrees(D)
  BY <1>1, DoneIsSoundThen
<1>4. /\ pending' \in Seq(SectorWrites)
      /\ \E e \in Entries : /\ \A B \in Moments(disk, pending') : Stage(disk, B, e)
                            /\ e \notin InUse(disk) /\ e \in InUse(Done(disk, pending'))
                            /\ DirectoryOn(Done(disk, pending')).name[e] = n
                            /\ HeaderOf(Done(disk, pending'), e).length = length
  BY <1>1 DEF Makes
<1>5. D = Done(disk, pending') /\ D \in Moments(disk, pending')
  BY <1>1, <1>4, MomentsAre
<1> HIDE DEF D
<1>6. PICK e \in Entries : /\ Stage(disk, D, e) /\ e \notin InUse(disk) /\ e \in InUse(D)
                           /\ NameOf(D, e) = n /\ HeaderOf(D, e).length = length
  BY <1>4, <1>5 DEF NameOf
<1>7. /\ DOMAIN FilesOn(D) = DOMAIN FilesOn(disk) \cup {n}
      /\ Restrict(FilesOn(D), DOMAIN FilesOn(disk)) = FilesOn(disk)
      /\ FilesOn(D)[n] = BytesOf(D, e)
  <2>1. /\ DOMAIN FilesOn(D) = DOMAIN FilesOn(disk) \cup {NameOf(D, e)}
        /\ Restrict(FilesOn(D), DOMAIN FilesOn(disk)) = FilesOn(disk)
        /\ FilesOn(D)[NameOf(D, e)] = BytesOf(D, e)
    <3>1. /\ Stage(disk, D, e) /\ e \notin InUse(disk) /\ e \in InUse(D)
      BY <1>6
    <3>2. Agrees(disk) /\ Agrees(D)
      BY <1>1, <1>3
    <3> QED BY <3>1, <3>2, FilesWithOneMore
  <2> QED BY <1>6, <2>1, Zenon
<1>8. Len(BytesOf(D, e)) = length
  <2>1. HeaderOf(D, e) \in Headers
    BY <1>3, <1>6 DEF Openable
  <2>2. Len(BytesOf(D, e)) = HeaderOf(D, e).length
    BY <1>3, <2>1, ReadAll, Zenon DEF BytesOf
  <2> QED BY <1>6, <2>2, Zenon
<1>9. A!CanCreate(n, length)
  <2>1. CanMake(disk, n, length)
    OBVIOUS
  <2> QED BY <1>1, <1>2, <2>1, CanCreateWhenPromised, Zenon
<1>10. A!Restrict(Files', DOMAIN Files) = Files
  BY <1>2, <1>7, AbstractOperators, Zenon
<1>11. Len(Files'[n]) = length
  BY <1>2, <1>7, <1>8, Zenon
<1>12. DOMAIN Files' = DOMAIN Files \cup {n}
  BY <1>2, <1>7, Zenon
<1>13. \E i \in InUse(D) : NameOf(D, i) = n /\ HeaderOf(D, i).length = length
  BY <1>6
<1> QED BY <1>9, <1>10, <1>11, <1>12, <1>13, Zenon DEF D

\* Create without: nothing changes, as promised.
LEMMA CreateMakesNothing ==
  ASSUME FsInv, FsInv', Create, ~ CanMake(disk, job.name, NewLength),
         NEW n, n = job.name, NEW length \in Nat, length = NewLength
  PROVE  /\ ~ A!CanCreate(n, length)
         /\ Files' = Files
         /\ Done(disk', pending') = disk
<1>1. /\ pending = <<>> /\ sound /\ disk' = disk /\ sound' = sound /\ pending' = <<>>
  BY CreateCases
<1>2. Done(disk, pending) = disk /\ Done(disk', pending') = disk
  BY <1>1, AtRest, StaysAtRest
<1>3. Files' = Files
  BY <1>1, <1>2, SameEnd
<1>4. ~ CanMake(disk, n, length)
  OBVIOUS
<1>5. ~ A!CanCreate(n, length)
  BY <1>1, <1>2, <1>4, CanCreateWhenPromised, Zenon
<1> QED BY <1>2, <1>3, <1>5

LEMMA CreateIsAbstract ==
  ASSUME FsInv, FsInv', Create
  PROVE  AbstractStep /\ ProgressInv'
<1> DEFINE success == CanMake(disk, job.name, NewLength)
           D == Done(disk', pending')
<1>1. /\ job.command \in {"-cp", "-t"} /\ job.step = "create" /\ sound /\ pending = <<>>
      /\ sound' = sound /\ output' = output /\ NewLength \in Nat
      /\ success => (job.command = "-cp" => job' = [job EXCEPT !.step = "open"])
      /\ ~ success => (job.command = "-cp" => job' = NoJob)
      /\ job.command = "-t" => job' = [job EXCEPT !.step = "remove"]
      /\ outcome' = IF job.command = "-t" \/ success THEN outcome ELSE "failed"
  BY CreateCases
<1>2. job \in Jobs
  BY DEF FsInv, FsTypes
<1>3. success => /\ A!CanCreate(job.name, NewLength)
                 /\ DOMAIN Files' = DOMAIN Files \cup {job.name}
                 /\ A!Restrict(Files', DOMAIN Files) = Files
                 /\ Len(Files'[job.name]) = NewLength
                 /\ \E e \in InUse(D) : /\ NameOf(D, e) = job.name
                                        /\ HeaderOf(D, e).length = NewLength
  BY <1>1, CreateMakesFile
<1>4. ~ success => /\ ~ A!CanCreate(job.name, NewLength)
                   /\ Files' = Files
  BY <1>1, CreateMakesNothing
<1> HIDE DEF success, D
<1>5. CASE job.command = "-cp"
  <2>1. job \in CopyJobs
    BY <1>1, <1>2, <1>5, JobIs
  <2>2. Session = [command |-> "-cp", name |-> job.name, data |-> job.data, step |-> "create"]
    BY <1>1, <1>5, SessionOfJob DEF Session
  <2>3. NewLength = Len(job.data)
    BY <1>5 DEF NewLength
  <2>4. /\ Session.command = "-cp" /\ Session.step = "create"
        /\ Session.name = job.name /\ Session.data = job.data
    BY <2>2
  <2>5. CASE success
    <3>1. job' = [job EXCEPT !.step = "open"] /\ outcome' = outcome
      BY <1>1, <1>5, <2>5
    <3>2. /\ job'.command = "-cp" /\ job'.name = job.name /\ job'.data = job.data
          /\ job'.step = "open"
      BY <2>1, <3>1 DEF CopyJobs
    <3>3. Session' = [Session EXCEPT !.step = "write"]
      <4>1. SessionOf(job') = [command |-> "-cp", name |-> job'.name, data |-> job'.data,
                               step |-> "write"]
        BY <3>2, SessionOfJob
      <4>2. Session' = [command |-> "-cp", name |-> job.name, data |-> job.data,
                        step |-> "write"]
        BY <3>2, <4>1 DEF Session
      <4> HIDE DEF Session
      <4> QED BY <2>2, <4>2
    <3> HIDE DEF Files, Session
    <3>4. A!Create(Len(Session.data))
      <4>1. /\ A!CanCreate(Session.name, Len(Session.data))
            /\ DOMAIN Files' = DOMAIN Files \cup {Session.name}
            /\ A!Restrict(Files', DOMAIN Files) = Files
            /\ Len(Files'[Session.name]) = Len(Session.data)
        BY <1>3, <2>3, <2>4, <2>5, Zenon
      <4> QED BY <4>1, Zenon DEF A!Create
    <3>5. A!Copy
      <4>1. UNCHANGED <<sound, output, outcome>>
        BY <1>1, <3>1
      <4> QED BY <2>4, <3>3, <3>4, <4>1, Zenon DEF A!Copy
    <3>6. Created(D, job')
      BY <1>3, <2>3, <2>5, <3>2, Zenon DEF Created
    <3>7. ProgressInv'
      BY <3>2, <3>6 DEF ProgressInv, Progress, D
    <3> QED BY <3>5, <3>7, Zenon DEF AbstractStep, A!Next
  <2>6. CASE ~ success
    <3>1. job' = NoJob /\ outcome' = "failed"
      BY <1>1, <1>5, <2>6
    <3>2. Session' = [command |-> "none"]
      BY <3>1, SessionOfJob DEF Session
    <3> HIDE DEF Files, Session
    <3>3. A!End("failed")
      BY <1>1, <1>4, <2>6, <3>1, <3>2 DEF A!End, A!NoSession
    <3>4. A!CreateFails(Len(Session.data))
      BY <1>4, <2>3, <2>4, <2>6, Zenon DEF A!CreateFails
    <3>5. A!Copy
      BY <2>4, <3>3, <3>4, Zenon DEF A!Copy
    <3>6. ProgressInv'
      BY <3>1 DEF ProgressInv, Progress, NoJob
    <3> QED BY <3>5, <3>6, Zenon DEF AbstractStep, A!Next
  <2> QED BY <2>5, <2>6
<1>6. CASE job.command = "-t"
  <2>1. job \in TestJobs
    BY <1>2, <1>6, JobIs
  <2>2. Session = [command |-> "-t", name |-> job.name, step |-> "create"]
    BY <1>1, <1>6, SessionOfJob DEF Session
  <2>3. NewLength = 0
    BY <1>6 DEF NewLength
  <2>4. job' = [job EXCEPT !.step = "remove"] /\ outcome' = outcome
    BY <1>1, <1>6
  <2>5. job'.command = "-t" /\ job'.name = job.name /\ job'.step = "remove"
    BY <2>1, <2>4 DEF TestJobs
  <2>6. Session' = [Session EXCEPT !.step = "remove"]
    <3>1. SessionOf(job') = [command |-> "-t", name |-> job'.name, step |-> "remove"]
      BY <2>5, SessionOfJob
    <3>2. Session' = [command |-> "-t", name |-> job.name, step |-> "remove"]
      BY <2>5, <3>1 DEF Session
    <3> HIDE DEF Session
    <3> QED BY <2>2, <3>2
  <2> HIDE DEF Files, Session
  <2>7. Session.command = "-t" /\ Session.step = "create" /\ Session.name = job.name
    BY <2>2
  <2>8. A!Create(0) \/ (A!CreateFails(0) /\ UNCHANGED Files)
    <3>1. CASE success
      <4>1. /\ A!CanCreate(Session.name, 0)
            /\ DOMAIN Files' = DOMAIN Files \cup {Session.name}
            /\ A!Restrict(Files', DOMAIN Files) = Files
            /\ Len(Files'[Session.name]) = 0
        BY <1>3, <2>3, <2>7, <3>1, Zenon
      <4> QED BY <4>1, Zenon DEF A!Create
    <3>2. CASE ~ success
      BY <1>4, <2>3, <2>7, <3>2, Zenon DEF A!CreateFails
    <3> QED BY <3>1, <3>2
  <2>9. UNCHANGED <<sound, output, outcome>>
    BY <1>1, <2>4
  <2>10. A!PerformanceTest
    BY <2>6, <2>7, <2>8, <2>9, Zenon DEF A!PerformanceTest
  <2>11. ProgressInv'
    BY <2>5 DEF ProgressInv, Progress
  <2> QED BY <2>10, <2>11, Zenon DEF AbstractStep, A!Next
<1> QED BY <1>1, <1>5, <1>6

LEMMA OpenIsAbstract ==
  ASSUME FsInv, FsInv', ProgressInv, sound, Open
  PROVE  AbstractStep /\ ProgressInv'
<1> DEFINE i == FindIndex(DirectoryOn(disk), job.name)
           h == HeaderOf(disk, i)
<1>1. /\ pending = <<>> /\ job.command \in {"-cp", "-p"} /\ job.step = "open"
      /\ disk' = disk /\ pending' = <<>> /\ sound' = sound /\ output' = output
      /\ job' = IF i = -1 THEN NoJob
                ELSE [command |-> job.command, name |-> job.name,
                      data |-> IF job.command = "-cp" THEN job.data ELSE <<>>,
                      step |-> "transfer", hdr |-> h, amountRead |-> 0, seekPosition |-> 0]
      /\ outcome' = IF i = -1 THEN "failed" ELSE outcome
  BY DEF Open, At, Directory, HeaderOf, SectorOf
<1>2. /\ job \in Jobs /\ Typed(disk) /\ FormattedDisk(disk) /\ Openable(disk) /\ Agrees(disk)
      /\ Done(disk, pending) = disk /\ Done(disk', pending') = disk
  BY <1>1, AtRest, StaysAtRest DEF FsInv, FsTypes
<1>3. Progress(disk, job, output)
  BY <1>2 DEF ProgressInv
<1>4. Files' = Files /\ Files = FilesOn(disk)
  BY <1>1, <1>2, SameEnd, FilesAre
<1>5. i = -1 <=> job.name \notin DOMAIN FilesOn(disk)
  BY <1>2, FilesOnAre
<1>6. i # -1 => i \in InUse(disk) /\ NameOf(disk, i) = job.name /\ h \in Headers
  <2> SUFFICES ASSUME i # -1 PROVE i \in InUse(disk) /\ NameOf(disk, i) = job.name /\ h \in Headers
    OBVIOUS
  <2>1. i \in InUse(disk) /\ NameOf(disk, i) = job.name
    BY FindIndexFinds, InUseAre DEF NameOf
  <2> QED BY <1>2, <2>1 DEF Openable
<1> HIDE DEF i, h
<1>7. CASE job.command = "-cp"
  <2>1. PICK e \in InUse(disk) : NameOf(disk, e) = job.name
                                 /\ HeaderOf(disk, e).length = Len(job.data)
    BY <1>1, <1>3, <1>7 DEF Progress, Created
  <2>2. i = e
    BY <1>2, <2>1, FindIndexOfName DEF i
  <2>3. i # -1
    BY <2>1, <2>2, InUseAre
  <2>4. job' = [command |-> "-cp", name |-> job.name, data |-> job.data, step |-> "transfer",
                hdr |-> h, amountRead |-> 0, seekPosition |-> 0]
    BY <1>1, <1>7, <2>3
  <2>5. job \in CopyJobs
    BY <1>1, <1>2, <1>7, JobIs
  <2>6. Len(job.data) \in Nat
    BY <2>5, FilesAreBytes DEF CopyJobs
  <2>7. Session' = Session
    <3>1. SessionOf(job') = SessionOf(job)
      BY <1>1, <1>7, <2>4, SessionOfJob
    <3> QED BY <3>1 DEF Session
  <2>8. CopiedSoFar(disk, job')
    <3>1. IsOpen(disk, job', e)
      BY <2>1, <2>2, <2>4 DEF IsOpen, h
    <3>2. job'.hdr.length = Len(job'.data)
      BY <2>1, <2>2, <2>4 DEF h
    <3>3. /\ job'.seekPosition = job'.amountRead /\ job'.amountRead <= Len(job'.data)
          /\ job'.amountRead = 0
      BY <2>4, <2>6
    <3>4. \A k \in 1..job'.amountRead : BytesOf(disk, e)[k] = job'.data[k]
      BY <3>3
    <3> QED BY <3>1, <3>2, <3>3, <3>4 DEF CopiedSoFar
  <2>9. ProgressInv'
    <3>1. Progress(disk, job', output')
      BY <2>4, <2>8 DEF Progress
    <3> QED BY <1>2, <3>1 DEF ProgressInv
  <2>10. outcome' = outcome
    BY <1>1, <2>3
  <2> QED BY <1>1, <1>4, <2>7, <2>9, <2>10, Zenon DEF AbstractStep
<1>8. CASE job.command = "-p" /\ i # -1
  <2>1. job' = [command |-> "-p", name |-> job.name, data |-> <<>>, step |-> "transfer",
                hdr |-> h, amountRead |-> 0, seekPosition |-> 0]
    BY <1>1, <1>8
  <2>2. Session' = Session
    <3>1. SessionOf(job') = SessionOf(job)
      BY <1>8, <2>1, SessionOfJob
    <3> QED BY <3>1 DEF Session
  <2>3. PrintedSoFar(disk, job', output')
    <3>1. i \in InUse(disk) /\ IsOpen(disk, job', i)
      BY <1>6, <1>8, <2>1 DEF IsOpen, h
    <3>2. h.length \in Nat
      BY <1>6, <1>8, HeadersAre
    <3>3. job'.seekPosition = 0 /\ job'.seekPosition <= job'.hdr.length
      BY <2>1, <3>2
    <3>4. output' = SubSeq(BytesOf(disk, i), 1, job'.seekPosition)
      <4>1. output' = <<>>
        BY <1>1, <1>3, <1>8 DEF Progress
      <4>2. BytesOf(disk, i) \in Seq(Bytes)
        BY <1>2, <1>6, <1>8, ReadAll DEF BytesOf, h
      <4>3. SubSeq(BytesOf(disk, i), 1, 0) = <<>>
        BY <4>2
      <4> QED BY <3>3, <4>1, <4>3
    <3> QED BY <3>1, <3>3, <3>4 DEF PrintedSoFar
  <2>4. ProgressInv'
    <3>1. Progress(disk, job', output')
      BY <2>1, <2>3 DEF Progress
    <3> QED BY <1>2, <3>1 DEF ProgressInv
  <2>5. outcome' = outcome
    BY <1>1, <1>8
  <2> QED BY <1>1, <1>4, <2>2, <2>4, <2>5, Zenon DEF AbstractStep
<1>9. CASE job.command = "-p" /\ i = -1
  <2>1. job' = NoJob /\ outcome' = "failed"
    BY <1>1, <1>9
  <2>2. Session = [command |-> "-p", name |-> job.name] /\ Session' = [command |-> "none"]
    BY <1>9, <2>1, SessionOfJob DEF Session
  <2>3. ProgressInv'
    BY <2>1 DEF ProgressInv, Progress, NoJob
  <2> HIDE DEF Files, Session
  <2>4. A!End("failed")
    BY <1>1, <1>4, <2>1, <2>2 DEF A!End, A!NoSession
  <2>5. Session.command = "-p" /\ Session.name = job.name /\ Session.name \notin DOMAIN Files
    BY <1>4, <1>5, <1>9, <2>2
  <2>6. A!PrintOut
    BY <2>4, <2>5, Zenon DEF A!PrintOut
  <2> QED BY <2>3, <2>6, Zenon DEF AbstractStep, A!Next
<1> QED BY <1>1, <1>7, <1>8, <1>9

LEMMA RemoveIsAbstract ==
  ASSUME FsInv, FsInv', Remove
  PROVE  AbstractStep /\ ProgressInv'
<1> DEFINE i == FindIndex(DirectoryOn(disk), job.name)
           D == Done(disk', pending')
<1>1. /\ pending = <<>> /\ job.command \in {"-r", "-t"} /\ job.step = "remove" /\ sound
      /\ disk' = disk /\ sound' = sound /\ output' = output /\ job' = NoJob
      /\ FormattedDisk(disk) /\ Openable(disk) /\ Agrees(disk)
      /\ i = -1 => pending' = <<>> /\ outcome' = "failed"
      /\ i # -1 => Removes(disk, pending', job.name, i) /\ outcome' = "done"
  BY RemoveCases
<1>2. /\ Files = FilesOn(disk) /\ Files' = FilesOn(D) /\ Done(disk, pending) = disk
      /\ Agrees(D)
  BY <1>1, FilesAre, AtRest, DoneIsSoundThen
<1>3. /\ Typed(disk) /\ pending' \in Seq(SectorWrites)
  BY DEF FsInv, FsTypes
<1>4. i = -1 <=> job.name \notin DOMAIN FilesOn(disk)
  BY <1>1, FilesOnAre
<1>5. i = -1 => D = disk
  BY <1>1, StaysAtRest
<1>6. /\ Session.command = job.command /\ Session.name = job.name
      /\ job.command = "-t" => Session.step = "remove"
      /\ Session' = [command |-> "none"]
  <2>1. Session' = [command |-> "none"]
    BY <1>1, SessionOfJob DEF Session
  <2>2. CASE job.command = "-r"
    <3>1. Session = [command |-> "-r", name |-> job.name]
      BY <2>2, SessionOfJob DEF Session
    <3> QED BY <2>1, <2>2, <3>1
  <2>3. CASE job.command = "-t"
    <3>1. Session = [command |-> "-t", name |-> job.name, step |-> "remove"]
      BY <1>1, <2>3, SessionOfJob DEF Session
    <3> QED BY <2>1, <2>3, <3>1
  <2> QED BY <1>1, <2>2, <2>3
<1>7. ProgressInv'
  BY <1>1 DEF ProgressInv, Progress, NoJob
<1>8. D = Done(disk, pending') /\ D \in Moments(disk, pending')
  BY <1>1, <1>3, MomentsAre
<1> HIDE DEF i, D, Files, Session
<1>9. A!Remove
  <2>1. CASE i = -1
    <3>1. Session.name \notin DOMAIN Files
      BY <1>2, <1>4, <1>6, <2>1
    <3>2. A!End("failed")
      BY <1>1, <1>2, <1>5, <1>6, <2>1 DEF A!End, A!NoSession
    <3> QED BY <3>1, <3>2, Zenon DEF A!Remove
  <2>2. CASE i # -1
    <3>1. Removes(disk, pending', job.name, i) /\ outcome' = "done"
      BY <1>1, <2>2
    <3>2. /\ Stage(disk, D, i) /\ i \in InUse(disk) /\ i \notin InUse(D)
          /\ NameOf(disk, i) = job.name
      BY <1>8, <3>1 DEF Removes, NameOf
    <3>3. FilesOn(D) = Restrict(FilesOn(disk), DOMAIN FilesOn(disk) \ {NameOf(disk, i)})
      BY <1>1, <1>2, <3>2, FilesWithOneLess
    <3>4. Files' = A!Restrict(Files, DOMAIN Files \ {Session.name})
      BY <1>2, <1>6, <3>2, <3>3, AbstractOperators, Zenon
    <3>5. Session.name \in DOMAIN Files
      BY <1>2, <1>4, <1>6, <2>2
    <3> QED BY <1>1, <1>6, <3>1, <3>4, <3>5, Zenon DEF A!Remove, A!NoSession
  <2> QED BY <2>1, <2>2
<1>10. A!RemoveCommand \/ A!PerformanceTest
  <2>1. CASE job.command = "-r"
    BY <1>6, <1>9, <2>1, Zenon DEF A!RemoveCommand
  <2>2. CASE job.command = "-t"
    BY <1>6, <1>9, <2>2, Zenon DEF A!PerformanceTest
  <2> QED BY <1>1, <2>1, <2>2
<1> QED BY <1>7, <1>10, Zenon DEF AbstractStep, A!Next

\* What a command that has its file open knows about it.
LEMMA OpenFileIs ==
  ASSUME FsInv, sound, pending = <<>>, NEW e \in InUse(disk), NEW j, IsOpen(disk, j, e)
  PROVE  LET B == BytesOf(disk, e)
         IN  /\ j.hdr \in Headers /\ j.hdr.length \in Nat
             /\ B = ReadAt(disk, j.hdr, j.hdr.length, 0)
             /\ B \in Seq(Bytes) /\ Len(B) = j.hdr.length /\ DOMAIN B = 1..j.hdr.length
             /\ \A k \in 1..j.hdr.length : B[k] = ByteAt(disk, j.hdr, k - 1)
             /\ j.name \in DOMAIN Files /\ Files[j.name] = B
<1>1. /\ Typed(disk) /\ FormattedDisk(disk) /\ Openable(disk) /\ Agrees(disk)
      /\ Done(disk, pending) = disk
  BY AtRest DEF FsInv, FsTypes
<1>2. Files = FilesOn(disk)
  <2>1. Settled = disk
    BY <1>1, SettledIsDone DEF FsInv, FsTypes
  <2> QED BY <2>1 DEF Files
<1>3. /\ HeaderOf(disk, e) \in Headers /\ HeaderOf(disk, e) = j.hdr /\ NameOf(disk, e) = j.name
  BY <1>1 DEF Openable, IsOpen
<1>4. BytesOf(disk, e) = ReadAt(disk, j.hdr, j.hdr.length, 0)
  BY <1>3, Zenon DEF BytesOf
<1>5. j.hdr \in Headers
  BY <1>3, Zenon
<1>6. /\ j.name \in DOMAIN FilesOn(disk) /\ FilesOn(disk)[j.name] = BytesOf(disk, e)
  <2>1. /\ DOMAIN FilesOn(disk) = {NameOf(disk, i) : i \in InUse(disk)}
        /\ FilesOn(disk)[NameOf(disk, e)] = BytesOf(disk, e)
    BY <1>1, FilesOnAre
  <2>2. NameOf(disk, e) \in DOMAIN FilesOn(disk)
    BY <2>1
  <2> QED BY <1>3, <2>1, <2>2, Zenon
<1>7. /\ ReadAt(disk, j.hdr, j.hdr.length, 0) \in Seq(Bytes)
      /\ Len(ReadAt(disk, j.hdr, j.hdr.length, 0)) = j.hdr.length
      /\ DOMAIN ReadAt(disk, j.hdr, j.hdr.length, 0) = 1..j.hdr.length
      /\ \A k \in 1..j.hdr.length :
           ReadAt(disk, j.hdr, j.hdr.length, 0)[k] = ByteAt(disk, j.hdr, k - 1)
  BY <1>1, <1>5, ReadAll
<1>8. j.hdr.length \in Nat
  BY <1>5, HeadersAre
<1> QED BY <1>2, <1>4, <1>5, <1>6, <1>7, <1>8, Zenon

\* What ReadAt returns before the end of the file, and at its end.
LEMMA ReadChunk ==
  ASSUME NEW dsk, NEW h \in Headers, NEW n \in Nat, n > 0, NEW position \in Nat,
         position <= h.length
  PROVE  /\ ReadAt(dsk, h, n, position) = <<>> <=> position = h.length
         /\ position < h.length =>
              \E m \in Nat : /\ m > 0 /\ position + m <= h.length
                             /\ ReadAt(dsk, h, n, position) =
                                  [k \in 1..m |-> ByteAt(dsk, h, position + k - 1)]
<1> DEFINE m == IF position + n > h.length THEN h.length - position ELSE n
<1>1. h.length \in Nat
  BY HeadersAre
<1>2. CASE position = h.length
  <2>1. position >= h.length /\ ~ (position < h.length)
    BY <1>1, <1>2
  <2>2. ReadAt(dsk, h, n, position) = <<>>
    BY <2>1 DEF ReadAt
  <2> QED BY <1>2, <2>1, <2>2
<1>3. CASE position < h.length
  <2>1. ~ (n <= 0 \/ position >= h.length)
    BY <1>1, <1>3
  <2>2. ReadAt(dsk, h, n, position) = [k \in 1..m |-> ByteAt(dsk, h, position + k - 1)]
    BY <2>1, Zenon DEF ReadAt
  <2>3. m \in Nat /\ m > 0 /\ position + m <= h.length
    BY <1>1, <1>3
  <2> HIDE DEF m
  <2>4. [k \in 1..m |-> ByteAt(dsk, h, position + k - 1)] # <<>>
    <3>1. 1 \in 1..m
      BY <2>3
    <3> QED BY <3>1
  <2>5. position # h.length
    BY <1>1, <1>3
  <2> QED BY <2>2, <2>3, <2>4, <2>5
<1> QED BY <1>1, <1>2, <1>3

LEMMA FinishIsAbstract ==
  ASSUME FsInv, FsInv', ProgressInv, sound, Finish
  PROVE  AbstractStep /\ ProgressInv'
<1>1. /\ pending = <<>> /\ disk' = disk /\ pending' = <<>> /\ sound' = sound
      /\ output' = output /\ job' = NoJob /\ outcome' = "done"
      /\ \/ job.command = "-cp" /\ job.step = "transfer" /\ job.amountRead = Len(job.data)
         \/ /\ job.command = "-p" /\ job.step = "transfer"
            /\ ReadAt(disk, job.hdr, TransferSize, job.seekPosition) = <<>>
         \/ job.command = "-f"
  BY DEF Finish, At
<1>2. /\ job \in Jobs /\ Done(disk, pending) = disk /\ Done(disk', pending') = disk
  BY <1>1, AtRest, StaysAtRest DEF FsInv, FsTypes
<1>3. Files' = Files
  BY <1>1, <1>2, SameEnd
<1>4. Session' = [command |-> "none"]
  BY <1>1, SessionOfJob DEF Session
<1>5. A!End("done")
  BY <1>1, <1>3, <1>4 DEF A!End, A!NoSession
<1>6. ProgressInv'
  BY <1>1 DEF ProgressInv, Progress, NoJob
<1>7. Progress(disk, job, output)
  BY <1>2 DEF ProgressInv
<1>8. CASE job.command = "-cp" /\ job.step = "transfer" /\ job.amountRead = Len(job.data)
  <2>1. /\ job.hdr.length = Len(job.data)
        /\ \E e \in InUse(disk) : /\ IsOpen(disk, job, e)
                                  /\ \A k \in 1..job.amountRead : BytesOf(disk, e)[k] = job.data[k]
    BY <1>7, <1>8 DEF Progress, CopiedSoFar
  <2>2. PICK e \in InUse(disk) : /\ IsOpen(disk, job, e)
                                 /\ \A k \in 1..job.amountRead : BytesOf(disk, e)[k] = job.data[k]
    BY <2>1
  <2> DEFINE B == BytesOf(disk, e)
  <2>3. /\ B \in Seq(Bytes) /\ Len(B) = job.hdr.length
        /\ job.name \in DOMAIN Files /\ Files[job.name] = B
    BY <1>1, <2>2, OpenFileIs
  <2> HIDE DEF B
  <2>4. job.data \in Seq(Bytes) /\ Len(job.data) \in Nat
    <3>1. job \in CopyTransfers
      BY <1>2, <1>8, JobIs
    <3> QED BY <3>1, FilesAreBytes DEF CopyTransfers
  <2>5. B = job.data
    <3>1. Len(B) = Len(job.data)
      BY <2>1, <2>3, Zenon
    <3>2. \A k \in 1..Len(job.data) : B[k] = job.data[k]
      BY <1>8, <2>2, Zenon DEF B
    <3> DEFINE d == job.data
    <3>3. B \in Seq(Bytes) /\ d \in Seq(Bytes) /\ Len(B) = Len(d) /\ \A k \in 1..Len(d) : B[k] = d[k]
      BY <2>3, <2>4, <3>1, <3>2, Zenon
    <3> HIDE DEF d
    <3>4. B = d
      BY <3>3
    <3> QED BY <3>4 DEF d
  <2>6. /\ Session.command = "-cp" /\ Session.step = "write"
        /\ Session.name = job.name /\ Session.data = job.data
    <3>1. Session = [command |-> "-cp", name |-> job.name, data |-> job.data, step |-> "write"]
      BY <1>8, SessionOfJob DEF Session
    <3> QED BY <3>1
  <2> HIDE DEF Session, Files
  <2>7. A!Copy
    BY <1>5, <2>3, <2>5, <2>6, Zenon DEF A!Copy
  <2> QED BY <1>6, <2>7, Zenon DEF AbstractStep, A!Next
<1>9. CASE /\ job.command = "-p" /\ job.step = "transfer"
           /\ ReadAt(disk, job.hdr, TransferSize, job.seekPosition) = <<>>
  <2>1. /\ job.seekPosition <= job.hdr.length
        /\ \E e \in InUse(disk) : /\ IsOpen(disk, job, e)
                                  /\ output = SubSeq(BytesOf(disk, e), 1, job.seekPosition)
    BY <1>7, <1>9 DEF Progress, PrintedSoFar
  <2>2. PICK e \in InUse(disk) : /\ IsOpen(disk, job, e)
                                 /\ output = SubSeq(BytesOf(disk, e), 1, job.seekPosition)
    BY <2>1
  <2> DEFINE B == BytesOf(disk, e)
  <2>3. /\ B \in Seq(Bytes) /\ Len(B) = job.hdr.length /\ job.hdr \in Headers
        /\ job.name \in DOMAIN Files /\ Files[job.name] = B
    BY <1>1, <2>2, OpenFileIs
  <2> HIDE DEF B
  <2>4. job.seekPosition \in Nat /\ TransferSize \in Nat /\ TransferSize > 0
    <3>1. job \in PrintTransfers
      BY <1>2, <1>9, JobIs
    <3> QED BY <3>1, FileSystemAssumption DEF PrintTransfers
  <2>5. job.seekPosition = job.hdr.length
    BY <1>9, <2>1, <2>3, <2>4, ReadChunk
  <2>6. output = SubSeq(B, 1, Len(B))
    BY <2>2, <2>3, <2>5, Zenon DEF B
  <2>7. SubSeq(B, 1, Len(B)) = B
    BY <2>3
  <2>8. Session.command = "-p" /\ Session.name = job.name
    <3>1. Session = [command |-> "-p", name |-> job.name]
      BY <1>9, SessionOfJob DEF Session
    <3> QED BY <3>1
  <2> HIDE DEF Session, Files
  <2>9. A!PrintOut
    BY <1>5, <2>3, <2>6, <2>7, <2>8, Zenon DEF A!PrintOut
  <2> QED BY <1>6, <2>9, Zenon DEF AbstractStep, A!Next
<1>10. CASE job.command = "-f"
  <2>1. Session.command = "-f"
    <3>1. Session = [command |-> "-f"]
      BY <1>10, SessionOfJob DEF Session
    <3> QED BY <3>1
  <2> HIDE DEF Session, Files
  <2>2. A!FormatEnds
    BY <1>5, <2>1, Zenon DEF A!FormatEnds
  <2> QED BY <1>6, <2>2, Zenon DEF AbstractStep, A!Next
<1> QED BY <1>1, <1>8, <1>9, <1>10

\* The next bytes after the first.
LEMMA NextBytes ==
  ASSUME NEW S, NEW B \in Seq(S), NEW p \in Nat, NEW m \in Nat, p + m <= Len(B)
  PROVE  /\ SubSeq(B, 1, p) \o [k \in 1..m |-> B[p + k]] = SubSeq(B, 1, p + m)
         /\ Len(SubSeq(B, 1, p)) = p
<1> DEFINE one == SubSeq(B, 1, p)
           two == [k \in 1..m |-> B[p + k]]
           all == SubSeq(B, 1, p + m)
<1>1. /\ one \in Seq(S) /\ Len(one) = p /\ \A k \in 1..p : one[k] = B[k]
      /\ all \in Seq(S) /\ Len(all) = p + m /\ \A k \in 1..(p + m) : all[k] = B[k]
  BY DEF one, all
<1>2. two \in Seq(S) /\ Len(two) = m /\ \A k \in 1..m : two[k] = B[p + k]
  <2>1. \A k \in 1..m : B[p + k] \in S
    OBVIOUS
  <2> QED BY <2>1
<1> HIDE DEF one, two, all
<1>3. one \o two \in Seq(S) /\ Len(one \o two) = p + m
  BY <1>1, <1>2
<1>4. \A k \in 1..(p + m) : (one \o two)[k] = B[k]
  <2> TAKE k \in 1..(p + m)
  <2>1. CASE k <= p
    BY <1>1, <1>2, <2>1
  <2>2. CASE k > p
    <3>1. k - p \in 1..m /\ p + (k - p) = k
      BY <2>2
    <3>2. (one \o two)[k] = two[k - Len(one)]
      <4>1. one \in Seq(S) /\ two \in Seq(S) /\ k \in Len(one) + 1 .. Len(one) + Len(two)
        BY <1>1, <1>2, <2>2
      <4> QED BY <4>1
    <3>3. two[k - p] = B[p + (k - p)]
      BY <1>2, <3>1
    <3>4. Len(one) = p /\ p + (k - p) = k
      BY <1>1, <3>1
    <3>5. B[p + (k - p)] = B[k]
      BY <3>4, Zenon
    <3>6. two[k - Len(one)] = two[k - p]
      BY <3>4, Zenon
    <3> QED BY <3>2, <3>3, <3>5, <3>6, Zenon
  <2>3. k <= p \/ k > p
    OBVIOUS
  <2> QED BY <2>1, <2>2, <2>3, Zenon
<1>5. one \o two = all
  <2> DEFINE both == one \o two
  <2>1. /\ both \in Seq(S) /\ Len(both) = Len(all)
        /\ \A k \in 1..Len(all) : both[k] = all[k]
    BY <1>1, <1>3, <1>4
  <2> HIDE DEF both
  <2>2. both = all
    BY <1>1, <2>1
  <2> QED BY <2>2 DEF both
<1> QED BY <1>1, <1>5 DEF one, two, all

LEMMA PrintChunkIsAbstract ==
  ASSUME FsInv, FsInv', ProgressInv, sound, PrintChunk
  PROVE  AbstractStep /\ ProgressInv'
<1> DEFINE chunk == ReadAt(disk, job.hdr, TransferSize, job.seekPosition)
           p == job.seekPosition
<1>1. /\ pending = <<>> /\ job.command = "-p" /\ job.step = "transfer" /\ chunk # <<>>
      /\ disk' = disk /\ pending' = <<>> /\ sound' = sound /\ output' = output \o chunk
      /\ job' = [job EXCEPT !.seekPosition = @ + Len(chunk)] /\ outcome' = outcome
  BY DEF PrintChunk, At
<1>2. /\ job \in Jobs /\ Done(disk, pending) = disk /\ Done(disk', pending') = disk
      /\ Typed(disk)
  BY <1>1, AtRest, StaysAtRest DEF FsInv, FsTypes
<1>3. Files' = Files
  BY <1>1, <1>2, SameEnd
<1>4. /\ p <= job.hdr.length
      /\ \E e \in InUse(disk) : IsOpen(disk, job, e) /\ output = SubSeq(BytesOf(disk, e), 1, p)
  BY <1>1, <1>2 DEF ProgressInv, Progress, PrintedSoFar
<1>5. PICK e \in InUse(disk) : IsOpen(disk, job, e) /\ output = SubSeq(BytesOf(disk, e), 1, p)
  BY <1>4
<1> DEFINE B == BytesOf(disk, e)
<1>6. /\ B \in Seq(Bytes) /\ Len(B) = job.hdr.length /\ job.hdr \in Headers
      /\ \A k \in 1..job.hdr.length : B[k] = ByteAt(disk, job.hdr, k - 1)
      /\ job.name \in DOMAIN Files /\ Files[job.name] = B /\ job.hdr.length \in Nat
  BY <1>1, <1>5, OpenFileIs
<1>7. job \in PrintTransfers
  BY <1>1, <1>2, JobIs
<1>8. p \in Nat /\ TransferSize \in Nat /\ TransferSize > 0
  BY <1>7, FileSystemAssumption DEF PrintTransfers
<1> HIDE DEF B, chunk, p
<1>9. p # job.hdr.length /\ (p < job.hdr.length =>
        \E m \in Nat : /\ m > 0 /\ p + m <= job.hdr.length
                       /\ chunk = [k \in 1..m |-> ByteAt(disk, job.hdr, p + k - 1)])
  <2> DEFINE h == job.hdr
             r == ReadAt(disk, h, TransferSize, p)
  <2>1. h \in Headers /\ p <= h.length
    BY <1>4, <1>6
  <2>2. r = chunk
    BY DEF chunk, p
  <2> HIDE DEF h, r
  <2>3. /\ r = <<>> <=> p = h.length
        /\ p < h.length => \E m \in Nat : /\ m > 0 /\ p + m <= h.length
                                          /\ r = [k \in 1..m |-> ByteAt(disk, h, p + k - 1)]
    BY <1>8, <2>1, ReadChunk DEF r
  <2> QED BY <1>1, <2>2, <2>3 DEF h
<1>10. PICK m \in Nat : /\ m > 0 /\ p + m <= job.hdr.length
                        /\ chunk = [k \in 1..m |-> ByteAt(disk, job.hdr, p + k - 1)]
  <2>1. p < job.hdr.length
    BY <1>4, <1>6, <1>8, <1>9
  <2> QED BY <1>9, <2>1
<1>11. chunk = [k \in 1..m |-> B[p + k]]
  <2>1. ASSUME NEW k \in 1..m
        PROVE  B[p + k] = ByteAt(disk, job.hdr, p + k - 1)
    <3>1. p + k \in 1..job.hdr.length
      BY <1>6, <1>8, <1>10
    <3>2. (p + k) - 1 = p + k - 1
      BY <1>8
    <3> QED BY <1>6, <3>1, <3>2
  <2> QED BY <1>10, <2>1
<1>12. Len(chunk) = m
  BY <1>11
<1>13. p + m <= Len(B)
  BY <1>6, <1>10
<1>14. output' = SubSeq(B, 1, p + m) /\ Len(output) = p
  <2>1. SubSeq(B, 1, p) \o [k \in 1..m |-> B[p + k]] = SubSeq(B, 1, p + m)
        /\ Len(SubSeq(B, 1, p)) = p
    BY <1>6, <1>8, <1>13, NextBytes
  <2>2. output = SubSeq(B, 1, p)
    BY <1>5 DEF B
  <2> QED BY <1>1, <1>11, <2>1, <2>2, Zenon
<1>15. /\ job'.command = "-p" /\ job'.step = "transfer" /\ job'.name = job.name
       /\ job'.hdr = job.hdr /\ job'.seekPosition = p + m
  <2>1. job' = [job EXCEPT !.seekPosition = p + Len(chunk)]
    BY <1>1, <1>7 DEF PrintTransfers, p
  <2>2. job' = [job EXCEPT !.seekPosition = p + m]
    BY <1>12, <2>1, Zenon
  <2> QED BY <1>1, <1>7, <2>2 DEF PrintTransfers
<1>16. ProgressInv'
  <2>1. IsOpen(disk, job', e)
    BY <1>5, <1>15 DEF IsOpen
  <2>2. output' = SubSeq(BytesOf(disk, e), 1, job'.seekPosition)
    BY <1>14, <1>15, Zenon DEF B
  <2>3. job'.seekPosition <= job'.hdr.length
    BY <1>10, <1>15
  <2>4. PrintedSoFar(disk, job', output')
    BY <2>1, <2>2, <2>3 DEF PrintedSoFar
  <2> QED BY <1>2, <1>15, <2>4 DEF ProgressInv, Progress
<1>17. Session' = Session /\ Session.command = "-p" /\ Session.name = job.name
  <2>1. SessionOf(job) = [command |-> "-p", name |-> job.name]
    BY <1>1, SessionOfJob
  <2>2. SessionOf(job') = [command |-> "-p", name |-> job'.name]
    BY <1>15, SessionOfJob
  <2> QED BY <1>15, <2>1, <2>2 DEF Session
<1> HIDE DEF Session, Files
<1>18. A!PrintOut
  <2>1. p + m \in p + 1 .. Len(B) /\ p < Len(B) /\ Len(B) = Len(B)
    <3> DEFINE l == Len(B)
    <3>1. l \in Nat /\ p + m <= l
      BY <1>6, <1>13
    <3> HIDE DEF l
    <3>2. p + m \in p + 1 .. l /\ p < l
      BY <1>8, <1>10, <3>1
    <3> QED BY <3>2 DEF l
  <2>2. Len(output) < Len(Files[Session.name])
    BY <1>6, <1>14, <1>17, <2>1, Zenon
  <2>3. \E k \in Len(output) + 1 .. Len(Files[Session.name]) :
          output' = SubSeq(Files[Session.name], 1, k)
    BY <1>6, <1>14, <1>17, <2>1, Zenon
  <2>4. Session.name \in DOMAIN Files
    BY <1>6, <1>17, Zenon
  <2> QED BY <1>1, <1>3, <1>17, <2>2, <2>3, <2>4, Zenon DEF A!PrintOut
<1> QED BY <1>16, <1>18, Zenon DEF AbstractStep, A!Next

\* A piece of a sequence.
LEMMA PieceOf ==
  ASSUME NEW S, NEW s \in Seq(S), NEW a \in Nat, NEW b \in Nat, a < b, b <= Len(s)
  PROVE  /\ SubSeq(s, a + 1, b) \in Seq(S) /\ SubSeq(s, a + 1, b) # <<>>
         /\ Len(SubSeq(s, a + 1, b)) = b - a
         /\ \A k \in 1 .. b - a : SubSeq(s, a + 1, b)[k] = s[a + k]
<1>1. \A k \in 1 .. b - a : (a + 1) + k - 1 = a + k
  OBVIOUS
<1>2. /\ SubSeq(s, a + 1, b) \in Seq(S)
      /\ Len(SubSeq(s, a + 1, b)) = b - a
      /\ \A k \in 1 .. b - a : SubSeq(s, a + 1, b)[k] = s[(a + 1) + k - 1]
  OBVIOUS
<1>3. SubSeq(s, a + 1, b) # <<>>
  BY <1>2
<1>4. \A k \in 1 .. b - a : SubSeq(s, a + 1, b)[k] = s[a + k]
  BY <1>1, <1>2
<1> QED BY <1>2, <1>3, <1>4

\* The n bytes of the data after those that are read.
IsChunk(chunk, data, read, n) ==
  /\ n \in Nat /\ n > 0 /\ read + n <= Len(data)
  /\ chunk \in Seq(Bytes) /\ chunk # <<>> /\ Len(chunk) = n
  /\ \A k \in 1..n : chunk[k] = data[read + k]

\* The chunk that Copy writes next.
LEMMA NextChunk ==
  ASSUME NEW data \in Seq(Bytes), NEW read \in Nat, read < Len(data),
         NEW last, last = Min({read + TransferSize, Len(data)}),
         NEW chunk, chunk = SubSeq(data, read + 1, last)
  PROVE  last \in Nat /\ IsChunk(chunk, data, read, last - read)
<1> DEFINE S == {read + TransferSize, Len(data)}
           l == Len(data)
<1>1. l \in Nat /\ TransferSize \in Nat /\ TransferSize > 0 /\ read < l
  BY FileSystemAssumption
<1>2. S \in SUBSET Nat /\ S # {}
  BY <1>1
<1>3. Min(S) \in S /\ Min(S) <= l
  BY <1>2, MinIsFirst
<1>4. last \in Nat /\ last > read /\ last <= l
  BY <1>1, <1>3
<1>5. /\ chunk \in Seq(Bytes) /\ chunk # <<>> /\ Len(chunk) = last - read
      /\ \A k \in 1 .. last - read : chunk[k] = data[read + k]
  <2> HIDE DEF S, l
  <2>1. last <= Len(data)
    BY <1>4 DEF l
  <2>2. /\ SubSeq(data, read + 1, last) \in Seq(Bytes) /\ SubSeq(data, read + 1, last) # <<>>
        /\ Len(SubSeq(data, read + 1, last)) = last - read
        /\ \A k \in 1 .. last - read : SubSeq(data, read + 1, last)[k] = data[read + k]
    BY <1>4, <2>1, PieceOf
  <2> QED BY <2>2, Zenon
<1>6. last - read \in Nat /\ last - read > 0 /\ read + (last - read) <= Len(data)
  BY <1>1, <1>4
<1> HIDE DEF S, l
<1> QED BY <1>4, <1>5, <1>6, Zenon DEF IsChunk

\* What writing it changes on the disk: those bytes of the file.
Copies(dsk, D, e, data, read, n) ==
  /\ Stage(dsk, D, e) /\ Agrees(D) /\ e \in InUse(D)
  /\ HeaderOf(D, e) = HeaderOf(dsk, e) /\ NameOf(D, e) = NameOf(dsk, e)
  /\ BytesOf(D, e) = [k \in DOMAIN BytesOf(dsk, e) |->
                        IF k \in read + 1 .. read + n THEN data[k] ELSE BytesOf(dsk, e)[k]]

LEMMA CopyChunkWrites ==
  ASSUME NEW dsk, Typed(dsk), FormattedDisk(dsk), Openable(dsk), Agrees(dsk),
         NEW e \in InUse(dsk), NEW h, h = HeaderOf(dsk, e),
         NEW data, h.length = Len(data), NEW read \in Nat,
         NEW chunk, NEW n, IsChunk(chunk, data, read, n),
         NEW writes, writes = WriteAt(dsk, h, chunk, read),
         NEW D, D = Done(dsk, writes), Typed(D)
  PROVE  Clamp(h, chunk, read) = chunk /\ Copies(dsk, D, e, data, read, n)
<1> DEFINE l == h.length
<1>0. /\ n \in Nat /\ read + n <= l
      /\ chunk \in Seq(Bytes) /\ chunk # <<>> /\ Len(chunk) = n
      /\ \A k \in 1..n : chunk[k] = data[read + k]
  BY Zenon DEF IsChunk
<1>1. h \in Headers /\ l \in Nat /\ read + n <= l
  BY <1>0, HeadersAre DEF Openable
<1>2. D = Done(dsk, WriteAt(dsk, h, chunk, read)) /\ read + Len(chunk) <= h.length
  BY <1>0, Zenon
<1>3. Clamp(h, chunk, read) = chunk /\ Overwrites(dsk, D, h, chunk, read)
  BY <1>0, <1>1, <1>2, WriteAtWrites
<1>4. \A k \in Nat : k < l => ByteAt(D, h, k) = IF k \in read .. read + n - 1
                                                THEN chunk[k - read + 1] ELSE ByteAt(dsk, h, k)
  BY <1>0, <1>3, Zenon DEF Overwrites
<1>5. /\ writes \in Seq(SectorWrites)
      /\ \A i \in 1..Len(writes) : /\ writes[i].sector \in Range(h.blocks)
                                   /\ writes[i].content \in DataSectors
  BY <1>0, <1>1, WriteAtBlocks
<1>6. /\ \A B \in Moments(dsk, writes) : Stage(dsk, B, e)
      /\ Agrees(D) /\ e \in InUse(D) /\ HeaderOf(D, e) = h
      /\ DirectoryOn(D) = DirectoryOn(dsk)
  BY <1>5, TransferDoes
<1>7. Stage(dsk, D, e)
  BY <1>5, <1>6, MomentsAre
<1>8. NameOf(D, e) = NameOf(dsk, e)
  BY <1>6 DEF NameOf
<1>9. /\ BytesOf(dsk, e) = ReadAt(dsk, h, h.length, 0) /\ BytesOf(D, e) = ReadAt(D, h, h.length, 0)
  BY <1>6, Zenon DEF BytesOf
<1> DEFINE B1 == ReadAt(dsk, h, h.length, 0)
           B2 == ReadAt(D, h, h.length, 0)
<1>10. /\ DOMAIN B1 = 1..l /\ \A k \in 1..l : B1[k] = ByteAt(dsk, h, k - 1)
       /\ DOMAIN B2 = 1..l /\ \A k \in 1..l : B2[k] = ByteAt(D, h, k - 1)
       /\ B2 = [k \in DOMAIN B2 |-> B2[k]]
  BY <1>1, ReadAll
<1> HIDE DEF B1, B2, l
<1>11. ASSUME NEW k \in 1..l
       PROVE  B2[k] = IF k \in read + 1 .. read + n THEN data[k] ELSE B1[k]
  <2> DEFINE q == k - 1
             i == q - read + 1
  <2>1. /\ q \in Nat /\ q < l
        /\ q \in read .. read + n - 1 <=> k \in read + 1 .. read + n
        /\ k \in read + 1 .. read + n => i \in 1..n /\ read + i = k
    BY <1>0, <1>1
  <2>2. B1[k] = ByteAt(dsk, h, q) /\ B2[k] = ByteAt(D, h, q)
    BY <1>10
  <2>3. ByteAt(D, h, q) = IF q \in read .. read + n - 1 THEN chunk[i] ELSE ByteAt(dsk, h, q)
    BY <1>4, <2>1
  <2> HIDE DEF i, q
  <2>4. k \in read + 1 .. read + n => chunk[i] = data[k]
    BY <1>0, <2>1, Zenon
  <2> QED BY <2>1, <2>2, <2>3, <2>4, Zenon
<1>12. B2 = [k \in 1..l |-> IF k \in read + 1 .. read + n THEN data[k] ELSE B1[k]]
  BY <1>10, <1>11, Zenon
<1>13. B2 = [k \in DOMAIN B1 |-> IF k \in read + 1 .. read + n THEN data[k] ELSE B1[k]]
  BY <1>10, <1>12, Zenon
<1> QED BY <1>3, <1>6, <1>7, <1>8, <1>9, <1>13, Zenon DEF B1, B2, Copies

LEMMA CopyChunkIsAbstract ==
  ASSUME FsInv, FsInv', ProgressInv, CopyChunk
  PROVE  AbstractStep /\ ProgressInv'
<1> DEFINE last == Min({job.amountRead + TransferSize, Len(job.data)})
           chunk == SubSeq(job.data, job.amountRead + 1, last)
           data == job.data
           read == job.amountRead
           n == last - read
           h == job.hdr
           D == Done(disk', pending')
<1>1. /\ pending = <<>> /\ job.command = "-cp" /\ job.step = "transfer"
      /\ disk' = disk /\ sound' = sound /\ output' = output /\ read < Len(data)
      /\ pending' = WriteAt(disk, h, chunk, job.seekPosition)
      /\ job' = [job EXCEPT !.amountRead = last,
                            !.seekPosition = @ + Len(Clamp(h, chunk, job.seekPosition))]
      /\ outcome' = outcome
  BY DEF CopyChunk, At
<1>2. /\ Typed(disk) /\ job \in Jobs /\ sound
  BY <1>1 DEF FsInv, FsTypes, JobInv
<1>3. FormattedDisk(disk) /\ Openable(disk) /\ Agrees(disk) /\ Done(disk, pending) = disk
  BY <1>1, <1>2, AtRest
<1>4. job \in CopyTransfers
  BY <1>1, <1>2, JobIs
<1>5. read \in Nat /\ data \in Seq(Bytes) /\ Len(data) \in Nat
  <2>1. job.amountRead \in Nat /\ job.data \in UnixFiles
    BY <1>4 DEF CopyTransfers
  <2> QED BY <2>1, FilesAreBytes
<1>6. /\ job.seekPosition = read /\ h.length = Len(data)
      /\ \E e \in InUse(disk) : /\ IsOpen(disk, job, e)
                                /\ \A k \in 1..read : BytesOf(disk, e)[k] = data[k]
  BY <1>1, <1>2, <1>3 DEF ProgressInv, Progress, CopiedSoFar
<1>7. PICK e \in InUse(disk) : /\ IsOpen(disk, job, e)
                               /\ \A k \in 1..read : BytesOf(disk, e)[k] = data[k]
  BY <1>6
<1>8. last \in Nat /\ IsChunk(chunk, data, read, last - read)
  <2>1. read < Len(data) /\ last = Min({read + TransferSize, Len(data)})
        /\ chunk = SubSeq(data, read + 1, last)
    BY <1>1
  <2> HIDE DEF last, chunk, data, read
  <2> QED BY <1>5, <2>1, NextChunk
<1> HIDE DEF last, chunk, data, read, n, h, D
<1>9. /\ IsChunk(chunk, data, read, n) /\ Len(chunk) = n
      /\ n \in Nat /\ n > 0 /\ read + n = last /\ last > read /\ last <= Len(data)
  <2> DEFINE l == Len(data)
  <2>1. IsChunk(chunk, data, read, n)
    BY <1>8 DEF n
  <2>2. n \in Nat /\ n > 0 /\ read + n <= l /\ Len(chunk) = n
    BY <2>1, Zenon DEF IsChunk
  <2> HIDE DEF l
  <2>3. read + n = last /\ last > read /\ last <= l
    BY <1>5, <1>8, <2>2 DEF n
  <2> QED BY <2>1, <2>2, <2>3, Zenon DEF l
<1>10. /\ h = HeaderOf(disk, e) /\ pending' = WriteAt(disk, h, chunk, read)
       /\ NameOf(disk, e) = job.name
  BY <1>1, <1>6, <1>7, Zenon DEF IsOpen, h
<1>11. D = Done(disk, pending') /\ Typed(D) /\ sound'
  <2>1. sound'
    BY <1>1, <1>2
  <2>2. Typed(D)
    BY <2>1, DoneIsSoundThen DEF D
  <2> QED BY <1>1, <2>1, <2>2 DEF D
<1>12. /\ Clamp(h, chunk, read) = chunk
       /\ Stage(disk, D, e) /\ Agrees(D) /\ e \in InUse(D)
       /\ HeaderOf(D, e) = h /\ NameOf(D, e) = NameOf(disk, e)
       /\ BytesOf(D, e) = [k \in DOMAIN BytesOf(disk, e) |->
                             IF k \in read + 1 .. read + n THEN data[k]
                             ELSE BytesOf(disk, e)[k]]
  <2>1. D = Done(disk, WriteAt(disk, h, chunk, read)) /\ Typed(D)
    BY <1>10, <1>11, Zenon
  <2>2. Clamp(h, chunk, read) = chunk /\ Copies(disk, D, e, data, read, n)
    BY <1>2, <1>3, <1>5, <1>6, <1>9, <1>10, <2>1, CopyChunkWrites
  <2> QED BY <1>10, <2>2, Zenon DEF Copies
<1> DEFINE B == BytesOf(disk, e)
<1>13. /\ DOMAIN B = 1..h.length /\ h.length \in Nat
       /\ job.name \in DOMAIN Files /\ Files[job.name] = B
  BY <1>1, <1>2, <1>7, OpenFileIs DEF h
<1>14. BytesOf(D, e) = [k \in DOMAIN B |-> IF k \in read + 1 .. last THEN data[k] ELSE B[k]]
  BY <1>9, <1>12, Zenon
<1> HIDE DEF B
<1>15. Files' = [Files EXCEPT ![job.name] = BytesOf(D, e)]
  <2>1. Files = FilesOn(disk) /\ Files' = FilesOn(D)
    BY <1>2, <1>3, <1>11, FilesAre DEF D
  <2>2. FilesOn(D) = [FilesOn(disk) EXCEPT ![NameOf(disk, e)] = BytesOf(D, e)]
    BY <1>3, <1>12, FilesWithOneChanged
  <2> QED BY <1>10, <2>1, <2>2, Zenon
<1>16. /\ job'.command = "-cp" /\ job'.step = "transfer" /\ job'.name = job.name
       /\ job'.data = data /\ job'.hdr = h /\ job'.amountRead = last /\ job'.seekPosition = last
  <2>1. job.seekPosition + Len(Clamp(h, chunk, job.seekPosition)) = last
    BY <1>6, <1>9, <1>12, Zenon
  <2>2. job' = [job EXCEPT !.amountRead = last,
                           !.seekPosition =
                              job.seekPosition + Len(Clamp(h, chunk, job.seekPosition))]
    <3> DEFINE c == Len(Clamp(h, chunk, job.seekPosition))
    <3> HIDE DEF c
    <3>1. job' = [job EXCEPT !.amountRead = last, !.seekPosition = @ + c]
      BY <1>1, Zenon DEF c
    <3>2. job' = [job EXCEPT !.amountRead = last, !.seekPosition = job.seekPosition + c]
      BY <1>4, <3>1 DEF CopyTransfers
    <3> QED BY <3>2, Zenon DEF c
  <2>3. job' = [job EXCEPT !.amountRead = last, !.seekPosition = last]
    BY <2>1, <2>2, Zenon
  <2> QED BY <1>1, <1>4, <2>3 DEF CopyTransfers, data, h
<1>17. ProgressInv'
  <2>1. IsOpen(D, job', e)
    BY <1>10, <1>12, <1>16, Zenon DEF IsOpen
  <2>2. \A k \in 1..last : BytesOf(D, e)[k] = data[k]
    <3> TAKE k \in 1..last
    <3> DEFINE l == Len(data)
    <3>1. /\ k \in DOMAIN B /\ (k \in read + 1 .. last \/ k \in 1..read)
      <4>1. last \in Nat /\ last <= l /\ h.length = l /\ l \in Nat
        BY <1>5, <1>6, <1>8, <1>9, Zenon
      <4> HIDE DEF l
      <4>2. k \in 1..h.length /\ (k \in read + 1 .. last \/ k \in 1..read)
        BY <1>5, <4>1
      <4> QED BY <1>13, <4>2, Zenon
    <3>2. BytesOf(D, e)[k] = IF k \in read + 1 .. last THEN data[k] ELSE B[k]
      BY <1>14, <3>1, Zenon
    <3>3. k \in 1..read => B[k] = data[k]
      BY <1>7, Zenon DEF B
    <3> QED BY <3>1, <3>2, <3>3, Zenon
  <2>3. \A k \in 1..job'.amountRead : BytesOf(D, e)[k] = job'.data[k]
    BY <1>16, <2>2, Zenon
  <2>4. /\ job'.seekPosition = job'.amountRead /\ job'.amountRead <= Len(job'.data)
        /\ job'.hdr.length = Len(job'.data)
    BY <1>6, <1>9, <1>16, Zenon
  <2>5. CopiedSoFar(D, job')
    BY <1>12, <2>1, <2>3, <2>4, Zenon DEF CopiedSoFar
  <2>6. Progress(D, job', output')
    BY <1>16, <2>5 DEF Progress
  <2> QED BY <2>6 DEF ProgressInv, D
<1>18. /\ Session' = Session /\ Session.command = "-cp" /\ Session.name = job.name
       /\ Session.data = data /\ Session.step = "write"
  <2>1. SessionOf(job) = [command |-> "-cp", name |-> job.name, data |-> data, step |-> "write"]
    BY <1>1, SessionOfJob DEF data
  <2>2. SessionOf(job') = [command |-> "-cp", name |-> job'.name, data |-> job'.data,
                           step |-> "write"]
    BY <1>16, SessionOfJob
  <2>3. SessionOf(job') = SessionOf(job)
    BY <1>16, <2>1, <2>2, Zenon
  <2> QED BY <2>1, <2>3 DEF Session
<1> HIDE DEF Session, Files
<1>19. A!Write
  <2>1. read + 1 \in 1..Len(Session.data) /\ last \in 1..Len(Session.data)
    <3> DEFINE l == Len(data)
    <3>1. last \in Nat /\ last > read /\ last <= l /\ l \in Nat
      BY <1>5, <1>8, <1>9, Zenon
    <3> HIDE DEF l
    <3>2. read + 1 \in 1..l /\ last \in 1..l
      BY <1>5, <3>1
    <3> QED BY <1>18, <3>2, Zenon DEF l
  <2>2. Files' = [Files EXCEPT ![Session.name] =
                    [k \in DOMAIN Files[Session.name] |->
                       IF k \in read + 1 .. last THEN Session.data[k] ELSE Files[Session.name][k]]]
    BY <1>13, <1>14, <1>15, <1>18, Zenon
  <2>3. \E first, l \in 1..Len(Session.data) :
          Files' = [Files EXCEPT ![Session.name] =
                      [k \in DOMAIN Files[Session.name] |->
                         IF k \in first .. l THEN Session.data[k] ELSE Files[Session.name][k]]]
    BY <2>1, <2>2, Zenon
  <2> QED BY <2>3 DEF A!Write
<1>20. A!Copy
  BY <1>1, <1>18, <1>19, Zenon DEF A!Copy
<1> QED BY <1>17, <1>20, Zenon DEF AbstractStep, A!Next

LEMMA NextIsAbstract ==
  ASSUME FsInv, FsInv', ProgressInv, [Next]_vars
  PROVE  AbstractStep /\ ProgressInv'
<1>1. CASE Format
  BY <1>1, FormatIsAbstract
<1>2. CASE ~ Format /\ ~ sound
  <2>1. ~ sound'
    <3>1. sound' = sound \/ sound' = (sound /\ pending = <<>>)
      BY <1>2 DEF Next, vars, CopyCommand, PrintCommand, RemoveCommand, TestCommand, Command,
                  WriteSector, Create, Open, CopyChunk, PrintChunk, Finish, Remove, Crash
    <3> QED BY <1>2, <3>1
  <2> QED BY <1>2, <2>1, UnpromisedSteps
<1>3. CASE sound
  <2>1. ASSUME NEW n \in Names,
               \/ \E u \in UnixFiles : CopyCommand(n, u)
               \/ PrintCommand(n) \/ RemoveCommand(n) \/ TestCommand(n)
        PROVE  AbstractStep /\ ProgressInv'
    BY <1>3, <2>1, CommandsAreAbstract
  <2>2. CASE WriteSector
    BY <1>3, <2>2, WriteSectorIsAbstract
  <2>3. CASE Create
    BY <2>3, CreateIsAbstract
  <2>4. CASE Open
    BY <1>3, <2>4, OpenIsAbstract
  <2>5. CASE CopyChunk
    BY <2>5, CopyChunkIsAbstract
  <2>6. CASE PrintChunk
    BY <1>3, <2>6, PrintChunkIsAbstract
  <2>7. CASE Finish
    BY <1>3, <2>7, FinishIsAbstract
  <2>8. CASE Remove
    BY <2>8, RemoveIsAbstract
  <2>9. CASE Crash
    BY <1>3, <2>9, CrashIsAbstract
  <2>10. CASE UNCHANGED vars
    <3>1. Done(disk', pending') = Done(disk, pending) /\ sound'
      BY <1>3, <2>10 DEF vars
    <3>2. Files' = Files
      BY <1>3, <3>1, SameEnd
    <3>3. Session' = Session /\ sound' = sound /\ output' = output /\ outcome' = outcome /\ job' = job
      BY <2>10 DEF vars, Session
    <3>4. ProgressInv'
      BY <3>1, <3>3 DEF ProgressInv
    <3> QED BY <3>2, <3>3, <3>4, Zenon DEF AbstractStep
  <2> QED
    BY <1>1, <2>1, <2>2, <2>3, <2>4, <2>5, <2>6, <2>7, <2>8, <2>9, <2>10 DEF Next
<1> QED BY <1>1, <1>2, <1>3

\* The file system implements AtomicFiles: with a directory, headers, a free map
\* and writes of single sectors it does what filesys.h promises of files with
\* names.  Create succeeds exactly when there is no such file and there is room;
\* a command that is not killed ends "done" or "failed": -cp is done only when the
\* file is a copy of the data, and fails only when Create does; -p is done when it
\* has printed the whole file, and -r when the file is removed, and they fail only
\* when there is none of that name.  No operation changes a file it does not name;
\* a kill between two operations changes nothing, and one in the middle of an
\* operation ends the promise until the disk is formatted.
THEOREM AtomicFilesImplemented == Spec => ImplementsAtomicFiles
<1>1. Init => A!Init /\ ProgressInv
  BY InitIsAbstract
<1>2. FsInv /\ FsInv' /\ ProgressInv /\ [Next]_vars => [A!Next]_A!vars /\ ProgressInv'
  <2> SUFFICES ASSUME FsInv, FsInv', ProgressInv, [Next]_vars
               PROVE  [A!Next]_A!vars /\ ProgressInv'
    OBVIOUS
  <2>1. AbstractStep /\ ProgressInv'
    BY NextIsAbstract
  <2> QED BY <2>1, Zenon DEF AbstractStep, A!vars
<1> QED BY <1>1, <1>2, FsInvariant, PTL DEF Spec, ImplementsAtomicFiles, A!Spec

=============================================================================
