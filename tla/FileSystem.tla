----------------------------- MODULE FileSystem -----------------------------
(***************************************************************************)
(* The file system (filesys/filesys.cc, directory.cc, filehdr.cc,          *)
(* openfile.cc and userprog/bitmap.cc) under the commands of threads/      *)
(* main.cc that use it: -f, -cp, -p, -r and -t (fstest.cc).                *)
(*                                                                         *)
(* One thread uses the file system, as filesys.cc asks, so what it reads   *)
(* and computes up to its next write is one step, and each write of a      *)
(* sector is a step.  Nachos may be killed between any two writes, and be  *)
(* started again on the same disk.                                         *)
(*                                                                         *)
(* The sectors have the kinds of contents that the code writes in them.    *)
(* The directory takes two sectors and one entry lies across them: its     *)
(* inUse and sector are in the first and its name in the second (entry 6   *)
(* of 10, with entries of 20 bytes and sectors of 128).                    *)
(***************************************************************************)
EXTENDS Integers, Sequences, FiniteSets, Functions, FiniteSetsExt

CONSTANTS
  NumSectors, SectorSize,
  NumDirEntries,
  StraddlingEntry,  \* the directory entry that lies across two sectors
  TransferSize,     \* fstest.cc copies and prints this many bytes at a time
  Names, NoName,    \* file names; what a name never written contains
  UnixFiles,        \* the contents of the files that -cp may copy
  Junk,             \* a byte that was not written
  MaxCommands       \* bound on the commands in a run, -f included

\* The disk has room for what formatting puts on it, and files have bytes.
ASSUME FileSystemAssumption ==
  /\ {NumSectors, SectorSize, NumDirEntries, TransferSize} \subseteq Nat \ {0}
  /\ NumSectors >= 5
  /\ StraddlingEntry \in 0 .. NumDirEntries - 1
  /\ NoName \notin Names
  /\ \A u \in UnixFiles : u \in Seq(Range(u))

VARIABLES
  disk,      \* disk[s]: what sector s contains
  pending,   \* the sector writes that the running operation still has to do
  job,       \* the command of main being executed, and how far it is
  sound,     \* history: formatted, and since then not killed inside an operation
  output,    \* what Print has printed
  outcome,   \* history: how the last command ended, "none" while one runs
  commands   \* the number of commands so far

vars == <<disk, pending, job, sound, output, outcome, commands>>

Sectors == 0 .. NumSectors - 1
Entries == 0 .. NumDirEntries - 1

NoJob == [command |-> "none"]

-----------------------------------------------------------------------------
(* The contents of sectors.                                                *)

Header(length, blocks) == [kind |-> "header", length |-> length, blocks |-> blocks]
FreeMap(used) == [kind |-> "map", used |-> used]
DataSector(bytes) == [kind |-> "data", bytes |-> bytes]
Garbage == [kind |-> "garbage"]

\* BitMap::Find: the first clear bit; NumClear and Find many times: the first ones.
Clear(used) == Sectors \ used
Find(used) == Min(Clear(used))
FindMany(used, n) ==
  [i \in 1..n |-> CHOOSE s \in Clear(used) : Cardinality({r \in Clear(used) : r < s}) = i - 1]

\* divRoundUp(fileSize, SectorSize).
BlocksFor(length) == (length + SectorSize - 1) \div SectorSize

\* Mutant of CanAllocate: a file that just fits is refused.
CanAllocateLess(used, length) == Cardinality(Clear(used)) > BlocksFor(length)

\* FileHeader::Allocate, when there are as many clear sectors.
CanAllocate(used, length) == Cardinality(Clear(used)) >= BlocksFor(length)
Allocate(used, length) == Header(length, FindMany(used, BlocksFor(length)))

\* The layout that formatting gives: sectors 0 and 1 for the headers, then the
\* free map, one sector, and the directory, two sectors.
FreeMapSector == 0
DirectorySector == 1
MapHeader == Allocate({FreeMapSector, DirectorySector}, 1)
DirectoryHeader ==
  Allocate({FreeMapSector, DirectorySector} \cup Range(MapHeader.blocks), SectorSize + 1)
MapBlock == MapHeader.blocks[1]
DirectoryBlock(i) == DirectoryHeader.blocks[i]
Reserved == {FreeMapSector, DirectorySector} \cup Range(MapHeader.blocks)
            \cup Range(DirectoryHeader.blocks)

\* A directory in memory, and its two sectors on disk.
EmptyDirectory ==
  [inUse |-> [i \in Entries |-> FALSE], sector |-> [i \in Entries |-> 0],
   name |-> [i \in Entries |-> NoName]]

Part(d, heads, names) ==
  [kind |-> "directory", inUse |-> Restrict(d.inUse, heads),
   sector |-> Restrict(d.sector, heads), name |-> Restrict(d.name, names)]

FirstPart(d) == Part(d, 0 .. StraddlingEntry, 0 .. StraddlingEntry - 1)
LastPart(d) ==
  Part(d, StraddlingEntry + 1 .. NumDirEntries - 1, StraddlingEntry .. NumDirEntries - 1)

DirectoryOn(dsk) ==
  LET p == dsk[DirectoryBlock(1)]
      q == dsk[DirectoryBlock(2)]
      Both(f, g) == [i \in Entries |-> IF i \in DOMAIN f THEN f[i] ELSE g[i]]
  IN  [inUse |-> Both(p.inUse, q.inUse), sector |-> Both(p.sector, q.sector),
       name |-> Both(p.name, q.name)]

\* Directory::FindIndex, or -1.
Matches(d, n) == {i \in Entries : d.inUse[i] /\ d.name[i] = n}
FindIndex(d, n) == IF Matches(d, n) = {} THEN -1 ELSE Min(Matches(d, n))

\* Directory::Add, when there is an unused entry, and Directory::Remove.
Unused(d) == {i \in Entries : ~ d.inUse[i]}
Add(d, n, s) ==
  LET i == Min(Unused(d))
  IN  [inUse |-> [d.inUse EXCEPT ![i] = TRUE], sector |-> [d.sector EXCEPT ![i] = s],
       name |-> [d.name EXCEPT ![i] = n]]

\* Mutant of RemoveEntry: the last entry in use is moved to the one that is free.
RemoveEntryCompact(d, n) ==
  LET i == FindIndex(d, n)
      last == Max({k \in Entries : d.inUse[k]})
  IN  [inUse |-> [d.inUse EXCEPT ![last] = FALSE],
       sector |-> [d.sector EXCEPT ![i] = d.sector[last]],
       name |-> [d.name EXCEPT ![i] = d.name[last]]]

RemoveEntry(d, n) == [d EXCEPT !.inUse[FindIndex(d, n)] = FALSE]

\* OpenFile::ReadAt: bytes position .. position+n-1, as far as the file goes.
ByteAt(dsk, h, k) ==
  LET s == dsk[h.blocks[k \div SectorSize + 1]]
  IN  IF s.kind = "data" THEN s.bytes[k % SectorSize] ELSE Junk
ReadAt(dsk, h, n, position) ==
  LET m == IF position + n > h.length THEN h.length - position ELSE n
  IN  IF n <= 0 \/ position >= h.length THEN <<>>
      ELSE [k \in 1..m |-> ByteAt(dsk, h, position + k - 1)]

\* Mutant of NewSector: partial sectors are not read first.
NewSectorBlind(dsk, h, i, from, position) ==
  DataSector([j \in 0 .. SectorSize - 1 |->
    LET k == i * SectorSize + j
    IN  IF k \in position .. position + Len(from) - 1 THEN from[k - position + 1] ELSE Junk])

\* A sector of a file with some of its bytes changed: the others are read
\* first, those beyond the end of the file come from the buffer as it was.
NewSector(dsk, h, i, from, position) ==
  DataSector([j \in 0 .. SectorSize - 1 |->
    LET k == i * SectorSize + j
    IN  IF k \in position .. position + Len(from) - 1 THEN from[k - position + 1]
        ELSE IF k < h.length THEN ByteAt(dsk, h, k) ELSE Junk])

\* OpenFile::WriteAt: the bytes written, and the sector writes, in order.
Clamp(h, from, position) ==
  IF from = <<>> \/ position >= h.length THEN <<>>
  ELSE SubSeq(from, 1, Min({Len(from), h.length - position}))
WriteAt(dsk, h, from, position) ==
  LET bytes == Clamp(h, from, position)
      first == position \div SectorSize
      last  == (position + Len(bytes) - 1) \div SectorSize
  IN  IF bytes = <<>> THEN <<>>
      ELSE [i \in 1 .. last - first + 1 |->
              [sector |-> h.blocks[first + i],
               content |-> NewSector(dsk, h, first + i - 1, bytes, position)]]

\* Directory::WriteBack, BitMap::WriteBack and FileHeader::WriteBack.
WriteDirectory(d) ==
  <<[sector |-> DirectoryBlock(1), content |-> FirstPart(d)],
    [sector |-> DirectoryBlock(2), content |-> LastPart(d)]>>
WriteMap(used) == <<[sector |-> MapBlock, content |-> FreeMap(used)]>>
WriteHeader(s, h) == <<[sector |-> s, content |-> h]>>

-----------------------------------------------------------------------------

Init ==
  /\ disk = [s \in Sectors |-> Garbage]
  /\ pending = <<>>
  /\ job = NoJob
  /\ sound = FALSE
  /\ output = <<>>
  /\ outcome = "none"
  /\ commands = 0

\* What the operations read from the disk.
Directory == DirectoryOn(disk)
Used == disk[MapBlock].used

Formatted == disk[DirectoryBlock(2)].kind = "directory"

At(command, step) ==
  pending = <<>> /\ job.command \in command /\ job.step = step

\* main goes on to its next command.  On a disk that a crash may have corrupted
\* only -p is explored, and -f, which formats it: that is a bound of the model,
\* main would execute any command.
Command(j) ==
  /\ job = NoJob /\ pending = <<>> /\ Formatted
  /\ commands < MaxCommands /\ commands' = commands + 1
  /\ sound \/ j.command = "-p"
  /\ job' = j
  /\ output' = <<>>
  /\ outcome' = "none"
  /\ UNCHANGED <<disk, pending, sound>>

CopyCommand(n, u) == Command([command |-> "-cp", name |-> n, data |-> u, step |-> "create"])
PrintCommand(n)   == Command([command |-> "-p", name |-> n, step |-> "open"])
RemoveCommand(n)  == Command([command |-> "-r", name |-> n, step |-> "remove"])
TestCommand(n)    == Command([command |-> "-t", name |-> n, step |-> "create"])

\* FileSystem::FileSystem(TRUE).
Format ==
  /\ job = NoJob /\ pending = <<>>
  /\ commands < MaxCommands /\ commands' = commands + 1
  /\ pending' = WriteHeader(FreeMapSector, MapHeader)
                \o WriteHeader(DirectorySector, DirectoryHeader)
                \o WriteMap(Reserved) \o WriteDirectory(EmptyDirectory)
  /\ job' = [command |-> "-f", step |-> "finish"]
  /\ sound' = TRUE
  /\ outcome' = "none"
  /\ UNCHANGED <<disk, output>>

\* The next sector is written.
WriteSector ==
  /\ pending # <<>>
  /\ disk' = [disk EXCEPT ![Head(pending).sector] = Head(pending).content]
  /\ pending' = Tail(pending)
  /\ UNCHANGED <<job, sound, output, outcome, commands>>

\* Mutant of CreateWrites: the directory is written first.
CreateWritesNameFirst(s, h, d, used) ==
  WriteDirectory(d) \o WriteHeader(s, h) \o WriteMap(used)

CreateWrites(s, h, d, used) == WriteHeader(s, h) \o WriteDirectory(d) \o WriteMap(used)

\* FileSystem::Create, called by Copy and by the performance test, whose file
\* has no bytes.  When it fails it has changed its own copies only.
Create ==
  /\ At({"-cp", "-t"}, "create")
  /\ LET length == IF job.command = "-cp" THEN Len(job.data) ELSE 0
         s == Find(Used)
         used == Used \cup {s}
         h == Allocate(used, length)
         success == /\ FindIndex(Directory, job.name) = -1
                    /\ Clear(Used) # {}
                    /\ Unused(Directory) # {}
                    /\ CanAllocate(used, length)
     IN  /\ pending' = IF success
                       THEN CreateWrites(s, h, Add(Directory, job.name, s),
                                         used \cup Range(h.blocks))
                       ELSE <<>>
         /\ job' = IF job.command = "-t" THEN [job EXCEPT !.step = "remove"]
                   ELSE IF success THEN [job EXCEPT !.step = "open"] ELSE NoJob
         /\ outcome' = IF job.command = "-t" \/ success THEN outcome ELSE "failed"
  /\ UNCHANGED <<disk, sound, output, commands>>

\* FileSystem::Open, called by Copy, which has just created the file, and by
\* Print: the header stays in memory while the file is open.
Open ==
  /\ At({"-cp", "-p"}, "open")
  /\ LET i == FindIndex(Directory, job.name)
     IN  /\ job' = IF i = -1 THEN NoJob
                   ELSE [command |-> job.command, name |-> job.name,
                         data |-> IF job.command = "-cp" THEN job.data ELSE <<>>,
                         step |-> "transfer", hdr |-> disk[Directory.sector[i]],
                         amountRead |-> 0, seekPosition |-> 0]
         /\ outcome' = IF i = -1 THEN "failed" ELSE outcome
  /\ UNCHANGED <<disk, pending, sound, output, commands>>

\* Copy's loop: the next bytes of the UNIX file are written at seekPosition.
CopyChunk ==
  /\ At({"-cp"}, "transfer")
  /\ job.amountRead < Len(job.data)
  /\ LET last  == Min({job.amountRead + TransferSize, Len(job.data)})
         chunk == SubSeq(job.data, job.amountRead + 1, last)
     IN  /\ pending' = WriteAt(disk, job.hdr, chunk, job.seekPosition)
         /\ job' = [job EXCEPT
                      !.amountRead = last,
                      !.seekPosition = @ + Len(Clamp(job.hdr, chunk, job.seekPosition))]
  /\ UNCHANGED <<disk, sound, output, outcome, commands>>

\* Print's loop.
PrintChunk ==
  /\ At({"-p"}, "transfer")
  /\ LET chunk == ReadAt(disk, job.hdr, TransferSize, job.seekPosition)
     IN  /\ chunk # <<>>
         /\ output' = output \o chunk
         /\ job' = [job EXCEPT !.seekPosition = @ + Len(chunk)]
  /\ UNCHANGED <<disk, pending, sound, outcome, commands>>

\* The end of the loops, and of the constructor.
Finish ==
  /\ \/ At({"-cp"}, "transfer") /\ job.amountRead = Len(job.data)
     \/ At({"-p"}, "transfer")
        /\ ReadAt(disk, job.hdr, TransferSize, job.seekPosition) = <<>>
     \/ At({"-f"}, "finish")
  /\ job' = NoJob
  /\ outcome' = "done"
  /\ UNCHANGED <<disk, pending, sound, output, commands>>

\* Mutant of Freed: the header's sector stays marked.
FreedBlocks(used, s, h) == used \ Range(h.blocks)

\* FileHeader::Deallocate, and the header's own sector.
Freed(used, s, h) == used \ (Range(h.blocks) \cup {s})

\* FileSystem::Remove; also the end of the performance test, which can write
\* nothing in its file and reads it in vain.
Remove ==
  /\ At({"-r", "-t"}, "remove")
  /\ LET i == FindIndex(Directory, job.name)
         s == Directory.sector[i]
     IN  /\ pending' = IF i = -1 THEN <<>>
                       ELSE WriteMap(Freed(Used, s, disk[s]))
                            \o WriteDirectory(RemoveEntry(Directory, job.name))
         /\ outcome' = IF i = -1 THEN "failed" ELSE "done"
  /\ job' = NoJob
  /\ UNCHANGED <<disk, sound, output, commands>>

\* Nachos exits, and is started again.
Crash ==
  /\ job # NoJob \/ pending # <<>>
  /\ pending' = <<>>
  /\ job' = NoJob
  /\ sound' = (sound /\ pending = <<>>)
  /\ output' = <<>>
  /\ outcome' = "killed"
  /\ UNCHANGED <<disk, commands>>

Next ==
  \/ Format
  \/ \E n \in Names :
       \/ \E u \in UnixFiles : CopyCommand(n, u)
       \/ PrintCommand(n) \/ RemoveCommand(n) \/ TestCommand(n)
  \/ WriteSector
  \/ Create \/ Open \/ CopyChunk \/ PrintChunk \/ Finish \/ Remove
  \/ Crash

Spec == Init /\ [][Next]_vars

-----------------------------------------------------------------------------

\* The type invariant: in particular the sectors that the program finds by their
\* number contain what it expects in them.
TypeOK ==
  /\ \A s \in Sectors :
       CASE disk[s].kind = "garbage"   -> disk[s] = Garbage
         [] disk[s].kind = "header"    -> /\ Range(disk[s].blocks) \subseteq Sectors
                                          /\ Len(disk[s].blocks) = BlocksFor(disk[s].length)
         [] disk[s].kind = "map"       -> s = MapBlock /\ disk[s].used \subseteq Sectors
         [] disk[s].kind = "directory" -> s \in Range(DirectoryHeader.blocks)
         [] disk[s].kind = "data"      -> DOMAIN disk[s].bytes = 0 .. SectorSize - 1
  /\ \A i \in DOMAIN pending : pending[i].sector \in Sectors
  /\ job.command \in {"none", "-f", "-cp", "-p", "-r", "-t"}
  /\ sound \in BOOLEAN
  /\ outcome \in {"none", "done", "failed", "killed"}
  /\ Range(output) \subseteq {Junk} \cup UNION {Range(u) : u \in UnixFiles}

\* The sectors of the file of entry i, and its name and contents.
SectorsOf(dsk, i) ==
  LET s == DirectoryOn(dsk).sector[i] IN {s} \cup Range(dsk[s].blocks)

InUse(dsk) == {i \in Entries : DirectoryOn(dsk).inUse[i]}

FileAt(dsk, i) ==
  LET d == DirectoryOn(dsk)
      h == dsk[d.sector[i]]
  IN  IF i \notin InUse(dsk) THEN <<>> ELSE <<d.name[i], ReadAt(dsk, h, h.length, 0)>>

\* The disk as it will be when the operation has done its writes.
Settled ==
  [s \in Sectors |->
     LET W == {i \in DOMAIN pending : pending[i].sector = s}
     IN  IF W = {} THEN disk[s] ELSE pending[Max(W)].content]

\* The free map marks the sectors of the files that are in the directory, and no
\* others, after any sequence of commands that was not interrupted in the middle
\* of an operation: nothing is leaked, and nothing free is in use.
MapAgreesWithDirectory ==
  sound =>
    LET d == DirectoryOn(Settled)
    IN  /\ Settled[MapBlock].used =
             Reserved \cup UNION {SectorsOf(Settled, i) : i \in InUse(Settled)}
        /\ \A i, j \in InUse(Settled) : d.name[i] = d.name[j] => i = j

\* At every moment, so also when Nachos is killed there, each name in the
\* directory leads to a header, and two of them to different sectors: Create
\* writes the header before the name, and Remove writes neither.  What is in a
\* sector is what its kind says.  This is about the disk that a kill leaves, and
\* what -p does on it.  It says nothing of what other commands would then do to
\* it, which main would execute and Command does not: a kill inside Remove may
\* leave a name whose sectors are free in the map, and a -cp after it would give
\* them to a second name.
AlwaysOpenable ==
  /\ TypeOK
  /\ Formatted =>
       \A i \in InUse(disk) :
         /\ disk[Directory.sector[i]].kind = "header"
         /\ SectorsOf(disk, i) \cap Reserved = {}
         /\ \A j \in InUse(disk) \ {i} : SectorsOf(disk, i) \cap SectorsOf(disk, j) = {}

\* An operation that is under way, and may be interrupted, has one file at stake:
\* the others are on the disk as they will be when it ends, in their entries.
OneFileAtStake ==
  sound /\ job.command # "-f" =>
    Cardinality({i \in Entries : FileAt(disk, i) # FileAt(Settled, i)}) <= 1

\* The files of a directory, and their contents, by name.
FilesOn(dsk) ==
  LET d == DirectoryOn(dsk)
      h(n) == dsk[d.sector[FindIndex(d, n)]]
  IN  [n \in {d.name[i] : i \in InUse(dsk)} |-> ReadAt(dsk, h(n), h(n).length, 0)]

\* The files and the command, as AtomicFiles has them.  An operation takes effect
\* when it has read and computed all it needs, before its first write.
Files == IF sound THEN FilesOn(Settled) ELSE [n \in {} |-> <<>>]

SessionOf(j) ==
  CASE j.command \in {"none", "-f"} -> [command |-> j.command]
    [] j.command = "-cp" ->
         [command |-> "-cp", name |-> j.name, data |-> j.data,
          step |-> IF j.step = "create" THEN "create" ELSE "write"]
    [] j.command = "-t" -> [command |-> "-t", name |-> j.name, step |-> j.step]
    [] OTHER -> [command |-> j.command, name |-> j.name]

Session == SessionOf(job)

A == INSTANCE AtomicFiles WITH
  Data <- UnixFiles,
  Room <- NumSectors - Cardinality(Reserved),
  promised <- sound,
  files <- Files,
  session <- Session

\* Directory, header and map together keep the promises of AtomicFiles: Create
\* succeeds exactly when the name is new and there is room for it; -cp that is
\* not killed fails when Create does and otherwise leaves the file with a copy of
\* the data, which is what -p prints; Remove of a file there is removes it; and
\* nothing else changes a file.
ImplementsAtomicFiles == A!Spec

=============================================================================
