----------------------------- MODULE AtomicFiles ----------------------------
(***************************************************************************)
(* What filesys/filesys.h and openfile.h promise, with no sectors: a set   *)
(* of named files of fixed sizes.  Create, Remove and each write are done  *)
(* at once, and fail only for the reasons given in filesys.cc.  outcome    *)
(* tells a command that did its work from one that could not and from one  *)
(* that was killed.  After a kill in the middle of an operation nothing is *)
(* promised until the disk is formatted.                                   *)
(***************************************************************************)
EXTENDS Integers, Sequences, FiniteSets, Functions

CONSTANTS
  Names, Data,     \* names, and the contents of the UNIX files to be copied
  SectorSize,
  NumDirEntries,   \* how many files there may be
  Room             \* how many sectors they and their headers may take

VARIABLES
  files,     \* the contents of the files there are, by name
  promised,  \* FALSE when the disk is not formatted or may be corrupt
  session,   \* the command being executed, and its step when it has several
  output,    \* what -p has printed so far
  outcome    \* how the last command ended: "done", "failed" or "killed"

vars == <<files, promised, session, output, outcome>>

NoSession == [command |-> "none"]

Sectors(length) == 1 + (length + SectorSize - 1) \div SectorSize

SectorsTaken ==
  Cardinality(UNION {{n} \X (1 .. Sectors(Len(files[n]))) : n \in DOMAIN files})

CanCreate(n, length) ==
  /\ n \notin DOMAIN files
  /\ Cardinality(DOMAIN files) < NumDirEntries
  /\ SectorsTaken + Sectors(length) <= Room

Init ==
  /\ files = [n \in {} |-> <<>>]
  /\ promised = FALSE
  /\ session = NoSession
  /\ output = <<>>
  /\ outcome = "none"

-----------------------------------------------------------------------------

Start ==
  /\ session = NoSession
  /\ session' \in [command : {"-p", "-r"}, name : Names]
                  \cup [command : {"-t"}, name : Names, step : {"create"}]
                  \cup [command : {"-cp"}, name : Names, data : Data, step : {"create"}]
  /\ output' = <<>>
  /\ outcome' = "none"
  /\ UNCHANGED <<files, promised>>

End(result) ==
  /\ session' = NoSession
  /\ outcome' = result
  /\ UNCHANGED <<files, promised, output>>

Format ==
  /\ session = NoSession
  /\ files' = [n \in {} |-> <<>>]
  /\ promised' = TRUE
  /\ session' = [command |-> "-f"]
  /\ outcome' = "none"
  /\ UNCHANGED output

FormatEnds == session.command = "-f" /\ End("done")

\* A new file contains anything.
Create(length) ==
  /\ CanCreate(session.name, length)
  /\ DOMAIN files' = DOMAIN files \cup {session.name}
  /\ Restrict(files', DOMAIN files) = files
  /\ Len(files'[session.name]) = length

CreateFails(length) == ~ CanCreate(session.name, length)

\* Bytes first..last of the file become those of the data.
Write ==
  \E first, last \in 1..Len(session.data) :
    files' = [files EXCEPT ![session.name] =
                [k \in DOMAIN @ |-> IF k \in first..last THEN session.data[k] ELSE @[k]]]

\* -cp creates a file of the right size, which only then it may write, and ends
\* when the file is a copy of the data; it fails when Create does.
Copy ==
  /\ session.command = "-cp"
  /\ \/ /\ session.step = "create"
        /\ Create(Len(session.data))
        /\ session' = [session EXCEPT !.step = "write"]
        /\ UNCHANGED <<promised, output, outcome>>
     \/ /\ session.step = "create"
        /\ CreateFails(Len(session.data))
        /\ End("failed")
     \/ /\ session.step = "write"
        /\ Write
        /\ UNCHANGED <<promised, session, output, outcome>>
     \/ /\ session.step = "write"
        /\ files[session.name] = session.data
        /\ End("done")

\* -p prints the file piece by piece, and ends when it has printed all of it.
PrintOut ==
  /\ session.command = "-p"
  /\ LET n == session.name IN
     \/ /\ n \in DOMAIN files
        /\ Len(output) < Len(files[n])
        /\ \E k \in Len(output) + 1 .. Len(files[n]) : output' = SubSeq(files[n], 1, k)
        /\ UNCHANGED <<files, promised, session, outcome>>
     \/ n \in DOMAIN files /\ output = files[n] /\ End("done")
     \/ n \notin DOMAIN files /\ End("failed")

\* The file is removed, if it is there; with that the command ends.
Remove ==
  \/ /\ session.name \in DOMAIN files
     /\ files' = Restrict(files, DOMAIN files \ {session.name})
     /\ session' = NoSession
     /\ outcome' = "done"
     /\ UNCHANGED <<promised, output>>
  \/ /\ session.name \notin DOMAIN files
     /\ End("failed")

RemoveCommand == session.command = "-r" /\ Remove

\* -t creates its file with no bytes, or fails to, and in any case goes on to
\* remove the file of that name.
PerformanceTest ==
  /\ session.command = "-t"
  /\ \/ /\ session.step = "create"
        /\ \/ Create(0)
           \/ CreateFails(0) /\ UNCHANGED files
        /\ session' = [session EXCEPT !.step = "remove"]
        /\ UNCHANGED <<promised, output, outcome>>
     \/ session.step = "remove" /\ Remove

\* Nachos is killed while a command runs, between two operations ...
Stop ==
  /\ session # NoSession
  /\ session' = NoSession
  /\ outcome' = "killed"
  /\ output' = <<>>
  /\ UNCHANGED <<files, promised>>

\* ... or in the middle of one.
Crash ==
  /\ files' = [n \in {} |-> <<>>]
  /\ promised' = FALSE
  /\ session' = NoSession
  /\ outcome' = "killed"
  /\ output' = <<>>

\* With no promise, the commands do anything but make one.
Unpromised ==
  /\ ~ promised
  /\ UNCHANGED <<files, promised>>

Next ==
  \/ Start \/ Format \/ FormatEnds \/ Copy \/ PrintOut \/ RemoveCommand
  \/ PerformanceTest \/ Stop \/ Crash \/ Unpromised

Spec == Init /\ [][Next]_vars

=============================================================================
