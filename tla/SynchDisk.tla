------------------------------ MODULE SynchDisk -----------------------------
(***************************************************************************)
(* The disk (machine/disk.cc) and its driver (filesys/synchdisk.cc): the   *)
(* threads call ReadSector and WriteSector, which issue one request at a   *)
(* time and wait for the interrupt that says it is done.                   *)
(*                                                                         *)
(* The lock and the semaphore are those of Monitor, which Synch            *)
(* implements.  The disk transfers the data when the request is issued and *)
(* interrupts later, when is left open.                                    *)
(***************************************************************************)
EXTENDS Integers

CONSTANTS
  Thread, NoThread,
  Sector,     \* the sectors; the callers keep to 0..NumSectors-1
  Data        \* what a sector may contain

ASSUME DiskAssumption == NoThread \notin Thread

VARIABLES
  owner, count, doing,  \* the lock and the semaphore, see Monitor
  active,               \* Disk::active: a request is in progress
  sectors,              \* the Unix file that is the disk
  pc,                   \* pc[t]: what t is to do next in its call
  request,              \* request[t]: the operation t called, and its buffer
  cpu                   \* "running", or "aborted" by a failed ASSERT

monitorVars == <<owner, count, doing>>
vars == <<monitorVars, active, sectors, pc, request, cpu>>

Mon == INSTANCE Monitor WITH
  Sem <- {"semaphore"}, Lock <- {"lock"}, Cond <- {}, NoObject <- "none"

Requests == [operation : {"read", "write"}, sector : Sector, data : Data]

Places == {"outside", "Acquire", "Request", "P", "Release"}

\* The type invariant: in particular the semaphore counts one request at most.
TypeOK ==
  /\ owner \in [{"lock"} -> Thread \cup {NoThread}]
  /\ count \in [{"semaphore"} -> {0, 1}]
  /\ doing = [t \in Thread |-> Mon!NotWaiting]
  /\ active \in BOOLEAN
  /\ sectors \in [Sector -> Data]
  /\ pc \in [Thread -> Places]
  /\ request \in [Thread -> Requests]
  /\ cpu \in {"running", "aborted"}

Init ==
  /\ owner = [l \in {"lock"} |-> NoThread]
  /\ count = [s \in {"semaphore"} |-> 0]
  /\ doing = [t \in Thread |-> Mon!NotWaiting]
  /\ active = FALSE
  /\ sectors \in [Sector -> Data]
  /\ pc = [t \in Thread |-> "outside"]
  /\ request \in [Thread -> Requests]
  /\ cpu = "running"

-----------------------------------------------------------------------------

At(t, place) == cpu = "running" /\ pc[t] = place

Goto(t, place) == pc' = [pc EXCEPT ![t] = place]

\* t calls ReadSector or WriteSector.
Call(t, r) ==
  /\ At(t, "outside")
  /\ Goto(t, "Acquire")
  /\ request' = [request EXCEPT ![t] = r]
  /\ UNCHANGED <<monitorVars, active, sectors, cpu>>

\* Mutant of Acquires: the lock is not taken.
AcquiresNothing(t) ==
  /\ At(t, "Acquire")
  /\ Goto(t, "Request")
  /\ UNCHANGED <<monitorVars, active, sectors, request, cpu>>

\* lock->Acquire().
Acquires(t) ==
  /\ At(t, "Acquire")
  /\ Mon!Take(t, "lock")
  /\ Goto(t, "Request")
  /\ UNCHANGED <<active, sectors, request, cpu>>

\* What Disk::ReadRequest and Disk::WriteRequest do besides the transfer: the
\* ASSERT that no request is in progress, which ends the program if one is, and
\* otherwise this one is.
Issue(t) ==
  /\ At(t, "Request")
  /\ cpu' = IF active THEN "aborted" ELSE "running"
  /\ active' = TRUE
  /\ Goto(t, "P")
  /\ UNCHANGED monitorVars

ReadRequest(t) ==
  /\ request[t].operation = "read"
  /\ Issue(t)
  /\ request' = IF active THEN request
                ELSE [request EXCEPT ![t].data = sectors[request[t].sector]]
  /\ UNCHANGED sectors

\* Mutant of WriteRequest: the buffer gets what the sector had.
WriteRequestSwaps(t) ==
  /\ request[t].operation = "write"
  /\ Issue(t)
  /\ sectors' = [sectors EXCEPT ![request[t].sector] = request[t].data]
  /\ request' = [request EXCEPT ![t].data = sectors[request[t].sector]]

WriteRequest(t) ==
  /\ request[t].operation = "write"
  /\ Issue(t)
  /\ sectors' = IF active THEN sectors
                ELSE [sectors EXCEPT ![request[t].sector] = request[t].data]
  /\ UNCHANGED request

\* Mutants of DiskDone: V twice; no V.
DiskDoneTwice ==
  /\ cpu = "running"
  /\ active
  /\ active' = FALSE
  /\ count' = [count EXCEPT !["semaphore"] = @ + 2]
  /\ UNCHANGED <<owner, doing, sectors, pc, request, cpu>>

DiskDoneSilent ==
  /\ cpu = "running"
  /\ active
  /\ active' = FALSE
  /\ UNCHANGED <<monitorVars, sectors, pc, request, cpu>>

\* The disk's interrupt: HandleInterrupt, and SynchDisk::RequestDone does V.
DiskDone ==
  /\ cpu = "running"
  /\ active
  /\ active' = FALSE
  /\ Mon!Up("semaphore")
  /\ UNCHANGED <<sectors, pc, request, cpu>>

\* Mutant of Waits: P does not wait.
WaitsNot(t) ==
  /\ At(t, "P")
  /\ Goto(t, "Release")
  /\ UNCHANGED <<monitorVars, active, sectors, request, cpu>>

\* semaphore->P().
Waits(t) ==
  /\ At(t, "P")
  /\ Mon!Down(t, "semaphore")
  /\ Goto(t, "Release")
  /\ UNCHANGED <<active, sectors, request, cpu>>

\* lock->Release() and return.
Releases(t) ==
  /\ At(t, "Release")
  /\ Mon!Give(t, "lock")
  /\ Goto(t, "outside")
  /\ UNCHANGED <<active, sectors, request, cpu>>

Step(t) ==
  Acquires(t) \/ ReadRequest(t) \/ WriteRequest(t) \/ Waits(t) \/ Releases(t)

Next ==
  \/ \E t \in Thread : Step(t) \/ \E r \in Requests : Call(t, r)
  \/ DiskDone

Spec == Init /\ [][Next]_vars

\* The disk interrupts at last, and the scheduler runs every ready thread.
Fairness == WF_vars(DiskDone) /\ \A t \in Thread : WF_vars(Step(t))

FairSpec == Spec /\ Fairness

-----------------------------------------------------------------------------

\* The disk is asked for one thing at a time: its ASSERT does not fail, and
\* while a request is in progress, or has been done and its V not yet taken,
\* the thread that made it, and no other, has the lock and is in P.  So no
\* thread takes the V of another's request.
OneRequest ==
  /\ cpu = "running"
  /\ active => count["semaphore"] = 0
  /\ \A t \in Thread :
       /\ pc[t] \in {"Request", "P", "Release"} <=> owner["lock"] = t
       /\ pc[t] = "P" => (active \/ count["semaphore"] = 1)
       /\ owner["lock"] = t /\ pc[t] # "P" => ~ active /\ count["semaphore"] = 0
  /\ owner["lock"] = NoThread => ~ active /\ count["semaphore"] = 0

\* What a reader has been given, until it returns, is what the sector contains:
\* no other request has come between the transfer and the completion.
NothingBetween ==
  \A t \in Thread :
    pc[t] \in {"P", "Release"} => request[t].data = sectors[request[t].sector]

\* "it waits around until the operation finishes before returning" (class
\* SynchDisk), and no longer: whoever has got the lock returns, whatever the
\* other threads do.
RequestReturns ==
  \A t \in Thread : owner["lock"] = t ~> owner["lock"] # t

\* The sectors are read and written as if at once.
A == INSTANCE AtomicDisk WITH
  phase <- [t \in Thread |->
              CASE pc[t] = "outside" -> "outside"
                [] pc[t] \in {"Acquire", "Request"} -> "called"
                [] pc[t] \in {"P", "Release"} -> "done"]

\* ReadSector and WriteSector, with their lock, semaphore and interrupt, do what
\* AtomicDisk promises.
ImplementsAtomicDisk == A!Spec

=============================================================================
