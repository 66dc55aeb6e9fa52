--------------------------- MODULE SynchDiskProofs --------------------------
(***************************************************************************)
(* The safety of SynchDisk and its refinement of AtomicDisk, for any sets  *)
(* of threads, sectors and contents.                                       *)
(***************************************************************************)
EXTENDS SynchDisk, TLAPS

\* The inductive invariant: OneRequest says who has the lock at each place, and
\* what the device and the semaphore are there.
DiskInv == TypeOK /\ OneRequest

\* What the operations of Monitor are here.
LEMMA MonitorSteps ==
  ASSUME NEW t \in Thread, TypeOK
  PROVE  /\ Mon!Take(t, "lock") =>
              owner["lock"] = NoThread /\ owner' = [owner EXCEPT !["lock"] = t]
              /\ UNCHANGED <<count, doing>>
         /\ Mon!Give(t, "lock") =>
              owner["lock"] = t /\ owner' = [owner EXCEPT !["lock"] = NoThread]
              /\ UNCHANGED <<count, doing>>
         /\ Mon!Down(t, "semaphore") =>
              count["semaphore"] > 0
              /\ count' = [count EXCEPT !["semaphore"] = @ - 1]
              /\ UNCHANGED <<owner, doing>>
<1>1. doing = [u \in Thread |-> Mon!NotWaiting]
  BY DEF TypeOK
<1>2. ASSUME Mon!Become(t, Mon!NotWaiting)
      PROVE  doing' = doing
  BY <1>1, <1>2 DEF Mon!Become, Mon!NotWaiting
<1> QED BY <1>2 DEF Mon!Take, Mon!Give, Mon!Down

\* The initial states.
LEMMA InitDisk == Init => DiskInv /\ NothingBetween
  BY DiskAssumption DEF Init, DiskInv, TypeOK, OneRequest, NothingBetween, Places

\* A new call moves its thread from outside to Acquire: it has no lock.
LEMMA CallStep ==
  ASSUME DiskInv, NothingBetween, NEW t \in Thread, NEW r \in Requests, Call(t, r)
  PROVE  DiskInv' /\ NothingBetween'
<1> USE DEF DiskInv, Call, At, Goto, monitorVars
<1>1. TypeOK'
  BY DEF TypeOK, Places
<1>2. OneRequest'
  BY DEF TypeOK, OneRequest
<1>3. NothingBetween'
  BY DEF TypeOK, NothingBetween
<1> QED BY <1>1, <1>2, <1>3

\* The thread that takes the lock finds the device idle and the semaphore 0.
LEMMA AcquiresStep ==
  ASSUME DiskInv, NothingBetween, NEW t \in Thread, Acquires(t)
  PROVE  DiskInv' /\ NothingBetween'
<1> USE DEF DiskInv, Acquires, At, Goto
<1>1. /\ owner["lock"] = NoThread
      /\ owner' = [owner EXCEPT !["lock"] = t]
      /\ UNCHANGED <<count, doing>>
  BY MonitorSteps
<1>2. TypeOK'
  BY <1>1 DEF TypeOK, Places
<1>3. OneRequest'
  BY <1>1, DiskAssumption DEF TypeOK, OneRequest
<1>4. NothingBetween'
  BY <1>1 DEF TypeOK, NothingBetween
<1> QED BY <1>2, <1>3, <1>4

\* A request: the ASSERT holds, because the thread has the lock and is not yet
\* in P, and every other thread at P or Release would have the lock too.
LEMMA RequestStep ==
  ASSUME DiskInv, NothingBetween, NEW t \in Thread, ReadRequest(t) \/ WriteRequest(t)
  PROVE  DiskInv' /\ NothingBetween'
<1> USE DEF DiskInv, Issue, At, Goto, monitorVars
<1>1. /\ cpu = "running" /\ pc[t] = "Request"
      /\ cpu' = IF active THEN "aborted" ELSE "running"
      /\ active' = TRUE
      /\ pc' = [pc EXCEPT ![t] = "P"]
      /\ UNCHANGED <<owner, count, doing>>
  BY DEF ReadRequest, WriteRequest
<1>2. /\ owner["lock"] = t /\ ~ active /\ count["semaphore"] = 0
      /\ \A u \in Thread : pc[u] \in {"Request", "P", "Release"} => u = t
  BY <1>1 DEF OneRequest
<1>3. request \in [Thread -> Requests] /\ sectors \in [Sector -> Data]
  BY DEF TypeOK
<1>4. /\ request[t].sector \in Sector /\ request[t].data \in Data
      /\ sectors[request[t].sector] \in Data
  BY <1>3 DEF Requests
<1>5. /\ request' \in [Thread -> Requests]
      /\ sectors' \in [Sector -> Data]
      /\ request'[t].data = sectors'[request'[t].sector]
  <2>1. CASE ReadRequest(t)
    BY <2>1, <1>2, <1>3, <1>4 DEF ReadRequest, Requests
  <2>2. CASE WriteRequest(t)
    BY <2>2, <1>2, <1>3, <1>4 DEF WriteRequest, Requests
  <2> QED BY <2>1, <2>2
<1>6. TypeOK'
  <2>1. cpu' = "running"
    BY <1>1, <1>2
  <2>2. pc' \in [Thread -> Places]
    BY <1>1 DEF TypeOK, Places
  <2> QED BY <2>1, <2>2, <1>1, <1>5 DEF TypeOK
<1>7. OneRequest'
  BY <1>1, <1>2, DiskAssumption DEF TypeOK, OneRequest
<1>8. NothingBetween'
  BY <1>1, <1>2, <1>5 DEF TypeOK, NothingBetween
<1> QED BY <1>6, <1>7, <1>8

\* The interrupt: one unit for the thread in P.
LEMMA DiskDoneStep ==
  ASSUME DiskInv, NothingBetween, DiskDone
  PROVE  DiskInv' /\ NothingBetween'
<1> USE DEF DiskInv, DiskDone, Mon!Up
<1>1. count["semaphore"] = 0
  BY DEF OneRequest
<1>2. TypeOK'
  <2>1. count' = [count EXCEPT !["semaphore"] = 1]
    BY <1>1
  <2>2. count' \in [{"semaphore"} -> {0, 1}]
    BY <2>1 DEF TypeOK
  <2>3. UNCHANGED <<owner, doing, sectors, pc, request, cpu>> /\ active' = FALSE
    OBVIOUS
  <2> QED BY <2>2, <2>3 DEF TypeOK
<1>3. OneRequest'
  BY <1>1 DEF TypeOK, OneRequest
<1>4. NothingBetween'
  BY DEF NothingBetween
<1> QED BY <1>2, <1>3, <1>4

\* P takes that unit: the device is idle.
LEMMA WaitsStep ==
  ASSUME DiskInv, NothingBetween, NEW t \in Thread, Waits(t)
  PROVE  DiskInv' /\ NothingBetween'
<1> USE DEF DiskInv, Waits, At, Goto
<1>1. /\ count["semaphore"] > 0
      /\ count' = [count EXCEPT !["semaphore"] = @ - 1]
      /\ UNCHANGED <<owner, doing>>
  BY MonitorSteps
<1>2. count["semaphore"] = 1 /\ ~ active
  BY <1>1 DEF TypeOK, OneRequest
<1>3. TypeOK'
  BY <1>1, <1>2 DEF TypeOK, Places
<1>4. OneRequest'
  BY <1>1, <1>2, DiskAssumption DEF TypeOK, OneRequest
<1>5. NothingBetween'
  BY <1>1 DEF TypeOK, NothingBetween
<1> QED BY <1>3, <1>4, <1>5

\* Release, after which nobody has the lock.
LEMMA ReleasesStep ==
  ASSUME DiskInv, NothingBetween, NEW t \in Thread, Releases(t)
  PROVE  DiskInv' /\ NothingBetween'
<1> USE DEF DiskInv, Releases, At, Goto
<1>1. /\ owner["lock"] = t
      /\ owner' = [owner EXCEPT !["lock"] = NoThread]
      /\ UNCHANGED <<count, doing>>
  BY MonitorSteps
<1>2. TypeOK'
  BY <1>1 DEF TypeOK, Places
<1>3. OneRequest'
  BY <1>1, DiskAssumption DEF TypeOK, OneRequest
<1>4. NothingBetween'
  BY <1>1 DEF TypeOK, NothingBetween
<1> QED BY <1>2, <1>3, <1>4

\* Every step.
LEMMA NextDisk ==
  DiskInv /\ NothingBetween /\ [Next]_vars => DiskInv' /\ NothingBetween'
<1> SUFFICES ASSUME DiskInv, NothingBetween, [Next]_vars
             PROVE  DiskInv' /\ NothingBetween'
  OBVIOUS
<1>1. CASE \E t \in Thread : Step(t)
  BY <1>1, AcquiresStep, RequestStep, WaitsStep, ReleasesStep DEF Step
<1>2. CASE \E t \in Thread : \E r \in Requests : Call(t, r)
  BY <1>2, CallStep
<1>3. CASE DiskDone
  BY <1>3, DiskDoneStep
<1>4. CASE UNCHANGED vars
  BY <1>4 DEF vars, monitorVars, DiskInv, TypeOK, OneRequest, NothingBetween
<1> QED BY <1>1, <1>2, <1>3, <1>4 DEF Next

\* The disk is asked for one thing at a time, each V is taken by the thread
\* whose request it completes, and no request comes between another's transfer
\* and its completion (SynchDisk::ReadSector and WriteSector).
THEOREM DiskSafe == Spec => [](TypeOK /\ OneRequest /\ NothingBetween)
<1>1. Init => DiskInv /\ NothingBetween
  BY InitDisk
<1>2. DiskInv /\ NothingBetween /\ [Next]_vars => (DiskInv /\ NothingBetween)'
  BY NextDisk
<1>3. DiskInv /\ NothingBetween => TypeOK /\ OneRequest /\ NothingBetween
  BY DEF DiskInv
<1> QED BY <1>1, <1>2, <1>3, PTL DEF Spec

\* The types, for any threads, sectors and contents: the semaphore of the driver
\* (class SynchDisk) never counts more than the one request.
THEOREM TypeCorrect == Spec => []TypeOK
  BY DiskSafe, PTL

\* What ReadSector is about to return is in the sector still: no request comes
\* between its transfer and its return.
THEOREM Undisturbed == Spec => []NothingBetween
  BY DiskSafe, PTL

-----------------------------------------------------------------------------
(* SynchDisk implements AtomicDisk                                         *)

\* The phases of the calls, as AtomicDisk sees them.
Phase(place) ==
  CASE place = "outside" -> "outside"
    [] place \in {"Acquire", "Request"} -> "called"
    [] place \in {"P", "Release"} -> "done"

phases == [t \in Thread |-> Phase(pc[t])]

\* A thread that goes to another place of its call changes its own phase only.
LEMMA PhaseOfGoto ==
  ASSUME TypeOK, NEW t \in Thread, NEW place \in Places, Goto(t, place)
  PROVE  phases' = [phases EXCEPT ![t] = Phase(place)]
  BY DEF TypeOK, Goto, phases

\* The initial states of SynchDisk are initial states of AtomicDisk.
LEMMA InitRefines == Init => A!Init
  BY DEF Init, A!Init, Requests, A!Requests

\* Taking the lock, waiting and the interrupt change nothing that AtomicDisk
\* sees; the call, the request and the release are its steps.
LEMMA NextRefines ==
  DiskInv /\ [Next]_vars => [A!Next]_(A!vars)
<1> SUFFICES ASSUME DiskInv, [Next]_vars
             PROVE  A!Next \/ UNCHANGED <<sectors, phases, request>>
  BY DEF A!vars, phases, Phase
<1> USE DEF DiskInv
<1>1. ASSUME NEW t \in Thread, NEW r \in Requests, Call(t, r)
      PROVE  A!Call(t, r)
  <2>1. phases' = [phases EXCEPT ![t] = "called"]
    BY <1>1, PhaseOfGoto DEF Call, Places, Phase
  <2>2. phases[t] = "outside"
    BY <1>1 DEF Call, At, phases, Phase
  <2> QED BY <2>1, <2>2, <1>1 DEF Call, A!Call, A!Become, phases, Phase
<1>2. ASSUME NEW t \in Thread, Acquires(t)
      PROVE  UNCHANGED <<sectors, phases, request>>
  <2>1. phases' = [phases EXCEPT ![t] = "called"]
    BY <1>2, PhaseOfGoto DEF Acquires, Places, Phase
  <2>2. phases[t] = "called"
    BY <1>2 DEF Acquires, At, phases, Phase
  <2>3. phases = [u \in Thread |-> phases[u]]
    BY DEF phases
  <2> QED BY <2>1, <2>2, <2>3, <1>2 DEF Acquires
<1>3. ASSUME NEW t \in Thread, ReadRequest(t) \/ WriteRequest(t)
      PROVE  A!Read(t) \/ A!Write(t)
  <2>1. phases' = [phases EXCEPT ![t] = "done"]
    BY <1>3, PhaseOfGoto DEF ReadRequest, WriteRequest, Issue, Places, Phase
  <2>2. phases[t] = "called"
    BY <1>3 DEF ReadRequest, WriteRequest, Issue, At, phases, Phase
  <2>3. ~ active
    BY <1>3 DEF ReadRequest, WriteRequest, Issue, At, OneRequest
  <2> QED BY <2>1, <2>2, <2>3, <1>3
          DEF ReadRequest, WriteRequest, A!Read, A!Write, A!Become, phases, Phase
<1>4. ASSUME NEW t \in Thread, Waits(t)
      PROVE  UNCHANGED <<sectors, phases, request>>
  <2>1. phases' = [phases EXCEPT ![t] = "done"]
    BY <1>4, PhaseOfGoto DEF Waits, Places, Phase
  <2>2. phases[t] = "done"
    BY <1>4 DEF Waits, At, phases, Phase
  <2>3. phases = [u \in Thread |-> phases[u]]
    BY DEF phases
  <2> QED BY <2>1, <2>2, <2>3, <1>4 DEF Waits
<1>5. ASSUME NEW t \in Thread, Releases(t)
      PROVE  A!Return(t)
  <2>1. phases' = [phases EXCEPT ![t] = "outside"]
    BY <1>5, PhaseOfGoto DEF Releases, Places, Phase
  <2>2. phases[t] = "done"
    BY <1>5 DEF Releases, At, phases, Phase
  <2> QED BY <2>1, <2>2, <1>5 DEF Releases, A!Return, A!Become, phases, Phase
<1>6. DiskDone \/ UNCHANGED vars => UNCHANGED <<sectors, phases, request>>
  BY DEF DiskDone, vars, phases
<1>7. Requests = A!Requests
  BY DEF Requests, A!Requests
<1> QED BY <1>1, <1>2, <1>3, <1>4, <1>5, <1>6, <1>7 DEF Next, Step, A!Next

\* ReadSector and WriteSector are what AtomicDisk promises, for any threads,
\* sectors and contents.
THEOREM AtomicSectors == Spec => ImplementsAtomicDisk
<1>1. Spec => []DiskInv
  BY DiskSafe, PTL DEF DiskInv
<1>2. Init => A!Init
  BY InitRefines
<1>3. DiskInv /\ [Next]_vars => [A!Next]_(A!vars)
  BY NextRefines
<1> QED BY <1>1, <1>2, <1>3, PTL DEF Spec, ImplementsAtomicDisk, A!Spec

=============================================================================
