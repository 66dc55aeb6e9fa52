------------------------------- MODULE Devices ------------------------------
(***************************************************************************)
(* The simulated time of machine/interrupt.cc, and the devices that        *)
(* interrupt at set times: the timer (machine/timer.cc), the disk          *)
(* (machine/disk.cc) and a console or network, which polls.                *)
(*                                                                         *)
(* Time advances when a thread enables interrupts or executes a user       *)
(* instruction, and when no thread is ready to run.  A step is one call of *)
(* CheckIfDue, or what a thread does between two.  The threads are only    *)
(* counted: which one runs is the matter of Threads.                       *)
(***************************************************************************)
EXTENDS NachosList

CONSTANTS
  UserTick, SystemTick,       \* the time of an instruction, of a SetLevel
  TimerTicks, PollTime,       \* PollTime: ConsoleTime and NetworkTime
  RotationTime, SeekTime,     \* past one sector, past one track
  SectorsPerTrack, NumTracks,
  MaxTime,                    \* the largest int
  MaxThreads                  \* a bound on the threads alive

ASSUME DevicesAssumption ==
  /\ {TimerTicks, PollTime, RotationTime, SeekTime} \subseteq Nat \ {0}
  /\ {SectorsPerTrack, NumTracks, MaxThreads} \subseteq Nat \ {0}
  /\ UserTick \in Nat \ {0} /\ SystemTick \in Nat \ {0} /\ UserTick <= SystemTick
  /\ MaxTime \in Nat

VARIABLES
  totalTicks,    \* the time
  pending,       \* the interrupts scheduled: the device and when
  yieldOnReturn,
  cpu,           \* where the machine is, see CpuPlaces
  ready, asleep, \* how many threads are ready to run, how many wait
  active, lastSector, bufferInit,  \* of Disk
  arrival        \* history: when the disk head came to its track

threads == <<ready, asleep>>
disk == <<active, lastSector, bufferInit, arrival>>
vars == <<totalTicks, pending, yieldOnReturn, cpu, threads, disk>>

Devs == {"timer", "disk", "poll"}

\* "running": a thread runs, with interrupts enabled; "enabling": it is about to
\* enable them; "OneTick" and "Idling": in the loop of CheckIfDue(FALSE) of
\* OneTick and of Idle; "Yield": in OneTick after that loop; "FindNextToRun": in
\* the loop of Thread::Sleep.
CpuPlaces == {"running", "enabling", "OneTick", "Yield", "FindNextToRun", "Idling",
              "halted", "aborted"}

Sectors == 0 .. SectorsPerTrack * NumTracks - 1

\* Timer::TimeOfNextInterrupt: the timer runs at random intervals.
TimeOfNextInterrupt == 1 .. 2 * TimerTicks

\* Initialize creates the timer with -rs, then enables interrupts.
Init ==
  /\ totalTicks = 0
  /\ pending \in {<<>>} \cup {<<Element("timer", t)>> : t \in TimeOfNextInterrupt}
  /\ yieldOnReturn = FALSE
  /\ cpu = "enabling"
  /\ ready = 0 /\ asleep = 0
  /\ active = FALSE /\ lastSector = 0 /\ bufferInit = 0 /\ arrival = 0

-----------------------------------------------------------------------------
(* The interrupts.                                                         *)

\* Interrupt::Schedule, on what is left of pending and at the time now; the
\* program ends, at the place given otherwise, at "the end of time".
Schedule(list, dev, now, fromNow) == pending' = SortedInsert(list, dev, now + fromNow)

InTime(now, fromNow) == now + fromNow <= MaxTime

\* What the handlers' V wakes: a thread that waits, or none if none waits for that.
HandlerWakes ==
  \E n \in {0, 1} : /\ n <= asleep
                    /\ ready' = ready + n
                    /\ asleep' = asleep - n

\* Timer::TimerExpired.  TimerInterruptHandler asks for a yield unless the status
\* is IdleMode, which it never is: CheckIfDue has set it to SystemMode.
TimerExpired(rest, now, then) ==
  \E fromNow \in TimeOfNextInterrupt :
    /\ Schedule(rest, "timer", now, fromNow)
    /\ cpu' = IF InTime(now, fromNow) THEN then ELSE "aborted"
    /\ yieldOnReturn' = TRUE
    /\ UNCHANGED <<threads, disk>>

\* Disk::HandleInterrupt, then SynchDisk::RequestDone.
HandleInterrupt(rest, then) ==
  /\ pending' = rest
  /\ active' = FALSE
  /\ HandlerWakes
  /\ cpu' = then
  /\ UNCHANGED <<yieldOnReturn, lastSector, bufferInit, arrival>>

\* Console::CheckCharAvail and Network::CheckPktAvail schedule the next poll.
Poll(rest, now, then) ==
  /\ Schedule(rest, "poll", now, PollTime)
  /\ cpu' = IF InTime(now, PollTime) THEN then ELSE "aborted"
  /\ HandlerWakes
  /\ UNCHANGED <<yieldOnReturn, disk>>

\* Mutant of OnlyTimer: the other interrupts pending are not looked at.
TimerFirst(idle) == idle /\ First(pending) = "timer"

\* The machine is idle and the interrupt is the only one, of the timer: there is
\* nothing more to do.
OnlyTimer(idle) == idle /\ First(pending) = "timer" /\ Rest(pending) = <<>>

\* The time at which CheckIfDue goes on with the first interrupt.
Advanced(advanceClock) ==
  IF advanceClock /\ Head(pending).key > totalTicks THEN Head(pending).key ELSE totalTicks

\* CheckIfDue calls the handler of the first interrupt and returns TRUE.
Fires(advanceClock, idle, then) ==
  LET now == Advanced(advanceClock)
      rest == Rest(pending)
  IN  /\ pending /= <<>>
      /\ Head(pending).key <= now
      /\ ~OnlyTimer(idle)
      /\ totalTicks' = now
      /\ \/ First(pending) = "timer" /\ TimerExpired(rest, now, then)
         \/ First(pending) = "disk" /\ HandleInterrupt(rest, then)
         \/ First(pending) = "poll" /\ Poll(rest, now, then)

\* CheckIfDue returns FALSE: there is none, or it puts the first one back, after
\* those of the same time.
FiresNone(advanceClock, idle, then) ==
  /\ \/ pending = <<>> /\ UNCHANGED <<totalTicks, pending>>
     \/ LET now == Advanced(advanceClock)
        IN  /\ pending /= <<>>
            /\ Head(pending).key > now \/ OnlyTimer(idle)
            /\ totalTicks' = now
            /\ pending' = SortedInsert(Rest(pending), First(pending), Head(pending).key)
  /\ cpu' = then
  /\ UNCHANGED <<threads, disk>>

-----------------------------------------------------------------------------
(* OneTick and Idle.                                                       *)

\* OneTick advances the time: of a user instruction when a thread runs, or of
\* enabling interrupts.
Tick ==
  /\ \/ cpu = "running" /\ totalTicks' \in {totalTicks + UserTick, totalTicks + SystemTick}
     \/ cpu = "enabling" /\ totalTicks' = totalTicks + SystemTick
  /\ cpu' = IF totalTicks' <= MaxTime THEN "OneTick" ELSE "aborted"
  /\ UNCHANGED <<pending, yieldOnReturn, threads, disk>>

\* while (CheckIfDue(FALSE)).
OneTick ==
  /\ cpu = "OneTick"
  /\ \/ Fires(FALSE, FALSE, "OneTick")
     \/ /\ FiresNone(FALSE, FALSE, IF yieldOnReturn THEN "Yield" ELSE "running")
        /\ UNCHANGED yieldOnReturn

\* The Yield that the timer asked for: whichever thread goes on next is about to
\* enable interrupts, at the end of its own Yield, in ThreadRoot or after a Sleep.
YieldDone ==
  /\ cpu = "Yield"
  /\ yieldOnReturn' = FALSE
  /\ cpu' = "enabling"
  /\ UNCHANGED <<totalTicks, pending, threads, disk>>

\* The loop of Thread::Sleep: the next thread runs, or Idle is called.
Dispatch ==
  /\ cpu = "FindNextToRun" /\ ready > 0
  /\ ready' = ready - 1
  /\ cpu' = "enabling"
  /\ UNCHANGED <<totalTicks, pending, yieldOnReturn, asleep, disk>>

\* Idle calls CheckIfDue(TRUE), and Halt when nothing was to do.
Idle ==
  /\ cpu = "FindNextToRun" /\ ready = 0
  /\ \/ Fires(TRUE, TRUE, "Idling")
     \/ FiresNone(TRUE, TRUE, "halted") /\ UNCHANGED yieldOnReturn

\* while (CheckIfDue(FALSE)) in Idle, then back to Sleep.
Idling ==
  /\ cpu = "Idling"
  /\ \/ Fires(FALSE, TRUE, "Idling")
     \/ FiresNone(FALSE, TRUE, "FindNextToRun") /\ yieldOnReturn' = FALSE

-----------------------------------------------------------------------------
(* What a running thread does.                                             *)

\* Thread::Fork and any V: a new thread or one that waits is ready.
Fork ==
  /\ cpu = "running"
  /\ ready + asleep + 1 < MaxThreads
  /\ ready' = ready + 1
  /\ cpu' = "enabling"
  /\ UNCHANGED <<totalTicks, pending, yieldOnReturn, asleep, disk>>

Wake ==
  /\ cpu = "running" /\ asleep > 0
  /\ asleep' = asleep - 1
  /\ ready' = ready + 1
  /\ cpu' = "enabling"
  /\ UNCHANGED <<totalTicks, pending, yieldOnReturn, disk>>

\* Thread::Sleep, of a thread that waits and of one that finishes.
Sleep ==
  /\ cpu = "running"
  /\ asleep' \in {asleep, asleep + 1}
  /\ cpu' = "FindNextToRun"
  /\ UNCHANGED <<totalTicks, pending, yieldOnReturn, ready, disk>>

\* The constructor of Console or Network schedules the first poll.
StartPolling ==
  /\ cpu = "running"
  /\ "poll" \notin Items(pending)
  /\ Schedule(pending, "poll", totalTicks, PollTime)
  /\ cpu' = IF InTime(totalTicks, PollTime) THEN "running" ELSE "aborted"
  /\ UNCHANGED <<totalTicks, yieldOnReturn, threads, disk>>

-----------------------------------------------------------------------------
(* The disk: sector s passes under the head, which is on its track, from   *)
(* any multiple n * RotationTime with n = s modulo SectorsPerTrack.        *)

Track(sector) == sector \div SectorsPerTrack

SeekTo(newSector) ==
  LET tracks == Track(newSector) - Track(lastSector)
  IN  (IF tracks < 0 THEN -tracks ELSE tracks) * SeekTime

\* Until the next boundary of sectors after the seek.
RotationAfter(seek) ==
  LET over == (totalTicks + seek) % RotationTime
  IN  IF over > 0 THEN RotationTime - over ELSE 0

ModuloDiff(to, from) ==
  (((to % SectorsPerTrack) - (from % SectorsPerTrack)) + SectorsPerTrack) % SectorsPerTrack

\* Disk::ComputeLatency.
ComputeLatency(newSector, writing) ==
  LET seek == SeekTo(newSector)
      rotation == RotationAfter(seek)
      timeAfter == totalTicks + seek + rotation
      inBuffer == /\ ~writing /\ seek = 0
                  /\ (timeAfter - bufferInit) \div RotationTime
                       > ModuloDiff(newSector, bufferInit \div RotationTime)
  IN  IF inBuffer
      THEN RotationTime
      ELSE seek + rotation + RotationTime
             + ModuloDiff(newSector, timeAfter \div RotationTime) * RotationTime

\* Mutant of UpdateLast: the track buffer is kept after a seek.
KeepBuffer(newSector) ==
  /\ bufferInit' = bufferInit
  /\ lastSector' = newSector

\* Disk::UpdateLast.
UpdateLast(newSector) ==
  LET seek == SeekTo(newSector)
  IN  /\ bufferInit' = IF seek /= 0 THEN totalTicks + seek + RotationAfter(seek) ELSE bufferInit
      /\ lastSector' = newSector

\* Disk::ReadRequest and Disk::WriteRequest; SynchDisk has one request at a time.
Request(sector, writing) ==
  LET ticks == ComputeLatency(sector, writing)
  IN  /\ cpu = "running" /\ ~active
      /\ active' = TRUE
      /\ UpdateLast(sector)
      /\ arrival' = IF Track(sector) = Track(lastSector) THEN arrival
                    ELSE totalTicks + SeekTo(sector)
      /\ Schedule(pending, "disk", totalTicks, ticks)
      /\ cpu' = IF InTime(totalTicks, ticks) THEN "running" ELSE "aborted"
      /\ UNCHANGED <<totalTicks, yieldOnReturn, threads>>

-----------------------------------------------------------------------------

Next ==
  \/ Tick \/ OneTick \/ YieldDone
  \/ Dispatch \/ Idle \/ Idling
  \/ Fork \/ Wake \/ Sleep
  \/ StartPolling
  \/ \E sector \in Sectors, writing \in BOOLEAN : Request(sector, writing)

Spec == Init /\ [][Next]_vars

-----------------------------------------------------------------------------

TypeOK ==
  /\ totalTicks \in Nat
  /\ pending \in Seq([item : Devs, key : Nat])
  /\ yieldOnReturn \in BOOLEAN
  /\ cpu \in CpuPlaces
  /\ ready \in Nat /\ asleep \in Nat
  /\ ready + asleep <= MaxThreads
  /\ active \in BOOLEAN
  /\ lastSector \in Sectors
  /\ bufferInit \in Nat /\ arrival \in Nat

Overdue == {i \in 1 .. Len(pending) : pending[i].key <= totalTicks}

\* No interrupt is lost, early or late (interrupt.cc, CheckIfDue): each device has
\* one at most, the disk has one exactly while a request is in progress, and none
\* waits for more than the time of one SetLevel beyond its own; a thread runs only
\* when all that were due are handled and the yield they asked for is done; the
\* machine halts only when no thread is ready and no device but the timer has
\* anything to tell.
InterruptsOnTime ==
  /\ TypeOK
  /\ Sorted(pending) /\ NoDuplicates(pending)
  /\ active <=> "disk" \in Items(pending)
  /\ \A i \in 1 .. Len(pending) : totalTicks <= pending[i].key + SystemTick
  /\ cpu = "running" => Overdue = {} /\ ~yieldOnReturn
  /\ cpu = "enabling" => ~yieldOnReturn /\ (Overdue = {} \/ Items(pending) = {"timer"})
  /\ cpu = "halted" => ready = 0 /\ Items(pending) \subseteq {"timer"}

\* The interrupt of a request is one RotationTime after the first moment, not before
\* the request, from which the sector's passage begins or has begun since the head
\* came to the track; only a read can use a passage that began before the request.
TakesItsTime(sector, writing) ==
  LET from == IF Track(sector) /= Track(lastSector) THEN totalTicks + SeekTo(sector)
              ELSE IF writing THEN totalTicks ELSE arrival
      passes == {t \in from .. from + (SectorsPerTrack + 1) * RotationTime :
                   /\ t % RotationTime = 0
                   /\ (t \div RotationTime) % SectorsPerTrack = sector % SectorsPerTrack}
      first == CHOOSE t \in passes : \A u \in passes : t <= u
      start == IF first > totalTicks THEN first ELSE totalTicks
  IN  Element("disk", start + RotationTime) \in {pending'[i] : i \in 1 .. Len(pending')}

\* A request takes the time that the rotating disk imposes (disk.cc, "we then
\* figure out how long it will take to rotate completely past newSector", and the
\* track buffer, "discarded after every seek to a new track").
RightSector ==
  [][\A sector \in Sectors, writing \in BOOLEAN :
       Request(sector, writing) => TakesItsTime(sector, writing)]_vars

=============================================================================
