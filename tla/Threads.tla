------------------------------- MODULE Threads ------------------------------
(***************************************************************************)
(* Threads and the scheduler: threads/thread.cc, threads/scheduler.cc and  *)
(* the part of machine/interrupt.cc that decides when a thread can lose    *)
(* the processor.                                                          *)
(*                                                                         *)
(* Nachos runs one thread at a time and preempts it only where interrupts  *)
(* are enabled again (Interrupt::SetLevel calls OneTick), so a stretch of  *)
(* code that runs with interrupts off is one step, up to the place where   *)
(* it enables them or where SWITCH leaves the thread.  The stretch that    *)
(* follows SWITCH in the thread switched to is a step of its own: frame[t] *)
(* says which call t was switched out of, hence where it resumes.          *)
(*                                                                         *)
(* This module has the state and the operations; Synch adds semaphores,    *)
(* locks, conditions and device interrupts and has the specification.      *)
(***************************************************************************)
EXTENDS NachosList

CONSTANTS
  Thread,         \* the Thread objects
  Main,           \* the thread Initialize() makes of the running program
  NoThread,       \* a NULL Thread pointer
  Priority,       \* the values newPriority may have
  TimeSlicing     \* whether the timer device is started (option -rs)

ASSUME MainAssumption        == Main \in Thread
ASSUME NoThreadAssumption    == NoThread \notin Thread
ASSUME PriorityAssumption    == Priority \subseteq Int
ASSUME TimeSlicingAssumption == TimeSlicing \in BOOLEAN

VARIABLES
  cpu,                  \* what the processor is doing, see CpuStates
  level,                \* interrupt level, IntOn or IntOff
  currentThread,
  status,               \* status[t]; DELETED once ~Thread has run
  priority,             \* newPriority of each thread
  readyList,
  threadToBeDestroyed,  \* a finished thread whose object is still allocated
  frame                 \* frame[t]: where t is, see Frames

threadVars == <<cpu, level, currentThread, status, priority, readyList,
                threadToBeDestroyed, frame>>

\* "asleep": currentThread is in the loop of Thread::Sleep, looking for a
\* thread to run; "idle": in Interrupt::Idle, after its first handler;
\* "halted" and "aborted": the program is over, by Halt or a failed ASSERT.
CpuStates == {"running", "asleep", "idle", "halted", "aborted"}

ThreadStates == {"JUST_CREATED", "RUNNING", "READY", "BLOCKED", "DELETED"}

\* "ThreadRoot": not started; "Running": executing the forked procedure; else
\* the kernel call the thread is in (Threads has Yield and Finish, Synch the
\* others).
Frames == {"ThreadRoot", "Running", "Yield", "Finish",
           "P", "Acquire", "Wait", "Broadcast"}

\* Types of the scheduler's variables: no pointer dangles or is NULL.
ThreadTypeOK ==
  /\ cpu \in CpuStates
  /\ level \in {"IntOn", "IntOff"}
  /\ currentThread \in Thread
  /\ status \in [Thread -> ThreadStates]
  /\ priority \in [Thread -> Priority]
  /\ readyList \in Seq(Elements(Thread))
  /\ threadToBeDestroyed \in Thread \cup {NoThread}
  /\ frame \in [Thread -> Frames]

\* Initialize() makes the main thread the running one and enables interrupts.
\* newPriority is not initialized by Thread::Thread: it may be anything.
ThreadInit ==
  /\ cpu = "running"
  /\ level = "IntOn"
  /\ currentThread = Main
  /\ status = [t \in Thread |-> IF t = Main THEN "RUNNING" ELSE "JUST_CREATED"]
  /\ priority \in [Thread -> Priority]
  /\ readyList = <<>>
  /\ threadToBeDestroyed = NoThread
  /\ frame = [t \in Thread |-> IF t = Main THEN "Running" ELSE "ThreadRoot"]

-----------------------------------------------------------------------------

\* The sort key of a thread on any of the kernel's lists.
Key(t) == (-1) * priority[t]

\* Mutant of Ready: prepends.
ReadyFirst(list, t) == PrependItem(list, t)

\* Scheduler::ReadyToRun puts t on the ready list; the caller sets its status.
Ready(list, t) == SortedInsert(list, t, Key(t))

\* t executes the forked procedure, with interrupts enabled.
Executing(t) ==
  /\ cpu = "running"
  /\ currentThread = t
  /\ level = "IntOn"

\* t has just been switched to, and returns from SWITCH into the call f.
Resumed(t, f) ==
  /\ cpu = "running"
  /\ currentThread = t
  /\ level = "IntOff"
  /\ frame[t] = f

\* The end of Scheduler::Run, after SWITCH has returned: the thread that
\* finished is deleted.
Reaped ==
  IF threadToBeDestroyed = NoThread
  THEN status
  ELSE [status EXCEPT ![threadToBeDestroyed] = "DELETED"]

\* Mutant of Return: the interrupt level is not restored.
ReturnStaysOff(t) ==
  /\ frame' = [frame EXCEPT ![t] = "Running"]
  /\ level' = "IntOff"

\* t goes back to its procedure, interrupts are enabled.
Return(t) ==
  /\ frame' = [frame EXCEPT ![t] = "Running"]
  /\ level' = "IntOn"

\* Thread::Sleep, up to the loop that looks for a thread to run; oldStatus is
\* the status of the threads when Sleep is called.
Sleep(t, oldStatus, call) ==
  /\ cpu' = "asleep"
  /\ level' = "IntOff"
  /\ status' = [oldStatus EXCEPT ![t] = "BLOCKED"]
  /\ frame' = [frame EXCEPT ![t] = call]

-----------------------------------------------------------------------------

\* Thread::setPriority, called by the current thread on any thread object.
SetPriority(t, p) ==
  /\ Executing(currentThread)
  /\ status[t] # "DELETED"
  /\ priority' = [priority EXCEPT ![t] = p]
  /\ UNCHANGED <<cpu, level, currentThread, status, readyList,
                 threadToBeDestroyed, frame>>

\* Mutant of Fork: forks a thread again.
ForkAgain(t) ==
  /\ Executing(currentThread)
  /\ status[t] \notin {"RUNNING", "READY", "BLOCKED"}
  /\ status' = [status EXCEPT ![t] = "READY"]
  /\ readyList' = Ready(readyList, t)
  /\ UNCHANGED <<cpu, level, currentThread, priority, threadToBeDestroyed, frame>>

\* Thread::Fork, called by the current thread on a thread never forked before.
Fork(t) ==
  /\ Executing(currentThread)
  /\ status[t] = "JUST_CREATED"
  /\ status' = [status EXCEPT ![t] = "READY"]
  /\ readyList' = Ready(readyList, t)
  /\ UNCHANGED <<cpu, level, currentThread, priority, threadToBeDestroyed, frame>>

\* ThreadRoot: the first time a thread runs.  It does not come out of
\* Scheduler::Run, and deletes nothing.
Start(t) ==
  /\ Resumed(t, "ThreadRoot")
  /\ Return(t)
  /\ UNCHANGED <<cpu, currentThread, status, priority, readyList,
                 threadToBeDestroyed>>

\* Thread::Yield when another thread is ready.  The next thread is taken off
\* the ready list before the current one is put on it.
SwitchTo(next, t) ==
  /\ readyList' = Ready(Rest(readyList), t)
  /\ status' = [status EXCEPT ![t] = "READY", ![next] = "RUNNING"]
  /\ currentThread' = next
  /\ level' = "IntOff"
  /\ frame' = [frame EXCEPT ![t] = "Yield"]
  /\ UNCHANGED <<cpu, priority, threadToBeDestroyed>>

Yield(t) ==
  /\ Executing(t)
  /\ readyList # <<>>
  /\ SwitchTo(First(readyList), t)

\* A timer interrupt, when interrupts are enabled: the handler asks for a
\* yield on return, and OneTick calls Yield.
TimerYield(t) ==
  /\ TimeSlicing
  /\ Yield(t)

\* Mutant of ResumeYield: threadToBeDestroyed is not reset.
ResumeYieldNoReset(t) ==
  /\ Resumed(t, "Yield")
  /\ Return(t)
  /\ status' = Reaped
  /\ UNCHANGED <<cpu, currentThread, priority, readyList, threadToBeDestroyed>>

\* The end of Thread::Yield, in the thread that yielded earlier.
ResumeYield(t) ==
  /\ Resumed(t, "Yield")
  /\ Return(t)
  /\ status' = Reaped
  /\ threadToBeDestroyed' = NoThread
  /\ UNCHANGED <<cpu, currentThread, priority, readyList>>

\* Thread::Finish of a thread that is not joinable.
Finish(t) ==
  /\ Executing(t)
  /\ threadToBeDestroyed' = t
  /\ Sleep(t, status, "Finish")
  /\ UNCHANGED <<currentThread, priority, readyList>>

\* The loop of Thread::Sleep finds a thread, and Scheduler::Run switches to it.
Dispatch ==
  /\ cpu = "asleep"
  /\ readyList # <<>>
  /\ cpu' = "running"
  /\ currentThread' = First(readyList)
  /\ status' = [status EXCEPT ![First(readyList)] = "RUNNING"]
  /\ readyList' = Rest(readyList)
  /\ UNCHANGED <<level, priority, threadToBeDestroyed, frame>>

\* An ASSERT fails in the code that t executes.
Abort(t) ==
  /\ Executing(t)
  /\ cpu' = "aborted"
  /\ UNCHANGED <<level, currentThread, status, priority, readyList,
                 threadToBeDestroyed, frame>>

=============================================================================
