-------------------------------- MODULE Synch -------------------------------
(***************************************************************************)
(* The synchronization primitives of threads/synch.cc -- semaphores, locks *)
(* and (Mesa) condition variables -- over the scheduler of Threads, with   *)
(* the device interrupts whose handlers call Semaphore::V.                 *)
(*                                                                         *)
(* The threads may call any operation at any time.  A call that does       *)
(* nothing (Wait, Signal or Broadcast without the lock, Signal with nobody *)
(* waiting) is a stuttering step and has no action.                        *)
(***************************************************************************)
EXTENDS Threads, FiniteSets

CONSTANTS
  Sem, Lock, Cond,  \* the objects of the three classes
  NoObject,         \* no object
  MaxSem            \* bound: a semaphore's value and its pending V's add up to
                    \* at most this

\* The objects that have a queue of threads.
Object == Sem \cup Lock \cup Cond

ASSUME ObjectAssumption ==
  /\ Sem \cap Lock = {} /\ Sem \cap Cond = {} /\ Lock \cap Cond = {}
  /\ NoObject \notin Object
ASSUME ThreadAssumption == IsFiniteSet(Thread)
ASSUME BoundAssumption == MaxSem \in Nat

VARIABLES
  semValue,       \* Semaphore::value
  lockValue,      \* Lock::value, 1 when the lock is BUSY
  lockThread,     \* Lock::myThread
  queue,          \* the queue of each object
  on,             \* on[t]: the object of the call that t is in
  conditionLock,  \* conditionLock[t]: the argument of the Wait that t is in
  pendingIO,      \* pendingIO[s]: pending interrupts whose handler does s->V()
  inside          \* history: inside[t], the locks that t has been given by a
                  \* return from Acquire or Wait and has not given back since

synchVars == <<semValue, lockValue, lockThread, queue, on, conditionLock,
               pendingIO, inside>>
vars == <<threadVars, synchVars>>

\* Types of the synchronization objects' variables.
SynchTypeOK ==
  /\ semValue \in [Sem -> 0..MaxSem]
  /\ lockValue \in [Lock -> {0, 1}]
  /\ lockThread \in [Lock -> Thread \cup {NoThread}]
  /\ queue \in [Object -> Seq(Elements(Thread))]
  /\ on \in [Thread -> Object \cup {NoObject}]
  /\ conditionLock \in [Thread -> Lock \cup {NoObject}]
  /\ pendingIO \in [Sem -> 0..MaxSem]
  /\ \A s \in Sem : semValue[s] + pendingIO[s] <= MaxSem
  /\ inside \in [Thread -> SUBSET Lock]

\* The type invariant: in particular no semaphore becomes negative, and a
\* resumed call is on an object.
TypeOK == ThreadTypeOK /\ SynchTypeOK

Init ==
  /\ ThreadInit
  /\ semValue \in [Sem -> 0..MaxSem]
  /\ lockValue = [l \in Lock |-> 0]
  /\ lockThread = [l \in Lock |-> NoThread]
  /\ queue = [o \in Object |-> <<>>]
  /\ on = [t \in Thread |-> NoObject]
  /\ conditionLock = [t \in Thread |-> NoObject]
  /\ pendingIO = [s \in Sem |-> 0]
  /\ inside = [t \in Thread |-> {}]

-----------------------------------------------------------------------------

\* Queue q once t has put itself on it, with its priority.
Enqueued(q, t) == SortedInsert(q, t, Key(t))

\* t goes to sleep in call on object o, having put itself on its queue.
Block(t, oldStatus, call, o, l, queues) ==
  /\ Sleep(t, oldStatus, call)
  /\ queue' = [queues EXCEPT ![o] = Enqueued(@, t)]
  /\ on' = [on EXCEPT ![t] = o]
  /\ conditionLock' = [conditionLock EXCEPT ![t] = l]

\* t returns from the call it was in.
Finished(t) ==
  /\ Return(t)
  /\ on' = [on EXCEPT ![t] = NoObject]
  /\ conditionLock' = [conditionLock EXCEPT ![t] = NoObject]

-----------------------------------------------------------------------------
\* Semaphores

\* Mutant of PLoop: the test is off by one.
PLoopOffByOne(t, s, oldStatus) ==
  /\ semValue[s] >= 0
  /\ semValue' = [semValue EXCEPT ![s] = @ - 1]
  /\ status' = oldStatus
  /\ Finished(t)
  /\ UNCHANGED <<cpu, queue>>

\* The loop of Semaphore::P: take a unit, or sleep.
PLoop(t, s, oldStatus) ==
  \/ /\ semValue[s] > 0
     /\ semValue' = [semValue EXCEPT ![s] = @ - 1]
     /\ status' = oldStatus
     /\ Finished(t)
     /\ UNCHANGED <<cpu, queue>>
  \/ /\ semValue[s] = 0
     /\ Block(t, oldStatus, "P", s, NoObject, queue)
     /\ UNCHANGED semValue

P(t, s) ==
  /\ Executing(t)
  /\ PLoop(t, s, status)
  /\ UNCHANGED <<currentThread, priority, readyList, threadToBeDestroyed,
                 lockValue, lockThread, pendingIO, inside>>

\* A thread woken in P tests the value again.
ResumeP(t) ==
  /\ Resumed(t, "P")
  /\ PLoop(t, on[t], Reaped)
  /\ threadToBeDestroyed' = NoThread
  /\ UNCHANGED <<currentThread, priority, readyList, lockValue, lockThread,
                 pendingIO, inside>>

\* Mutant of WakeFirst: the thread stays on the queue.
WakeFirstKeeps(o) ==
  \/ /\ queue[o] = <<>>
     /\ UNCHANGED <<queue, status, readyList>>
  \/ /\ queue[o] # <<>>
     /\ status' = [status EXCEPT ![First(queue[o])] = "READY"]
     /\ readyList' = Ready(readyList, First(queue[o]))
     /\ UNCHANGED queue

\* The first thread of object o's queue, if there is one, is made ready.
WakeFirst(o) ==
  \/ /\ queue[o] = <<>>
     /\ UNCHANGED <<queue, status, readyList>>
  \/ /\ queue[o] # <<>>
     /\ queue' = [queue EXCEPT ![o] = Rest(@)]
     /\ status' = [status EXCEPT ![First(queue[o])] = "READY"]
     /\ readyList' = Ready(readyList, First(queue[o]))

\* Mutant of DoV: a thread is woken only when the value was 0.
DoVFromZero(s) ==
  /\ IF semValue[s] = 0 THEN WakeFirst(s) ELSE UNCHANGED <<queue, status, readyList>>
  /\ semValue' = [semValue EXCEPT ![s] = @ + 1]

\* Semaphore::V, by a thread or by an interrupt handler.
DoV(s) ==
  /\ WakeFirst(s)
  /\ semValue' = [semValue EXCEPT ![s] = @ + 1]

V(s) ==
  /\ Executing(currentThread)
  /\ semValue[s] + pendingIO[s] < MaxSem
  /\ DoV(s)
  /\ UNCHANGED <<cpu, level, currentThread, priority, threadToBeDestroyed, frame,
                 lockValue, lockThread, on, conditionLock, pendingIO, inside>>

-----------------------------------------------------------------------------
\* Locks

\* The loop of Lock::Acquire: take the lock, or sleep.
AcquireLoop(t, l, oldStatus) ==
  \/ /\ lockValue[l] = 0
     /\ lockValue' = [lockValue EXCEPT ![l] = 1]
     /\ lockThread' = [lockThread EXCEPT ![l] = t]
     /\ inside' = [inside EXCEPT ![t] = @ \cup {l}]
     /\ status' = oldStatus
     /\ Finished(t)
     /\ UNCHANGED <<cpu, queue>>
  \/ /\ lockValue[l] = 1
     /\ Block(t, oldStatus, "Acquire", l, NoObject, queue)
     /\ UNCHANGED <<lockValue, lockThread, inside>>

Acquire(t, l) ==
  /\ Executing(t)
  /\ lockThread[l] # t
  /\ AcquireLoop(t, l, status)
  /\ UNCHANGED <<currentThread, priority, readyList, threadToBeDestroyed,
                 semValue, pendingIO>>

\* Mutant of ResumeAcquire: "if" instead of "while".
ResumeAcquireIf(t) ==
  /\ Resumed(t, "Acquire")
  /\ lockValue' = [lockValue EXCEPT ![on[t]] = 1]
  /\ lockThread' = [lockThread EXCEPT ![on[t]] = t]
  /\ inside' = [inside EXCEPT ![t] = @ \cup {on[t]}]
  /\ status' = Reaped
  /\ Finished(t)
  /\ threadToBeDestroyed' = NoThread
  /\ UNCHANGED <<cpu, queue, currentThread, priority, readyList, semValue, pendingIO>>

\* A thread woken in Acquire tests the value again.
ResumeAcquire(t) ==
  /\ Resumed(t, "Acquire")
  /\ AcquireLoop(t, on[t], Reaped)
  /\ threadToBeDestroyed' = NoThread
  /\ UNCHANGED <<currentThread, priority, readyList, semValue, pendingIO>>

\* The assignments of Lock::Release.
Freed(t, l) ==
  /\ lockValue' = [lockValue EXCEPT ![l] = 0]
  /\ lockThread' = [lockThread EXCEPT ![l] = NoThread]
  /\ inside' = [inside EXCEPT ![t] = @ \ {l}]

\* Mutant of Release: no thread is woken.
ReleaseWakesNobody(t, l) ==
  /\ Executing(t)
  /\ lockThread[l] = t
  /\ Freed(t, l)
  /\ UNCHANGED <<cpu, level, currentThread, status, priority, readyList,
                 threadToBeDestroyed, frame, queue, semValue, on, conditionLock, pendingIO>>

Release(t, l) ==
  /\ Executing(t)
  /\ lockThread[l] = t
  /\ WakeFirst(l)
  /\ Freed(t, l)
  /\ UNCHANGED <<cpu, level, currentThread, priority, threadToBeDestroyed, frame,
                 semValue, on, conditionLock, pendingIO>>

\* Acquire of a lock the thread has, and Release of a lock it has not: the
\* ASSERTs marked TEST 1 and TEST 2.
AcquireFails(t, l) ==
  /\ lockThread[l] = t
  /\ Abort(t)
  /\ UNCHANGED synchVars

ReleaseFails(t, l) ==
  /\ lockThread[l] # t
  /\ Abort(t)
  /\ UNCHANGED synchVars

-----------------------------------------------------------------------------
\* Conditions

\* Condition::Wait, up to the SWITCH out of Sleep: the thread queues itself,
\* releases the lock (waking a thread that waits for it) and goes to sleep,
\* all with interrupts off.
Wait(t, c, l) ==
  /\ Executing(t)
  /\ lockThread[l] = t
  /\ Freed(t, l)
  /\ \/ /\ queue[l] = <<>>
        /\ Block(t, status, "Wait", c, l, queue)
        /\ UNCHANGED readyList
     \/ /\ queue[l] # <<>>
        /\ Block(t, [status EXCEPT ![First(queue[l])] = "READY"], "Wait", c, l,
                 [queue EXCEPT ![l] = Rest(@)])
        /\ readyList' = Ready(readyList, First(queue[l]))
  /\ UNCHANGED <<currentThread, priority, threadToBeDestroyed, semValue, pendingIO>>

\* Mutant of ResumeWait: returns without the lock.
ResumeWaitNoAcquire(t) ==
  /\ Resumed(t, "Wait")
  /\ status' = Reaped
  /\ Finished(t)
  /\ threadToBeDestroyed' = NoThread
  /\ UNCHANGED <<cpu, queue, currentThread, priority, readyList, semValue, pendingIO,
                 lockValue, lockThread, inside>>

\* The rest of Wait, in a thread that has been signalled: it acquires the lock
\* like any other thread (if it must sleep, it is in Acquire from then on).
ResumeWait(t) ==
  /\ Resumed(t, "Wait")
  /\ AcquireLoop(t, conditionLock[t], Reaped)
  /\ threadToBeDestroyed' = NoThread
  /\ UNCHANGED <<currentThread, priority, readyList, semValue, pendingIO>>

\* Condition::Signal.
Signal(t, c, l) ==
  /\ Executing(t)
  /\ lockThread[l] = t
  /\ WakeFirst(c)
  /\ UNCHANGED <<cpu, level, currentThread, priority, threadToBeDestroyed, frame,
                 semValue, lockValue, lockThread, on, conditionLock, pendingIO, inside>>

\* Condition::Broadcast runs with interrupts off from its first to its last
\* action: BroadcastLoop is one turn of its loop, or its exit.
Broadcast(t, c, l) ==
  /\ Executing(t)
  /\ lockThread[l] = t
  /\ level' = "IntOff"
  /\ frame' = [frame EXCEPT ![t] = "Broadcast"]
  /\ on' = [on EXCEPT ![t] = c]
  /\ UNCHANGED <<cpu, currentThread, status, priority, readyList, threadToBeDestroyed,
                 semValue, lockValue, lockThread, queue, conditionLock, pendingIO, inside>>

BroadcastLoop(t) ==
  /\ Resumed(t, "Broadcast")
  /\ \/ queue[on[t]] # <<>> /\ WakeFirst(on[t]) /\ UNCHANGED <<level, frame, on, conditionLock>>
     \/ queue[on[t]] = <<>> /\ Finished(t) /\ UNCHANGED <<queue, status, readyList>>
  /\ UNCHANGED <<cpu, currentThread, priority, threadToBeDestroyed,
                 semValue, lockValue, lockThread, pendingIO, inside>>

-----------------------------------------------------------------------------
\* Device interrupts

\* A thread starts a device operation, whose completion handler does s->V()
\* (SynchDisk::RequestDone, PostOffice::PacketSent, ...).
StartIO(s) ==
  /\ Executing(currentThread)
  /\ semValue[s] + pendingIO[s] < MaxSem
  /\ pendingIO' = [pendingIO EXCEPT ![s] = @ + 1]
  /\ UNCHANGED <<threadVars, semValue, lockValue, lockThread, queue, on,
                 conditionLock, inside>>

\* The interrupt is due when a thread enables interrupts (OneTick).
IOInterrupt(s) ==
  /\ Executing(currentThread)
  /\ pendingIO[s] > 0
  /\ DoV(s)
  /\ pendingIO' = [pendingIO EXCEPT ![s] = @ - 1]
  /\ UNCHANGED <<cpu, level, currentThread, priority, threadToBeDestroyed, frame,
                 lockValue, lockThread, on, conditionLock, inside>>

\* No thread is ready: Interrupt::Idle advances the clock to the first pending
\* interrupt, and fires it and the others that are due at the same time.
Idle(s) ==
  /\ (cpu = "asleep" /\ readyList = <<>>) \/ cpu = "idle"
  /\ pendingIO[s] > 0
  /\ DoV(s)
  /\ pendingIO' = [pendingIO EXCEPT ![s] = @ - 1]
  /\ cpu' = "idle"
  /\ UNCHANGED <<level, currentThread, priority, threadToBeDestroyed, frame,
                 lockValue, lockThread, on, conditionLock, inside>>

\* Idle returns to the loop of Sleep.
IdleReturns ==
  /\ cpu = "idle"
  /\ cpu' = "asleep"
  /\ UNCHANGED <<level, currentThread, status, priority, readyList,
                 threadToBeDestroyed, frame, synchVars>>

\* No thread is ready and no interrupt is pending (but the timer's): Halt.
Halt ==
  /\ cpu = "asleep"
  /\ readyList = <<>>
  /\ \A s \in Sem : pendingIO[s] = 0
  /\ cpu' = "halted"
  /\ UNCHANGED <<level, currentThread, status, priority, readyList,
                 threadToBeDestroyed, frame, synchVars>>

-----------------------------------------------------------------------------

\* What the running procedures do with threads ...
ThreadCall ==
  /\ \/ \E t \in Thread, p \in Priority : SetPriority(t, p)
     \/ \E t \in Thread : Fork(t) \/ Yield(t) \/ Finish(t)
  /\ UNCHANGED synchVars

\* ... with synchronization objects ...
SynchCall ==
  \/ \E t \in Thread, s \in Sem : P(t, s)
  \/ \E s \in Sem : V(s) \/ StartIO(s)
  \/ \E t \in Thread, l \in Lock :
       Acquire(t, l) \/ Release(t, l) \/ AcquireFails(t, l) \/ ReleaseFails(t, l)
  \/ \E t \in Thread, c \in Cond, l \in Lock :
       Wait(t, c, l) \/ Signal(t, c, l) \/ Broadcast(t, c, l)

\* ... and what the kernel does by itself, with interrupts off.
KernelStep ==
  \/ \E t \in Thread : (Start(t) \/ ResumeYield(t)) /\ UNCHANGED synchVars
  \/ \E t \in Thread :
       ResumeP(t) \/ ResumeAcquire(t) \/ ResumeWait(t) \/ BroadcastLoop(t)
  \/ Dispatch /\ UNCHANGED synchVars
  \/ \E s \in Sem : Idle(s)
  \/ IdleReturns
  \/ Halt

TimeSlice == \E t \in Thread : TimerYield(t) /\ UNCHANGED synchVars

\* The program is over.
Over == cpu \in {"halted", "aborted"} /\ UNCHANGED vars

Next ==
  \/ ThreadCall
  \/ SynchCall
  \/ KernelStep
  \/ TimeSlice
  \/ \E s \in Sem : IOInterrupt(s)
  \/ Over

Spec == Init /\ [][Next]_vars

\* A call or a return enables interrupts again, and SetLevel calls OneTick: only
\* then does time pass for the timer.  A procedure that computes, sets priorities
\* or starts devices takes no time.
OneTick ==
  /\ cpu' = "running" /\ level' = "IntOn"
  /\ \/ level = "IntOff"
     \/ \E t \in Thread : Fork(t) /\ UNCHANGED synchVars
     \/ \E s \in Sem : P(currentThread, s) \/ V(s)
     \/ \E l \in Lock : Acquire(currentThread, l) \/ Release(currentThread, l)
     \/ \E c \in Cond, l \in Lock : Signal(currentThread, c, l)

\* The processor always goes on with code that runs with interrupts off.  When
\* the clock ticks for ever while a thread is ready, the timer interrupts again
\* and again (-rs); nothing interrupts a procedure that makes no call, and
\* nothing makes it call.
TimerFires ==
  <>[](readyList # <<>>) /\ []<><<OneTick>>_vars => []<><<TimeSlice>>_vars

Fairness == WF_vars(KernelStep) /\ TimerFires

FairSpec == Spec /\ Fairness

-----------------------------------------------------------------------------
\* The threads and their queues

\* t is waiting on an object's queue, or has been taken off it by a V, a
\* Release or a Signal, and has not yet tested the object again.
Waiting(t) == status[t] = "BLOCKED" /\ frame[t] \in {"P", "Acquire", "Wait"}
Woken(t)   == status[t] \in {"READY", "RUNNING"} /\ frame[t] \in {"P", "Acquire", "Wait"}

\* Every thread is in exactly one place, the one its status and its frame say:
\* the threads on the ready list are the READY ones, each once; those on an
\* object's queue are the ones blocked in a call on that object, each once;
\* and nobody but currentThread is RUNNING.  A thread that is woken twice, put
\* on two lists, or dispatched while it is on a list breaks this, and so does
\* one that is deleted while some list still has it.
ThreadPlacement ==
  /\ Items(readyList) = {t \in Thread : status[t] = "READY"}
  /\ NoDuplicates(readyList)
  /\ \A o \in Object :
       /\ Items(queue[o]) = {t \in Thread : Waiting(t) /\ on[t] = o}
       /\ NoDuplicates(queue[o])
  /\ {t \in Thread : status[t] = "RUNNING"} =
       IF cpu \in {"running", "aborted"} THEN {currentThread} ELSE {}

\* A thread's status agrees with the call it is in and with the processor: only
\* the running thread may have interrupts enabled, and has them disabled just
\* when it is inside a kernel call; a thread that sleeps or is ready is inside
\* a call that switched it out, on an object of the class of that call.
CallDiscipline ==
  /\ \A t \in Thread :
       /\ status[t] = "JUST_CREATED" => frame[t] = "ThreadRoot"
       /\ status[t] = "READY" => frame[t] \in {"ThreadRoot", "Yield", "P", "Acquire", "Wait"}
       /\ status[t] = "BLOCKED" => frame[t] \in {"P", "Acquire", "Wait", "Finish"}
       /\ status[t] = "DELETED" => frame[t] = "Finish"
       /\ status[t] = "RUNNING" => /\ frame[t] # "Finish"
                                   /\ level = "IntOn" <=> frame[t] = "Running"
       /\ frame[t] = "P" => on[t] \in Sem
       /\ frame[t] = "Acquire" => on[t] \in Lock
       /\ frame[t] = "Wait" => on[t] \in Cond /\ conditionLock[t] \in Lock
       /\ frame[t] = "Broadcast" => on[t] \in Cond /\ \E l \in Lock : lockThread[l] = t
  /\ cpu \in {"asleep", "idle", "halted"} => level = "IntOff"

\* The thread that Scheduler::Run will delete has finished and has not been
\* deleted before, and when a thread runs that could delete it, it is not that
\* thread itself (the ASSERT of ~Thread).
CarcassIsDead ==
  threadToBeDestroyed # NoThread =>
    /\ frame[threadToBeDestroyed] = "Finish"
    /\ status[threadToBeDestroyed] = "BLOCKED"
    /\ cpu = "running" => threadToBeDestroyed # currentThread

-----------------------------------------------------------------------------
\* What the primitives promise

\* Mutual exclusion: at most one thread is between its return from Acquire (or
\* Wait) and its next Release (or Wait) of a lock, and Lock::myThread names it.
MutualExclusion ==
  \A l \in Lock :
    /\ \A t \in Thread : l \in inside[t] <=> lockThread[l] = t
    /\ lockValue[l] = 0 <=> lockThread[l] = NoThread

\* Release loses no wakeup: when a lock is FREE and threads wait for it, one of
\* those that were waiting is on its way to take it.
LockNoLostWakeup ==
  \A l \in Lock :
    lockValue[l] = 0 /\ queue[l] # <<>> =>
      \E t \in Thread : Woken(t) /\ frame[t] = "Acquire" /\ on[t] = l

\* V loses no wakeup: while threads wait in P, every unit of the semaphore has
\* a woken thread on its way to take it.
SemaphoreNoLostWakeup ==
  \A s \in Sem :
    queue[s] # <<>> =>
      semValue[s] <= Cardinality({t \in Thread : Woken(t) /\ frame[t] = "P" /\ on[t] = s})

\* Nobody is deleted before Finish, nor comes back after: the thread object is
\* gone for good.
DeletedForGood ==
  [][\A t \in Thread :
       /\ status[t] = "DELETED" => status'[t] = "DELETED"
       /\ status[t] # "DELETED" /\ status'[t] = "DELETED" =>
            frame[t] = "Finish" /\ currentThread # t]_vars

\* In the end one procedure has the processor and never enters the kernel again.
ComputesForEver ==
  <>[](cpu = "running" /\ level = "IntOn") /\ <>[][~ OneTick]_vars

\* "it will eventually be re-scheduled" (Thread::Yield): a thread on the ready
\* list gets the processor, unless an ASSERT ends the program, or some procedure
\* computes for ever and is never interrupted.
EventuallyScheduled ==
  \/ \A t \in Thread : status[t] = "READY" ~> (status[t] = "RUNNING" \/ cpu = "aborted")
  \/ ComputesForEver

\* "Scheduler::Run() will call the destructor, once we're running in the context
\* of a different thread" (Thread::Finish): a finished thread is deleted or is
\* the one that will be.
FinishedWillBeDeleted ==
  \A t \in Thread :
    frame[t] = "Finish" => status[t] = "DELETED" \/ threadToBeDestroyed = t

\* What the call that t is in means in Monitor: it wants a unit or a lock, waits
\* for a signal, has been signalled and wants its lock again, or none of these.
Activity(t) ==
  CASE frame[t] \in {"P", "Acquire"} -> [wants |-> on[t], then |-> NoObject]
    [] frame[t] = "Wait" /\ t \in Items(queue[on[t]]) ->
         [wants |-> on[t], then |-> conditionLock[t]]
    [] frame[t] = "Wait" /\ t \notin Items(queue[on[t]]) ->
         [wants |-> conditionLock[t], then |-> NoObject]
    [] OTHER -> [wants |-> NoObject, then |-> NoObject]

activities == [t \in Thread |-> Activity(t)]

M == INSTANCE Monitor WITH owner <- lockThread, count <- semValue, doing <- activities

\* The primitives are the ones of Monitor: the kernel's queues, wakeups and
\* retries all happen inside its steps.
ImplementsMonitor == M!Spec

=============================================================================
