----------------------------- MODULE SynchProofs ----------------------------
(***************************************************************************)
(* The safety properties of Synch, for any number of threads, objects and  *)
(* priorities, and the promises of semaphores, locks and conditions: that  *)
(* no wakeup is lost, and that Synch implements Monitor.                   *)
(*                                                                         *)
(* The inductive invariant is IInv: the types, the place of every thread,  *)
(* the agreement of frames and statuses, the carcass and mutual exclusion. *)
(* None of them is inductive alone: that a thread taken off a queue is not *)
(* on the ready list already follows from its status, that its status is   *)
(* BLOCKED from its place, and that a resumed thread finds the object it   *)
(* waited for from its frame.                                              *)
(***************************************************************************)
EXTENDS Synch, NachosListProofs, FiniteSetTheorems

\* All that concerns threads, queues and the processor.
ThreadInv ==
  /\ ThreadTypeOK
  /\ queue \in [Object -> Seq(Elements(Thread))]
  /\ on \in [Thread -> Object \cup {NoObject}]
  /\ conditionLock \in [Thread -> Lock \cup {NoObject}]
  /\ ThreadPlacement
  /\ CarcassIsDead

\* The values of the objects.
ValueInv ==
  /\ semValue \in [Sem -> 0..MaxSem]
  /\ pendingIO \in [Sem -> 0..MaxSem]
  /\ \A s \in Sem : semValue[s] + pendingIO[s] <= MaxSem
  /\ lockValue \in [Lock -> {0, 1}]
  /\ lockThread \in [Lock -> Thread \cup {NoThread}]
  /\ inside \in [Thread -> SUBSET Lock]
  /\ MutualExclusion

IInv == ThreadInv /\ ValueInv /\ CallDiscipline

-----------------------------------------------------------------------------
(* Lists of threads                                                        *)

\* The sort key of a thread (minus its priority, ReadyToRun and synch.cc) is an
\* integer.
LEMMA KeyType ==
  ASSUME priority \in [Thread -> Priority], NEW t \in Thread
  PROVE  Key(t) \in Int
<1>1. priority[t] \in Int
  BY PriorityAssumption
<1> QED BY <1>1 DEF Key

\* Putting a thread on a list on which it is not.
LEMMA PutProperties ==
  ASSUME priority \in [Thread -> Priority], NEW t \in Thread,
         NEW list \in Seq(Elements(Thread)), NoDuplicates(list), t \notin Items(list)
  PROVE  /\ Ready(list, t) \in Seq(Elements(Thread))
         /\ Items(Ready(list, t)) = Items(list) \cup {t}
         /\ NoDuplicates(Ready(list, t))
         /\ Ready(list, t) # <<>>
         /\ Enqueued(list, t) = Ready(list, t)
<1>1. Key(t) \in Int
  BY KeyType
<1>2. /\ Ready(list, t) \in Seq(Elements(Thread))
      /\ Ready(list, t) # <<>>
  BY <1>1, SortedInsertType DEF Ready
<1>3. Items(Ready(list, t)) = Items(list) \cup {t}
  BY <1>1, SortedInsertItems DEF Ready
<1>4. NoDuplicates(Ready(list, t))
  BY <1>1, SortedInsertNoDuplicates DEF Ready
<1> QED BY <1>2, <1>3, <1>4 DEF Ready, Enqueued

\* Taking the first thread off a list.
LEMMA TakeProperties ==
  ASSUME NEW list \in Seq(Elements(Thread)), NoDuplicates(list), list # <<>>
  PROVE  /\ First(list) \in Thread
         /\ First(list) \in Items(list)
         /\ Rest(list) \in Seq(Elements(Thread))
         /\ Items(Rest(list)) = Items(list) \ {First(list)}
         /\ NoDuplicates(Rest(list))
  BY RemoveProperties, RemoveItems

\* A list has an item just when it has an element.
LEMMA EmptyList ==
  /\ <<>> \in Seq(Elements(Thread))
  /\ Items(<<>>) = {}
  /\ NoDuplicates(<<>>)
  BY DEF Items, NoDuplicates

-----------------------------------------------------------------------------
(* The initial states                                                      *)

\* Initialize() leaves the kernel in a state of the invariant.
LEMMA InitIInv == Init => IInv
<1> SUFFICES ASSUME Init PROVE IInv
  OBVIOUS
<1> USE DEF Init, ThreadInit
<1>1. ThreadTypeOK
  BY MainAssumption, EmptyList DEF ThreadTypeOK, CpuStates, ThreadStates, Frames
<1>2. queue \in [Object -> Seq(Elements(Thread))]
  BY EmptyList
<1>3. ThreadPlacement
  BY EmptyList, MainAssumption DEF ThreadPlacement, Waiting
<1>4. CarcassIsDead
  BY DEF CarcassIsDead
<1>5. CallDiscipline
  BY MainAssumption DEF CallDiscipline
<1>6. ValueInv
  BY BoundAssumption, NoThreadAssumption DEF ValueInv, MutualExclusion
<1> QED BY <1>1, <1>2, <1>3, <1>4, <1>5, <1>6 DEF IInv, ThreadInv

-----------------------------------------------------------------------------
(* The calls of a running thread that concern threads only                 *)

\* What the invariant says of locks and semaphores depends on synchVars only.
LEMMA ValuesUnchanged ==
  ASSUME ValueInv,
         UNCHANGED <<semValue, pendingIO, lockValue, lockThread, inside>>
  PROVE  ValueInv'
  BY DEF ValueInv, MutualExclusion

\* Thread::setPriority keeps the invariant: it moves no thread, and the keys of
\* the elements already on lists stay what they were.
LEMMA SetPriorityStep ==
  ASSUME IInv, NEW t \in Thread, NEW p \in Priority, SetPriority(t, p), UNCHANGED synchVars
  PROVE  IInv'
<1> USE DEF IInv, ThreadInv, SetPriority, synchVars
<1>1. ThreadTypeOK'
  BY DEF ThreadTypeOK
<1>2. ThreadPlacement' /\ CarcassIsDead' /\ CallDiscipline'
  BY DEF ThreadPlacement, Waiting, CarcassIsDead, CallDiscipline
<1>3. ValueInv'
  BY ValuesUnchanged
<1> QED BY <1>1, <1>2, <1>3

\* Thread::Fork keeps the invariant: the new thread goes on the ready list only.
LEMMA ForkStep ==
  ASSUME IInv, NEW t \in Thread, Fork(t), UNCHANGED synchVars
  PROVE  IInv'
<1> USE DEF IInv, ThreadInv
<1>1. /\ status[t] = "JUST_CREATED"
      /\ status' = [status EXCEPT ![t] = "READY"]
      /\ readyList' = Ready(readyList, t)
      /\ UNCHANGED <<cpu, level, currentThread, priority, threadToBeDestroyed, frame,
                     synchVars>>
  BY DEF Fork
<1>2. t \notin Items(readyList)
  BY <1>1 DEF ThreadPlacement
<1>3. /\ readyList' \in Seq(Elements(Thread))
      /\ Items(readyList') = Items(readyList) \cup {t}
      /\ NoDuplicates(readyList')
  BY <1>1, <1>2, PutProperties DEF ThreadTypeOK, ThreadPlacement
<1>4. ThreadTypeOK'
  BY <1>1, <1>3 DEF ThreadTypeOK, ThreadStates
<1>5. ThreadPlacement'
  BY <1>1, <1>3 DEF ThreadTypeOK, ThreadPlacement, Waiting, synchVars
<1>6. CarcassIsDead' /\ CallDiscipline'
  BY <1>1 DEF ThreadTypeOK, CarcassIsDead, CallDiscipline, synchVars
<1>7. ValueInv'
  BY <1>1, ValuesUnchanged DEF synchVars
<1> QED BY <1>1, <1>4, <1>5, <1>6, <1>7 DEF synchVars

\* Thread::Yield, by call or by the timer, keeps the invariant: the next thread
\* leaves the ready list and the current one enters it.
LEMMA YieldStep ==
  ASSUME IInv, NEW t \in Thread, Yield(t), UNCHANGED synchVars
  PROVE  IInv'
<1> DEFINE next == First(readyList)
<1> USE DEF IInv, ThreadInv
<1>1. /\ cpu = "running" /\ currentThread = t /\ level = "IntOn"
      /\ readyList # <<>>
      /\ readyList' = Ready(Rest(readyList), t)
      /\ status' = [status EXCEPT ![t] = "READY", ![next] = "RUNNING"]
      /\ currentThread' = next
      /\ level' = "IntOff"
      /\ frame' = [frame EXCEPT ![t] = "Yield"]
      /\ UNCHANGED <<cpu, priority, threadToBeDestroyed, synchVars>>
  BY DEF Yield, Executing, SwitchTo
<1>2. /\ next \in Thread /\ next \in Items(readyList)
      /\ Rest(readyList) \in Seq(Elements(Thread))
      /\ Items(Rest(readyList)) = Items(readyList) \ {next}
      /\ NoDuplicates(Rest(readyList))
  BY <1>1, TakeProperties DEF ThreadTypeOK, ThreadPlacement
<1> HIDE DEF next
<1>3. status[t] = "RUNNING" /\ status[next] = "READY" /\ t # next
  BY <1>1, <1>2 DEF ThreadPlacement
<1>4. /\ readyList' \in Seq(Elements(Thread))
      /\ Items(readyList') = (Items(readyList) \ {next}) \cup {t}
      /\ NoDuplicates(readyList')
  BY <1>1, <1>2, <1>3, PutProperties DEF ThreadTypeOK, ThreadPlacement
<1>5. ThreadTypeOK'
  BY <1>1, <1>2, <1>4 DEF ThreadTypeOK, ThreadStates, Frames
<1>6. ThreadPlacement'
  BY <1>1, <1>2, <1>3, <1>4 DEF ThreadTypeOK, ThreadPlacement, Waiting, synchVars
<1>7. CarcassIsDead' /\ CallDiscipline'
  BY <1>1, <1>2, <1>3 DEF ThreadTypeOK, ThreadPlacement, CarcassIsDead, CallDiscipline, synchVars
<1>8. ValueInv'
  BY <1>1, ValuesUnchanged DEF synchVars
<1> QED BY <1>1, <1>5, <1>6, <1>7, <1>8 DEF synchVars

\* Thread::Finish keeps the invariant: the thread becomes the carcass.
LEMMA FinishStep ==
  ASSUME IInv, NEW t \in Thread, Finish(t), UNCHANGED synchVars
  PROVE  IInv'
<1> USE DEF IInv, ThreadInv
<1>1. /\ cpu = "running" /\ currentThread = t /\ level = "IntOn"
      /\ threadToBeDestroyed' = t
      /\ cpu' = "asleep"
      /\ level' = "IntOff"
      /\ status' = [status EXCEPT ![t] = "BLOCKED"]
      /\ frame' = [frame EXCEPT ![t] = "Finish"]
      /\ UNCHANGED <<currentThread, priority, readyList, synchVars>>
  BY DEF Finish, Executing, Sleep
<1>2. status[t] = "RUNNING"
  BY <1>1 DEF ThreadPlacement
<1>3. ThreadTypeOK'
  BY <1>1 DEF ThreadTypeOK, CpuStates, ThreadStates, Frames
<1>4. ThreadPlacement'
  BY <1>1, <1>2 DEF ThreadTypeOK, ThreadPlacement, Waiting, synchVars
<1>5. CarcassIsDead' /\ CallDiscipline'
  BY <1>1, <1>2 DEF ThreadTypeOK, ThreadPlacement, CarcassIsDead, CallDiscipline, synchVars
<1>6. ValueInv'
  BY <1>1, ValuesUnchanged DEF synchVars
<1> QED BY <1>1, <1>3, <1>4, <1>5, <1>6 DEF synchVars

-----------------------------------------------------------------------------
(* What the kernel does by itself                                          *)

\* ThreadRoot keeps the invariant.
LEMMA StartStep ==
  ASSUME IInv, NEW t \in Thread, Start(t), UNCHANGED synchVars
  PROVE  IInv'
<1> USE DEF IInv, ThreadInv
<1>1. /\ cpu = "running" /\ currentThread = t /\ level = "IntOff" /\ frame[t] = "ThreadRoot"
      /\ frame' = [frame EXCEPT ![t] = "Running"]
      /\ level' = "IntOn"
      /\ UNCHANGED <<cpu, currentThread, status, priority, readyList, threadToBeDestroyed,
                     synchVars>>
  BY DEF Start, Resumed, Return
<1>2. status[t] = "RUNNING" /\ \A u \in Thread : status[u] = "RUNNING" => u = t
  BY <1>1 DEF ThreadPlacement
<1>3. ThreadTypeOK'
  BY <1>1 DEF ThreadTypeOK, Frames
<1>4. ThreadPlacement'
  BY <1>1, <1>2 DEF ThreadTypeOK, ThreadPlacement, Waiting, synchVars
<1>5. CarcassIsDead' /\ CallDiscipline'
  BY <1>1, <1>2 DEF ThreadTypeOK, CarcassIsDead, CallDiscipline, synchVars
<1>6. ValueInv'
  BY <1>1, ValuesUnchanged DEF synchVars
<1> QED BY <1>1, <1>3, <1>4, <1>5, <1>6 DEF synchVars

\* Deleting the finished thread: it is on no list.
LEMMA ReapedProperties ==
  ASSUME IInv, cpu = "running"
  PROVE  /\ Reaped \in [Thread -> ThreadStates]
         /\ Reaped[currentThread] = "RUNNING"
         /\ \A u \in Thread :
              \/ Reaped[u] = status[u]
              \/ status[u] = "BLOCKED" /\ frame[u] = "Finish" /\ Reaped[u] = "DELETED"
<1> USE DEF IInv, ThreadInv
<1>1. status[currentThread] = "RUNNING"
  BY DEF ThreadPlacement, ThreadTypeOK
<1>2. CASE threadToBeDestroyed = NoThread
  BY <1>1, <1>2 DEF Reaped, ThreadTypeOK
<1>3. CASE threadToBeDestroyed # NoThread
  BY <1>1, <1>3 DEF Reaped, ThreadTypeOK, ThreadStates, CarcassIsDead
<1> QED BY <1>2, <1>3

\* The end of Yield, with the deletion of the carcass, keeps the invariant.
LEMMA ResumeYieldStep ==
  ASSUME IInv, NEW t \in Thread, ResumeYield(t), UNCHANGED synchVars
  PROVE  IInv'
<1> USE DEF IInv, ThreadInv
<1>1. /\ cpu = "running" /\ currentThread = t /\ level = "IntOff" /\ frame[t] = "Yield"
      /\ frame' = [frame EXCEPT ![t] = "Running"]
      /\ level' = "IntOn"
      /\ status' = Reaped
      /\ threadToBeDestroyed' = NoThread
      /\ UNCHANGED <<cpu, currentThread, priority, readyList, synchVars>>
  BY DEF ResumeYield, Resumed, Return
<1>2. /\ status' \in [Thread -> ThreadStates]
      /\ status'[t] = "RUNNING"
      /\ \A u \in Thread :
           \/ status'[u] = status[u]
           \/ status[u] = "BLOCKED" /\ frame[u] = "Finish" /\ status'[u] = "DELETED"
  BY <1>1, ReapedProperties
<1>3. status[t] = "RUNNING" /\ \A u \in Thread : status[u] = "RUNNING" => u = t
  BY <1>1 DEF ThreadPlacement
<1>4. ThreadTypeOK'
  BY <1>1, <1>2 DEF ThreadTypeOK, Frames
<1>5. ThreadPlacement'
  BY <1>1, <1>2, <1>3 DEF ThreadTypeOK, ThreadPlacement, Waiting, synchVars
<1>6. CarcassIsDead' /\ CallDiscipline'
  BY <1>1, <1>2, <1>3 DEF ThreadTypeOK, CarcassIsDead, CallDiscipline, synchVars
<1>7. ValueInv'
  BY <1>1, ValuesUnchanged DEF synchVars
<1> QED BY <1>1, <1>4, <1>5, <1>6, <1>7 DEF synchVars

\* The loop of Sleep and Scheduler::Run keep the invariant: the thread switched to
\* is off the ready list.
LEMMA DispatchStep ==
  ASSUME IInv, Dispatch, UNCHANGED synchVars
  PROVE  IInv'
<1> DEFINE next == First(readyList)
<1> USE DEF IInv, ThreadInv
<1>1. /\ cpu = "asleep" /\ cpu' = "running"
      /\ readyList # <<>> /\ readyList' = Rest(readyList)
      /\ currentThread' = next
      /\ status' = [status EXCEPT ![next] = "RUNNING"]
      /\ UNCHANGED <<level, priority, threadToBeDestroyed, frame, synchVars>>
  BY DEF Dispatch
<1>2. /\ next \in Thread /\ next \in Items(readyList)
      /\ Rest(readyList) \in Seq(Elements(Thread))
      /\ Items(Rest(readyList)) = Items(readyList) \ {next}
      /\ NoDuplicates(Rest(readyList))
  BY <1>1, TakeProperties DEF ThreadTypeOK, ThreadPlacement
<1> HIDE DEF next
<1>3. status[next] = "READY" /\ level = "IntOff"
  BY <1>1, <1>2 DEF ThreadPlacement, CallDiscipline
<1>4. ThreadTypeOK'
  BY <1>1, <1>2 DEF ThreadTypeOK, CpuStates, ThreadStates
<1>5. ThreadPlacement'
  BY <1>1, <1>2, <1>3 DEF ThreadTypeOK, ThreadPlacement, Waiting, synchVars
<1>6. CarcassIsDead' /\ CallDiscipline'
  BY <1>1, <1>2, <1>3 DEF ThreadTypeOK, CarcassIsDead, CallDiscipline, synchVars
<1>7. ValueInv'
  BY <1>1, ValuesUnchanged DEF synchVars
<1> QED BY <1>1, <1>4, <1>5, <1>6, <1>7 DEF synchVars

\* The steps that change only what the processor is doing: a failed ASSERT, the
\* return from Idle and Halt.
LEMMA ProcessorStep ==
  ASSUME IInv,
         \/ cpu = "running" /\ cpu' = "aborted"
         \/ cpu = "idle" /\ cpu' = "asleep"
         \/ cpu = "asleep" /\ cpu' = "halted",
         UNCHANGED <<level, currentThread, status, priority, readyList,
                     threadToBeDestroyed, frame, synchVars>>
  PROVE  IInv'
<1> USE DEF IInv, ThreadInv
<1>1. ThreadTypeOK'
  BY DEF ThreadTypeOK, CpuStates
<1>2. ThreadPlacement'
  BY DEF ThreadTypeOK, ThreadPlacement, Waiting, synchVars
<1>3. CarcassIsDead' /\ CallDiscipline'
  BY DEF CarcassIsDead, CallDiscipline, synchVars
<1>4. ValueInv'
  BY ValuesUnchanged DEF synchVars
<1> QED BY <1>1, <1>2, <1>3, <1>4 DEF synchVars

-----------------------------------------------------------------------------
(* The ways in which a call ends or blocks, whatever the object            *)

\* The statuses that the running thread finds: those of the last state, or,
\* when it has just been switched to, those after the finished thread is
\* deleted.
Found(old) ==
  \/ old = status /\ UNCHANGED threadToBeDestroyed
  \/ old = Reaped /\ threadToBeDestroyed' = NoThread

\* What the running thread finds before the loop of P or Acquire, whether it has
\* just called it or has been woken in it (and has deleted the carcass).
LEMMA FoundProperties ==
  ASSUME IInv, cpu = "running", NEW old, Found(old)
  PROVE  /\ old \in [Thread -> ThreadStates]
         /\ old[currentThread] = "RUNNING"
         /\ \A u \in Thread :
              \/ old[u] = status[u]
              \/ status[u] = "BLOCKED" /\ frame[u] = "Finish" /\ old[u] = "DELETED"
         /\ threadToBeDestroyed' # NoThread =>
              /\ threadToBeDestroyed' = threadToBeDestroyed
              /\ old = status
         /\ threadToBeDestroyed' \in Thread \cup {NoThread}
<1>1. CASE old = status /\ UNCHANGED threadToBeDestroyed
  BY <1>1 DEF IInv, ThreadInv, ThreadTypeOK, ThreadPlacement
<1>2. CASE old = Reaped /\ threadToBeDestroyed' = NoThread
  BY <1>2, ReapedProperties
<1> QED BY <1>1, <1>2 DEF Found

\* Nobody else is inside Broadcast.
LEMMA OnlyCurrentBroadcasts ==
  ASSUME IInv, NEW u \in Thread, frame[u] = "Broadcast"
  PROVE  status[u] = "RUNNING"
  BY DEF IInv, ThreadInv, ThreadTypeOK, ThreadStates, CallDiscipline

\* A call returns.
LEMMA ReturnThreadInv ==
  ASSUME IInv, NEW t \in Thread, cpu = "running", currentThread = t,
         Found(status'), Finished(t),
         UNCHANGED <<cpu, currentThread, priority, readyList, queue>>
  PROVE  ThreadInv' /\ CallDiscipline'
<1> USE DEF IInv, ThreadInv
<1>1. /\ status' \in [Thread -> ThreadStates]
      /\ status'[t] = "RUNNING"
      /\ \A u \in Thread :
           \/ status'[u] = status[u]
           \/ status[u] = "BLOCKED" /\ frame[u] = "Finish" /\ status'[u] = "DELETED"
      /\ threadToBeDestroyed' # NoThread =>
           threadToBeDestroyed' = threadToBeDestroyed /\ status' = status
      /\ threadToBeDestroyed' \in Thread \cup {NoThread}
  BY FoundProperties
<1>2. /\ frame' = [frame EXCEPT ![t] = "Running"]
      /\ level' = "IntOn"
      /\ on' = [on EXCEPT ![t] = NoObject]
      /\ conditionLock' = [conditionLock EXCEPT ![t] = NoObject]
  BY DEF Finished, Return
<1>3. status[t] = "RUNNING" /\ \A u \in Thread : status[u] = "RUNNING" => u = t
  BY DEF ThreadPlacement
<1>4. ThreadTypeOK'
  BY <1>1, <1>2 DEF ThreadTypeOK, Frames
<1>5. /\ on' \in [Thread -> Object \cup {NoObject}]
      /\ conditionLock' \in [Thread -> Lock \cup {NoObject}]
  BY <1>2
<1>6. ThreadPlacement'
  BY <1>1, <1>2, <1>3 DEF ThreadTypeOK, ThreadPlacement, Waiting
<1>7. CarcassIsDead'
  BY <1>1, <1>2, <1>3 DEF ThreadTypeOK, CarcassIsDead
<1>8. CallDiscipline'
  BY <1>1, <1>2, <1>3, OnlyCurrentBroadcasts DEF ThreadTypeOK, CallDiscipline
<1> QED BY <1>4, <1>5, <1>6, <1>7, <1>8

\* The object that the call waits for is of the class of the call.
Fits(call, o, l) ==
  \/ call = "P" /\ o \in Sem /\ l = NoObject
  \/ call = "Acquire" /\ o \in Lock /\ l = NoObject
  \/ call = "Wait" /\ o \in Cond /\ l \in Lock

\* A call puts the running thread to sleep on the queue of object o.
LEMMA BlockThreadInv ==
  ASSUME IInv, NEW t \in Thread, cpu = "running", currentThread = t,
         NEW old, Found(old), NEW call, NEW o \in Object, NEW l, Fits(call, o, l),
         Block(t, old, call, o, l, queue),
         UNCHANGED <<currentThread, priority, readyList>>
  PROVE  ThreadInv' /\ CallDiscipline'
<1> USE DEF IInv, ThreadInv
<1>1. /\ old \in [Thread -> ThreadStates]
      /\ old[t] = "RUNNING"
      /\ \A u \in Thread :
           \/ old[u] = status[u]
           \/ status[u] = "BLOCKED" /\ frame[u] = "Finish" /\ old[u] = "DELETED"
      /\ threadToBeDestroyed' # NoThread =>
           threadToBeDestroyed' = threadToBeDestroyed /\ old = status
      /\ threadToBeDestroyed' \in Thread \cup {NoThread}
  BY FoundProperties
<1>2. /\ cpu' = "asleep"
      /\ level' = "IntOff"
      /\ status' = [old EXCEPT ![t] = "BLOCKED"]
      /\ frame' = [frame EXCEPT ![t] = call]
      /\ queue' = [queue EXCEPT ![o] = Enqueued(queue[o], t)]
      /\ on' = [on EXCEPT ![t] = o]
      /\ conditionLock' = [conditionLock EXCEPT ![t] = l]
  BY DEF Block, Sleep
<1>3. status[t] = "RUNNING" /\ \A u \in Thread : status[u] = "RUNNING" => u = t
  BY DEF ThreadPlacement
<1>4. t \notin Items(queue[o])
  BY <1>3 DEF ThreadPlacement, Waiting
<1>5. /\ Enqueued(queue[o], t) \in Seq(Elements(Thread))
      /\ Items(Enqueued(queue[o], t)) = Items(queue[o]) \cup {t}
      /\ NoDuplicates(Enqueued(queue[o], t))
  <2>1. priority \in [Thread -> Priority] /\ queue[o] \in Seq(Elements(Thread))
        /\ NoDuplicates(queue[o])
    BY DEF ThreadTypeOK, ThreadPlacement
  <2> QED BY <1>4, <2>1, PutProperties
<1>6. ThreadTypeOK'
  BY <1>1, <1>2 DEF ThreadTypeOK, Frames, CpuStates, ThreadStates, Fits
<1>7. /\ queue' \in [Object -> Seq(Elements(Thread))]
      /\ on' \in [Thread -> Object \cup {NoObject}]
      /\ conditionLock' \in [Thread -> Lock \cup {NoObject}]
  BY <1>2, <1>5 DEF Fits
<1>8. ThreadPlacement'
  <2>1. /\ Items(readyList') = {u \in Thread : status'[u] = "READY"}
        /\ NoDuplicates(readyList')
        /\ {u \in Thread : status'[u] = "RUNNING"} = {}
    BY <1>1, <1>2, <1>3 DEF ThreadTypeOK, ThreadPlacement
  <2>2. ASSUME NEW p \in Object
        PROVE  /\ Items(queue'[p]) = {u \in Thread : Waiting(u)' /\ on'[u] = p}
               /\ NoDuplicates(queue'[p])
    <3>1. \A u \in Thread : u # t => (Waiting(u)' <=> Waiting(u)) /\ on'[u] = on[u]
      BY <1>1, <1>2 DEF ThreadTypeOK, Waiting
    <3>2. Waiting(t)' /\ on'[t] = o /\ ~ Waiting(t)
      BY <1>1, <1>2, <1>3 DEF ThreadTypeOK, Waiting, Fits
    <3>3. CASE p = o
      BY <1>2, <1>5, <3>1, <3>2, <3>3 DEF ThreadPlacement
    <3>4. CASE p # o
      BY <1>2, <3>1, <3>2, <3>4 DEF ThreadPlacement
    <3> QED BY <3>3, <3>4
  <2> QED BY <1>2, <2>1, <2>2 DEF ThreadPlacement
<1>9. CarcassIsDead'
  BY <1>1, <1>2, <1>3 DEF ThreadTypeOK, CarcassIsDead
<1>10. CallDiscipline'
  BY <1>1, <1>2, <1>3, OnlyCurrentBroadcasts DEF ThreadTypeOK, CallDiscipline, Fits
<1> QED BY <1>6, <1>7, <1>8, <1>9, <1>10

\* The first thread of the queue of an object, if any, is made ready.
LEMMA WakeThreadInv ==
  ASSUME IInv, NEW o \in Object, WakeFirst(o),
         \/ UNCHANGED cpu
         \/ cpu \in {"asleep", "idle"} /\ cpu' = "idle",
         UNCHANGED <<level, currentThread, priority, threadToBeDestroyed, frame,
                     on, conditionLock>>,
         \A t \in Thread : (\E l \in Lock : lockThread[l] = t) /\ frame[t] = "Broadcast"
                            => \E l \in Lock : lockThread'[l] = t
  PROVE  ThreadInv' /\ CallDiscipline'
<1> USE DEF IInv, ThreadInv
<1>0. cpu' \in CpuStates
  BY DEF ThreadTypeOK, CpuStates
<1>1. CASE queue[o] = <<>>
  <2>1. UNCHANGED <<queue, status, readyList>>
    BY <1>1 DEF WakeFirst
  <2>2. ThreadTypeOK'
    BY <1>0, <2>1 DEF ThreadTypeOK
  <2>3. ThreadPlacement'
    BY <2>1 DEF ThreadTypeOK, ThreadPlacement, Waiting
  <2>4. CarcassIsDead' /\ CallDiscipline'
    BY <2>1 DEF ThreadTypeOK, CarcassIsDead, CallDiscipline
  <2> QED BY <2>1, <2>2, <2>3, <2>4
<1>2. CASE queue[o] # <<>>
  <2>0. PICK w : w = First(queue[o])
    OBVIOUS
  <2>1. /\ queue' = [queue EXCEPT ![o] = Rest(queue[o])]
        /\ status' = [status EXCEPT ![w] = "READY"]
        /\ readyList' = Ready(readyList, w)
    BY <1>2, <2>0 DEF WakeFirst
  <2>2. /\ w \in Thread /\ w \in Items(queue[o])
        /\ Rest(queue[o]) \in Seq(Elements(Thread))
        /\ Items(Rest(queue[o])) = Items(queue[o]) \ {w}
        /\ NoDuplicates(Rest(queue[o]))
    BY <1>2, <2>0, TakeProperties DEF ThreadPlacement
  <2>3. Waiting(w) /\ on[w] = o /\ status[w] = "BLOCKED"
    BY <2>2 DEF ThreadPlacement, Waiting
  <2>4. /\ readyList' \in Seq(Elements(Thread))
        /\ Items(readyList') = Items(readyList) \cup {w}
        /\ NoDuplicates(readyList')
    BY <2>1, <2>2, <2>3, PutProperties DEF ThreadTypeOK, ThreadPlacement
  <2>5. ThreadTypeOK'
    BY <1>0, <2>1, <2>4 DEF ThreadTypeOK, ThreadStates
  <2>6. queue' \in [Object -> Seq(Elements(Thread))]
    BY <2>1, <2>2
  <2>7. ThreadPlacement'
    <3>1. /\ Items(readyList') = {u \in Thread : status'[u] = "READY"}
          /\ {u \in Thread : status'[u] = "RUNNING"} = {u \in Thread : status[u] = "RUNNING"}
      BY <2>1, <2>2, <2>3, <2>4 DEF ThreadTypeOK, ThreadPlacement
    <3>2. ASSUME NEW p \in Object
          PROVE  /\ Items(queue'[p]) = {u \in Thread : Waiting(u)' /\ on'[u] = p}
                 /\ NoDuplicates(queue'[p])
      <4>1. \A u \in Thread : u # w => (Waiting(u)' <=> Waiting(u))
        BY <2>1 DEF ThreadTypeOK, Waiting
      <4>2. ~ Waiting(w)'
        BY <2>1, <2>2 DEF ThreadTypeOK, Waiting
      <4>3. CASE p = o
        BY <2>1, <2>2, <2>3, <4>1, <4>2, <4>3 DEF ThreadPlacement
      <4>4. CASE p # o
        BY <2>1, <2>3, <4>1, <4>2, <4>4 DEF ThreadPlacement
      <4> QED BY <4>3, <4>4
    <3> QED BY <2>4, <3>1, <3>2 DEF ThreadPlacement
  <2>8. CarcassIsDead'
    BY <2>1, <2>2, <2>3 DEF ThreadTypeOK, CarcassIsDead, Waiting
  <2>9. CallDiscipline'
    BY <2>1, <2>2, <2>3 DEF ThreadTypeOK, CallDiscipline, Waiting
  <2> QED BY <2>5, <2>6, <2>7, <2>8, <2>9
<1> QED BY <1>1, <1>2

-----------------------------------------------------------------------------
(* Semaphores                                                              *)

\* The loop of Semaphore::P keeps the invariant.
LEMMA PLoopStep ==
  ASSUME IInv, NEW t \in Thread, NEW s \in Sem, cpu = "running", currentThread = t,
         NEW old, Found(old), PLoop(t, s, old),
         UNCHANGED <<currentThread, priority, readyList, lockValue, lockThread,
                     pendingIO, inside>>
  PROVE  IInv'
<1>1. CASE /\ semValue[s] > 0
           /\ semValue' = [semValue EXCEPT ![s] = @ - 1]
           /\ status' = old
           /\ Finished(t)
           /\ UNCHANGED <<cpu, queue>>
  <2>1. ThreadInv' /\ CallDiscipline'
    BY <1>1, ReturnThreadInv
  <2>2. ValueInv'
    BY <1>1, BoundAssumption DEF IInv, ValueInv, MutualExclusion
  <2> QED BY <2>1, <2>2 DEF IInv
<1>2. CASE semValue[s] = 0 /\ Block(t, old, "P", s, NoObject, queue) /\ UNCHANGED semValue
  <2>1. s \in Object /\ Fits("P", s, NoObject)
    BY DEF Object, Fits
  <2>2. ThreadInv' /\ CallDiscipline'
    BY <1>2, <2>1, BlockThreadInv
  <2>3. ValueInv'
    BY <1>2, ValuesUnchanged DEF IInv
  <2> QED BY <2>2, <2>3 DEF IInv
<1> QED BY <1>1, <1>2 DEF PLoop

\* A call of P keeps the invariant.
LEMMA PStep ==
  ASSUME IInv, NEW t \in Thread, NEW s \in Sem, P(t, s)
  PROVE  IInv'
  BY PLoopStep DEF P, Executing, Found

\* A thread woken in P keeps the invariant.
LEMMA ResumePStep ==
  ASSUME IInv, NEW t \in Thread, ResumeP(t)
  PROVE  IInv'
<1>1. on[t] \in Sem
  BY DEF ResumeP, Resumed, IInv, CallDiscipline
<1> QED BY <1>1, PLoopStep DEF ResumeP, Resumed, Found

\* V, by a thread, by the handler of an interrupt, or by one fired in Idle.
LEMMA DoVStep ==
  ASSUME IInv, NEW s \in Sem, DoV(s),
         \/ UNCHANGED cpu
         \/ cpu \in {"asleep", "idle"} /\ cpu' = "idle",
         \/ UNCHANGED pendingIO /\ semValue[s] + pendingIO[s] < MaxSem
         \/ pendingIO[s] > 0 /\ pendingIO' = [pendingIO EXCEPT ![s] = @ - 1],
         UNCHANGED <<level, currentThread, priority, threadToBeDestroyed, frame,
                     lockValue, lockThread, on, conditionLock, inside>>
  PROVE  IInv'
<1>1. s \in Object
  BY DEF Object
<1>2. WakeFirst(s) /\ semValue' = [semValue EXCEPT ![s] = @ + 1]
  BY DEF DoV
<1>3. ThreadInv' /\ CallDiscipline'
  BY <1>1, <1>2, WakeThreadInv
<1>4. semValue \in [Sem -> 0..MaxSem] /\ pendingIO \in [Sem -> 0..MaxSem]
      /\ \A r \in Sem : semValue[r] + pendingIO[r] <= MaxSem
  BY DEF IInv, ValueInv
<1>5. /\ semValue' \in [Sem -> 0..MaxSem] /\ pendingIO' \in [Sem -> 0..MaxSem]
      /\ \A r \in Sem : semValue'[r] + pendingIO'[r] <= MaxSem
  BY <1>2, <1>4, BoundAssumption
<1>6. ValueInv'
  BY <1>5 DEF IInv, ValueInv, MutualExclusion
<1> QED BY <1>3, <1>6 DEF IInv

\* V by a thread, by an interrupt handler and in Idle keeps the invariant.
LEMMA VStep ==
  ASSUME IInv, NEW s \in Sem, V(s) \/ IOInterrupt(s) \/ Idle(s)
  PROVE  IInv'
<1>1. CASE V(s)
  BY <1>1, DoVStep DEF V
<1>2. CASE IOInterrupt(s)
  BY <1>2, DoVStep DEF IOInterrupt
<1>3. CASE Idle(s)
  BY <1>3, DoVStep DEF Idle
<1> QED BY <1>1, <1>2, <1>3

\* Starting a device operation keeps the invariant.
LEMMA StartIOStep ==
  ASSUME IInv, NEW s \in Sem, StartIO(s)
  PROVE  IInv'
<1>1. /\ semValue[s] + pendingIO[s] < MaxSem
      /\ pendingIO' = [pendingIO EXCEPT ![s] = @ + 1]
      /\ UNCHANGED <<threadVars, semValue, lockValue, lockThread, queue, on,
                     conditionLock, inside>>
  BY DEF StartIO
<1>2. ThreadInv' /\ CallDiscipline'
  BY <1>1 DEF IInv, ThreadInv, ThreadTypeOK, ThreadPlacement, Waiting, CarcassIsDead,
              CallDiscipline, threadVars
<1>3. ValueInv'
  BY <1>1, BoundAssumption DEF IInv, ValueInv, MutualExclusion
<1> QED BY <1>2, <1>3 DEF IInv

-----------------------------------------------------------------------------
(* Locks                                                                   *)

\* The loop of Lock::Acquire keeps the invariant.
LEMMA AcquireLoopStep ==
  ASSUME IInv, NEW t \in Thread, NEW l \in Lock, cpu = "running", currentThread = t,
         NEW old, Found(old), AcquireLoop(t, l, old),
         UNCHANGED <<currentThread, priority, readyList, semValue, pendingIO>>
  PROVE  IInv'
<1>1. CASE /\ lockValue[l] = 0
           /\ lockValue' = [lockValue EXCEPT ![l] = 1]
           /\ lockThread' = [lockThread EXCEPT ![l] = t]
           /\ inside' = [inside EXCEPT ![t] = @ \cup {l}]
           /\ status' = old
           /\ Finished(t)
           /\ UNCHANGED <<cpu, queue>>
  <2>1. ThreadInv' /\ CallDiscipline'
    BY <1>1, ReturnThreadInv
  <2>2. ValueInv'
    BY <1>1, NoThreadAssumption DEF IInv, ValueInv, MutualExclusion
  <2> QED BY <2>1, <2>2 DEF IInv
<1>2. CASE /\ lockValue[l] = 1
           /\ Block(t, old, "Acquire", l, NoObject, queue)
           /\ UNCHANGED <<lockValue, lockThread, inside>>
  <2>1. l \in Object /\ Fits("Acquire", l, NoObject)
    BY DEF Object, Fits
  <2>2. ThreadInv' /\ CallDiscipline'
    BY <1>2, <2>1, BlockThreadInv
  <2>3. ValueInv'
    BY <1>2, ValuesUnchanged DEF IInv
  <2> QED BY <2>2, <2>3 DEF IInv
<1> QED BY <1>1, <1>2 DEF AcquireLoop

\* A call of Acquire keeps the invariant.
LEMMA AcquireStep ==
  ASSUME IInv, NEW t \in Thread, NEW l \in Lock, Acquire(t, l)
  PROVE  IInv'
  BY AcquireLoopStep DEF Acquire, Executing, Found

\* A thread woken in Acquire keeps the invariant.
LEMMA ResumeAcquireStep ==
  ASSUME IInv, NEW t \in Thread, ResumeAcquire(t)
  PROVE  IInv'
<1>1. on[t] \in Lock
  BY DEF ResumeAcquire, Resumed, IInv, CallDiscipline
<1> QED BY <1>1, AcquireLoopStep DEF ResumeAcquire, Resumed, Found

\* A thread signalled in Wait keeps the invariant when it goes on to Acquire.
LEMMA ResumeWaitStep ==
  ASSUME IInv, NEW t \in Thread, ResumeWait(t)
  PROVE  IInv'
<1>1. conditionLock[t] \in Lock
  BY DEF ResumeWait, Resumed, IInv, CallDiscipline
<1> QED BY <1>1, AcquireLoopStep DEF ResumeWait, Resumed, Found

\* The assignments of Release keep the values consistent.
LEMMA FreedValues ==
  ASSUME ValueInv, NEW t \in Thread, NEW l \in Lock, lockThread[l] = t, Freed(t, l),
         UNCHANGED <<semValue, pendingIO>>
  PROVE  ValueInv'
<1>1. /\ lockValue' = [lockValue EXCEPT ![l] = 0]
      /\ lockThread' = [lockThread EXCEPT ![l] = NoThread]
      /\ inside' = [inside EXCEPT ![t] = @ \ {l}]
  BY DEF Freed
<1> QED BY <1>1, NoThreadAssumption DEF ValueInv, MutualExclusion

\* Lock::Release keeps the invariant.
LEMMA ReleaseStep ==
  ASSUME IInv, NEW t \in Thread, NEW l \in Lock, Release(t, l)
  PROVE  IInv'
<1>1. l \in Object
  BY DEF Object
<1>2. status[t] = "RUNNING" /\ frame[t] = "Running" /\ lockThread[l] = t
  BY DEF Release, Executing, IInv, ThreadInv, ThreadPlacement, CallDiscipline
<1>3. ASSUME NEW u \in Thread, \E k \in Lock : lockThread[k] = u, frame[u] = "Broadcast"
      PROVE  \E k \in Lock : lockThread'[k] = u
  BY <1>2, <1>3 DEF Release, Freed, IInv, ValueInv
<1>4. ThreadInv' /\ CallDiscipline'
  BY <1>1, <1>3, WakeThreadInv DEF Release
<1>5. ValueInv'
  BY <1>2, FreedValues DEF Release, IInv
<1> QED BY <1>4, <1>5 DEF IInv

-----------------------------------------------------------------------------
(* Conditions                                                              *)

\* Wait when a thread w is waiting for the lock: w is made ready and t goes to
\* sleep on the condition.
LEMMA WaitWakesThreadInv ==
  ASSUME IInv, NEW t \in Thread, NEW c \in Cond, NEW l \in Lock,
         Executing(t), queue[l] # <<>>,
         Block(t, [status EXCEPT ![First(queue[l])] = "READY"], "Wait", c, l,
               [queue EXCEPT ![l] = Rest(@)]),
         readyList' = Ready(readyList, First(queue[l])),
         UNCHANGED <<currentThread, priority, threadToBeDestroyed>>
  PROVE  ThreadInv' /\ CallDiscipline'
<1> USE DEF IInv, ThreadInv
<1>0. PICK w : w = First(queue[l])
  OBVIOUS
<1>1. l \in Object /\ c \in Object /\ l # c
  BY ObjectAssumption DEF Object
<1>2. /\ w \in Thread /\ w \in Items(queue[l])
      /\ Rest(queue[l]) \in Seq(Elements(Thread))
      /\ Items(Rest(queue[l])) = Items(queue[l]) \ {w}
      /\ NoDuplicates(Rest(queue[l]))
  BY <1>0, <1>1, TakeProperties DEF ThreadPlacement
<1>3. Waiting(w) /\ on[w] = l /\ status[w] = "BLOCKED" /\ frame[w] = "Acquire"
  <2>1. Waiting(w) /\ on[w] = l /\ status[w] = "BLOCKED"
    BY <1>1, <1>2 DEF ThreadPlacement, Waiting
  <2>2. frame[w] # "P" /\ frame[w] # "Wait"
    BY <1>2, <2>1, ObjectAssumption DEF CallDiscipline
  <2> QED BY <2>1, <2>2 DEF Waiting
<1>4. /\ cpu = "running" /\ currentThread = t /\ level = "IntOn"
      /\ status[t] = "RUNNING" /\ frame[t] = "Running" /\ t # w
      /\ \A u \in Thread : status[u] = "RUNNING" => u = t
  BY <1>3 DEF Executing, ThreadPlacement, CallDiscipline
<1>5. t \notin Items(queue[c])
  BY <1>1, <1>4 DEF ThreadPlacement, Waiting
<1>6. /\ Enqueued(queue[c], t) \in Seq(Elements(Thread))
      /\ Items(Enqueued(queue[c], t)) = Items(queue[c]) \cup {t}
      /\ NoDuplicates(Enqueued(queue[c], t))
  BY <1>1, <1>5, PutProperties DEF ThreadTypeOK, ThreadPlacement
<1>7. /\ readyList' = Ready(readyList, w)
      /\ readyList' \in Seq(Elements(Thread))
      /\ Items(readyList') = Items(readyList) \cup {w}
      /\ NoDuplicates(readyList')
  BY <1>0, <1>2, <1>3, PutProperties DEF ThreadTypeOK, ThreadPlacement
<1>8. /\ cpu' = "asleep"
      /\ level' = "IntOff"
      /\ status' = [status EXCEPT ![w] = "READY", ![t] = "BLOCKED"]
      /\ frame' = [frame EXCEPT ![t] = "Wait"]
      /\ queue' = [queue EXCEPT ![l] = Rest(queue[l]), ![c] = Enqueued(queue[c], t)]
      /\ on' = [on EXCEPT ![t] = c]
      /\ conditionLock' = [conditionLock EXCEPT ![t] = l]
  BY <1>0, <1>1 DEF Block, Sleep
<1>9. ThreadTypeOK'
  BY <1>2, <1>7, <1>8 DEF ThreadTypeOK, Frames, CpuStates, ThreadStates
<1>10. /\ queue' \in [Object -> Seq(Elements(Thread))]
       /\ on' \in [Thread -> Object \cup {NoObject}]
       /\ conditionLock' \in [Thread -> Lock \cup {NoObject}]
  BY <1>1, <1>2, <1>6, <1>8
<1>11. ThreadPlacement'
  <2>1. /\ Items(readyList') = {u \in Thread : status'[u] = "READY"}
        /\ {u \in Thread : status'[u] = "RUNNING"} = {}
    BY <1>2, <1>3, <1>4, <1>7, <1>8 DEF ThreadTypeOK, ThreadPlacement
  <2>2. ASSUME NEW p \in Object
        PROVE  /\ Items(queue'[p]) = {u \in Thread : Waiting(u)' /\ on'[u] = p}
               /\ NoDuplicates(queue'[p])
    <3>1. \A u \in Thread : u # t /\ u # w => (Waiting(u)' <=> Waiting(u)) /\ on'[u] = on[u]
      BY <1>8 DEF ThreadTypeOK, Waiting
    <3>2. Waiting(t)' /\ on'[t] = c /\ ~ Waiting(t) /\ ~ Waiting(w)' /\ on'[w] = l
      BY <1>2, <1>3, <1>4, <1>8 DEF ThreadTypeOK, Waiting
    <3>3. CASE p = c
      BY <1>1, <1>2, <1>3, <1>4, <1>6, <1>8, <3>1, <3>2, <3>3 DEF ThreadPlacement
    <3>4. CASE p = l
      <4>1. queue'[l] = Rest(queue[l])
        BY <1>1, <1>8
      <4>2. Items(queue'[l]) = {u \in Thread : Waiting(u) /\ on[u] = l} \ {w}
        BY <1>1, <1>2, <4>1 DEF ThreadPlacement
      <4>3. {u \in Thread : Waiting(u)' /\ on'[u] = l}
              = {u \in Thread : Waiting(u) /\ on[u] = l} \ {w}
        BY <1>1, <3>1, <3>2
      <4> QED BY <1>2, <3>4, <4>1, <4>2, <4>3
    <3>5. CASE p # c /\ p # l
      BY <1>3, <1>8, <3>1, <3>2, <3>5 DEF ThreadPlacement
    <3> QED BY <3>3, <3>4, <3>5
  <2> QED BY <1>7, <1>8, <2>1, <2>2 DEF ThreadPlacement
<1>12. CarcassIsDead'
  BY <1>3, <1>4, <1>8 DEF ThreadTypeOK, CarcassIsDead
<1>13. CallDiscipline'
  BY <1>2, <1>3, <1>4, <1>8, OnlyCurrentBroadcasts DEF ThreadTypeOK, CallDiscipline
<1> QED BY <1>9, <1>10, <1>11, <1>12, <1>13

\* Condition::Wait keeps the invariant.
LEMMA WaitStep ==
  ASSUME IInv, NEW t \in Thread, NEW c \in Cond, NEW l \in Lock, Wait(t, c, l)
  PROVE  IInv'
<1>1. Executing(t) /\ lockThread[l] = t /\ Freed(t, l)
      /\ UNCHANGED <<currentThread, priority, threadToBeDestroyed, semValue, pendingIO>>
  BY DEF Wait
<1>2. ValueInv'
  BY <1>1, FreedValues DEF IInv
<1>3. CASE queue[l] = <<>> /\ Block(t, status, "Wait", c, l, queue) /\ UNCHANGED readyList
  <2>1. c \in Object /\ Fits("Wait", c, l) /\ Found(status)
    BY <1>1 DEF Object, Fits, Found
  <2>2. ThreadInv' /\ CallDiscipline'
    BY <1>1, <1>3, <2>1, BlockThreadInv DEF Executing
  <2> QED BY <1>2, <2>2 DEF IInv
<1>4. CASE /\ queue[l] # <<>>
           /\ Block(t, [status EXCEPT ![First(queue[l])] = "READY"], "Wait", c, l,
                    [queue EXCEPT ![l] = Rest(@)])
           /\ readyList' = Ready(readyList, First(queue[l]))
  BY <1>1, <1>2, <1>4, WaitWakesThreadInv DEF IInv
<1> QED BY <1>3, <1>4 DEF Wait

\* Condition::Signal keeps the invariant.
LEMMA SignalStep ==
  ASSUME IInv, NEW t \in Thread, NEW c \in Cond, NEW l \in Lock, Signal(t, c, l)
  PROVE  IInv'
<1>1. c \in Object
  BY DEF Object
<1>2. ThreadInv' /\ CallDiscipline'
  BY <1>1, WakeThreadInv DEF Signal
<1>3. ValueInv'
  BY ValuesUnchanged DEF Signal, IInv
<1> QED BY <1>2, <1>3 DEF IInv

\* The start of Condition::Broadcast keeps the invariant.
LEMMA BroadcastStep ==
  ASSUME IInv, NEW t \in Thread, NEW c \in Cond, NEW l \in Lock, Broadcast(t, c, l)
  PROVE  IInv'
<1> USE DEF IInv, ThreadInv
<1>1. /\ cpu = "running" /\ currentThread = t /\ level = "IntOn" /\ lockThread[l] = t
      /\ level' = "IntOff"
      /\ frame' = [frame EXCEPT ![t] = "Broadcast"]
      /\ on' = [on EXCEPT ![t] = c]
      /\ UNCHANGED <<cpu, currentThread, status, priority, readyList, threadToBeDestroyed,
                     semValue, lockValue, lockThread, queue, conditionLock, pendingIO, inside>>
  BY DEF Broadcast, Executing
<1>2. status[t] = "RUNNING" /\ \A u \in Thread : status[u] = "RUNNING" => u = t
  BY <1>1 DEF ThreadPlacement
<1>3. ThreadTypeOK' /\ on' \in [Thread -> Object \cup {NoObject}]
  BY <1>1 DEF ThreadTypeOK, Frames, Object
<1>4. ThreadPlacement'
  BY <1>1, <1>2 DEF ThreadTypeOK, ThreadPlacement, Waiting
<1>5. CarcassIsDead' /\ CallDiscipline'
  BY <1>1, <1>2 DEF ThreadTypeOK, CarcassIsDead, CallDiscipline
<1>6. ValueInv'
  BY <1>1, ValuesUnchanged
<1> QED BY <1>1, <1>3, <1>4, <1>5, <1>6

\* A turn of Broadcast's loop, and its exit, keep the invariant.
LEMMA BroadcastLoopStep ==
  ASSUME IInv, NEW t \in Thread, BroadcastLoop(t)
  PROVE  IInv'
<1>1. /\ cpu = "running" /\ currentThread = t /\ frame[t] = "Broadcast" /\ on[t] \in Object
      /\ UNCHANGED <<cpu, currentThread, priority, threadToBeDestroyed,
                     semValue, lockValue, lockThread, pendingIO, inside>>
  BY DEF BroadcastLoop, Resumed, IInv, CallDiscipline, Object
<1>2. ValueInv'
  BY <1>1, ValuesUnchanged DEF IInv
<1>3. CASE queue[on[t]] # <<>> /\ WakeFirst(on[t]) /\ UNCHANGED <<level, frame, on, conditionLock>>
  BY <1>1, <1>2, <1>3, WakeThreadInv DEF IInv
<1>4. CASE queue[on[t]] = <<>> /\ Finished(t) /\ UNCHANGED <<queue, status, readyList>>
  BY <1>1, <1>2, <1>4, ReturnThreadInv DEF IInv, Found
<1> QED BY <1>3, <1>4 DEF BroadcastLoop

-----------------------------------------------------------------------------
(* The invariant                                                           *)

\* Every step of the kernel and of its threads keeps the invariant.
LEMMA StepIInv ==
  ASSUME IInv, [Next]_vars
  PROVE  IInv'
<1>1. ASSUME ThreadCall PROVE IInv'
  BY <1>1, SetPriorityStep, ForkStep, YieldStep, FinishStep DEF ThreadCall
<1>2. ASSUME SynchCall PROVE IInv'
  <2>1. ASSUME NEW t \in Thread, NEW l \in Lock, AcquireFails(t, l) \/ ReleaseFails(t, l)
        PROVE  IInv'
    BY <2>1, ProcessorStep DEF AcquireFails, ReleaseFails, Abort, Executing
  <2> QED BY <1>2, <2>1, PStep, VStep, StartIOStep, AcquireStep, ReleaseStep, WaitStep,
             SignalStep, BroadcastStep DEF SynchCall
<1>3. ASSUME KernelStep PROVE IInv'
  <2>1. ASSUME IdleReturns \/ Halt PROVE IInv'
    BY <2>1, ProcessorStep DEF IdleReturns, Halt
  <2> QED BY <1>3, <2>1, StartStep, ResumeYieldStep, ResumePStep, ResumeAcquireStep,
             ResumeWaitStep, BroadcastLoopStep, DispatchStep, VStep DEF KernelStep
<1>4. ASSUME TimeSlice PROVE IInv'
  BY <1>4, YieldStep DEF TimeSlice, TimerYield
<1>5. ASSUME NEW s \in Sem, IOInterrupt(s) PROVE IInv'
  BY <1>5, VStep
<1>6. ASSUME UNCHANGED vars PROVE IInv'
  BY <1>6 DEF vars, threadVars, synchVars, IInv, ThreadInv, ValueInv, ThreadTypeOK,
              ThreadPlacement, Waiting, CarcassIsDead, CallDiscipline, MutualExclusion
<1> QED BY <1>1, <1>2, <1>3, <1>4, <1>5, <1>6 DEF Next, Over

\* The invariant holds in every state the kernel reaches.
THEOREM Invariance == Spec => []IInv
<1>1. Init => IInv
  BY InitIInv
<1>2. IInv /\ [Next]_vars => IInv'
  BY StepIInv
<1> QED BY <1>1, <1>2, PTL DEF Spec

\* Every variable keeps its type: no pointer of the kernel dangles or is NULL
\* where it is used.
THEOREM TypeCorrect == Spec => []TypeOK
<1>1. IInv => TypeOK
  BY DEF IInv, ThreadInv, ValueInv, TypeOK, SynchTypeOK
<1> QED BY <1>1, Invariance, PTL

\* Whatever the threads do, each of them is on the one list its status says
\* (ReadyToRun, the Remove and SortedInsert of synch.cc).
THEOREM Placement == Spec => []ThreadPlacement
<1>1. IInv => ThreadPlacement
  BY DEF IInv, ThreadInv
<1> QED BY <1>1, Invariance, PTL

\* A thread that is switched to resumes the call that switched it out, on the
\* object it waited for, and interrupts are off just inside kernel calls.
THEOREM Discipline == Spec => []CallDiscipline
<1>1. IInv => CallDiscipline
  BY DEF IInv
<1> QED BY <1>1, Invariance, PTL

\* Scheduler::Run deletes finished threads only, and never the running one.
THEOREM SafeCarcass == Spec => []CarcassIsDead
<1>1. IInv => CarcassIsDead
  BY DEF IInv, ThreadInv
<1> QED BY <1>1, Invariance, PTL

\* Locks exclude: at most one thread is inside each, the one it names.
THEOREM Mutex == Spec => []MutualExclusion
<1>1. IInv => MutualExclusion
  BY DEF IInv, ValueInv
<1> QED BY <1>1, Invariance, PTL

-----------------------------------------------------------------------------
(* Deletion                                                                *)

\* What a step may do to the status of thread u, as far as deletion goes.
StatusStep(u) ==
  \/ status'[u] = status[u]
  \/ status[u] # "DELETED" /\ status'[u] # "DELETED"
  \/ /\ status[u] = "BLOCKED" /\ status'[u] = "DELETED"
     /\ frame[u] = "Finish" /\ currentThread # u

\* A running thread that finds the statuses old, and then sleeps or not.
LEMMA FoundStatusStep ==
  ASSUME IInv, NEW t \in Thread, cpu = "running", currentThread = t,
         NEW old, Found(old),
         \/ status' = old
         \/ status' = [old EXCEPT ![t] = "BLOCKED"]
  PROVE  \A u \in Thread : StatusStep(u)
<1>1. /\ old \in [Thread -> ThreadStates] /\ old[t] = "RUNNING"
      /\ \A u \in Thread :
           \/ old[u] = status[u]
           \/ status[u] = "BLOCKED" /\ frame[u] = "Finish" /\ old[u] = "DELETED"
  BY FoundProperties
<1>2. status[t] = "RUNNING"
  BY DEF IInv, ThreadInv, ThreadPlacement
<1> QED BY <1>1, <1>2 DEF StatusStep

\* A thread that is on the queue of an object is not a deleted one.
LEMMA WakeStatusStep ==
  ASSUME IInv, NEW o \in Object, WakeFirst(o)
  PROVE  \A u \in Thread : StatusStep(u)
<1>1. status \in [Thread -> ThreadStates]
  BY DEF IInv, ThreadInv, ThreadTypeOK
<1>2. CASE queue[o] = <<>>
  BY <1>2 DEF WakeFirst, StatusStep
<1>3. CASE queue[o] # <<>>
  <2>1. First(queue[o]) \in Thread /\ First(queue[o]) \in Items(queue[o])
    BY <1>3, TakeProperties DEF IInv, ThreadInv, ThreadPlacement
  <2>2. status[First(queue[o])] = "BLOCKED"
    BY <2>1 DEF IInv, ThreadInv, ThreadPlacement, Waiting
  <2>3. status' = [status EXCEPT ![First(queue[o])] = "READY"]
    BY <1>3 DEF WakeFirst
  <2> QED BY <1>1, <2>1, <2>2, <2>3 DEF StatusStep
<1> QED BY <1>2, <1>3

\* Every step, one kind of action at a time.
LEMMA EveryStatusStep ==
  ASSUME IInv, [Next]_vars
  PROVE  \A u \in Thread : StatusStep(u)
<1> DEFINE Goal == \A u \in Thread : StatusStep(u)
<1> USE DEF IInv, ThreadInv
<1>0. status \in [Thread -> ThreadStates] /\ currentThread \in Thread
  BY DEF ThreadTypeOK
<1>1. ASSUME UNCHANGED status PROVE Goal
  BY <1>1 DEF StatusStep
<1>2. ASSUME NEW t \in Thread, Fork(t) PROVE Goal
  BY <1>0, <1>2 DEF Fork, StatusStep
<1>3. ASSUME NEW t \in Thread, Yield(t) PROVE Goal
  <2>1. First(readyList) \in Thread /\ First(readyList) \in Items(readyList)
    BY <1>3, TakeProperties DEF Yield, ThreadTypeOK, ThreadPlacement
  <2>2. status[First(readyList)] = "READY" /\ status[t] = "RUNNING"
    BY <1>3, <2>1 DEF Yield, Executing, ThreadPlacement
  <2> QED BY <1>0, <1>3, <2>1, <2>2 DEF Yield, SwitchTo, StatusStep
<1>4. ASSUME Dispatch PROVE Goal
  <2>1. First(readyList) \in Thread /\ First(readyList) \in Items(readyList)
    BY <1>4, TakeProperties DEF Dispatch, ThreadTypeOK, ThreadPlacement
  <2>2. status[First(readyList)] = "READY"
    BY <2>1 DEF ThreadPlacement
  <2> QED BY <1>0, <1>4, <2>1, <2>2 DEF Dispatch, StatusStep
<1>5. ASSUME NEW t \in Thread, Finish(t) PROVE Goal
  <2>1. status[t] = "RUNNING"
    BY <1>5 DEF Finish, Executing, ThreadPlacement
  <2> QED BY <1>0, <1>5, <2>1 DEF Finish, Sleep, StatusStep
<1>6. ASSUME NEW t \in Thread, ResumeYield(t) PROVE Goal
  BY <1>6, FoundStatusStep DEF ResumeYield, Resumed, Found
<1>7. ASSUME NEW t \in Thread, NEW o, NEW old, cpu = "running", currentThread = t,
             Found(old), PLoop(t, o, old) \/ AcquireLoop(t, o, old)
      PROVE  Goal
  <2>1. \/ status' = old
        \/ status' = [old EXCEPT ![t] = "BLOCKED"]
    BY <1>7 DEF PLoop, AcquireLoop, Block, Sleep
  <2> QED BY <1>7, <2>1, FoundStatusStep
<1>8. ASSUME NEW t \in Thread, NEW o, P(t, o) \/ Acquire(t, o) PROVE Goal
  BY <1>7, <1>8 DEF P, Acquire, Executing, Found
<1>9. ASSUME NEW t \in Thread, ResumeP(t) \/ ResumeAcquire(t) \/ ResumeWait(t) PROVE Goal
  BY <1>7, <1>9 DEF ResumeP, ResumeAcquire, ResumeWait, Resumed, Found
<1>10. ASSUME NEW s \in Sem, V(s) \/ IOInterrupt(s) \/ Idle(s) PROVE Goal
  BY <1>10, WakeStatusStep DEF V, IOInterrupt, Idle, DoV, Object
<1>11. ASSUME NEW t \in Thread, NEW l \in Lock, Release(t, l) PROVE Goal
  BY <1>11, WakeStatusStep DEF Release, Object
<1>12. ASSUME NEW t \in Thread, NEW c \in Cond, NEW l \in Lock, Signal(t, c, l) PROVE Goal
  BY <1>12, WakeStatusStep DEF Signal, Object
<1>13. ASSUME NEW t \in Thread, BroadcastLoop(t) PROVE Goal
  <2>1. on[t] \in Object
    BY <1>13 DEF BroadcastLoop, Resumed, CallDiscipline, Object
  <2> QED BY <1>1, <1>13, <2>1, WakeStatusStep DEF BroadcastLoop
<1>14. ASSUME NEW t \in Thread, NEW c \in Cond, NEW l \in Lock, Wait(t, c, l) PROVE Goal
  <2>1. status[t] = "RUNNING" /\ l \in Object
    BY <1>14 DEF Wait, Executing, ThreadPlacement, Object
  <2>2. CASE queue[l] = <<>> /\ status' = [status EXCEPT ![t] = "BLOCKED"]
    BY <1>0, <2>1, <2>2 DEF StatusStep
  <2>3. CASE /\ queue[l] # <<>>
             /\ status' = [status EXCEPT ![First(queue[l])] = "READY", ![t] = "BLOCKED"]
    <3>1. First(queue[l]) \in Thread /\ First(queue[l]) \in Items(queue[l])
      BY <2>1, <2>3, TakeProperties DEF ThreadPlacement
    <3>2. status[First(queue[l])] = "BLOCKED"
      BY <2>1, <3>1 DEF ThreadPlacement, Waiting
    <3> QED BY <1>0, <2>1, <2>3, <3>1, <3>2 DEF StatusStep
  <2> QED BY <1>14, <2>2, <2>3 DEF Wait, Block, Sleep
<1>15. ASSUME ThreadCall PROVE Goal
  BY <1>1, <1>2, <1>3, <1>5, <1>15 DEF ThreadCall, SetPriority
<1>16. ASSUME SynchCall PROVE Goal
  <2>1. ASSUME NEW t \in Thread, NEW l \in Lock, AcquireFails(t, l) \/ ReleaseFails(t, l)
        PROVE  UNCHANGED status
    BY <2>1 DEF AcquireFails, ReleaseFails, Abort
  <2>2. ASSUME NEW s \in Sem, StartIO(s)
        PROVE  UNCHANGED status
    BY <2>2 DEF StartIO, threadVars
  <2>3. ASSUME NEW t \in Thread, NEW c \in Cond, NEW l \in Lock, Broadcast(t, c, l)
        PROVE  UNCHANGED status
    BY <2>3 DEF Broadcast
  <2> QED BY <1>1, <1>8, <1>10, <1>11, <1>12, <1>14, <1>16, <2>1, <2>2, <2>3 DEF SynchCall
<1>17. ASSUME KernelStep PROVE Goal
  BY <1>1, <1>4, <1>6, <1>9, <1>10, <1>13, <1>17 DEF KernelStep, Start, IdleReturns, Halt
<1>18. ASSUME TimeSlice PROVE Goal
  BY <1>3, <1>18 DEF TimeSlice, TimerYield
<1>19. ASSUME UNCHANGED vars PROVE Goal
  BY <1>1, <1>19 DEF vars, threadVars
<1> QED BY <1>10, <1>15, <1>16, <1>17, <1>18, <1>19 DEF Next, Over

\* A step that Scheduler::Run takes deletes the carcass; no other step deletes a
\* thread, and none gives a deleted one another status.
THEOREM Deletion == Spec => DeletedForGood
<1>1. IInv /\ [Next]_vars =>
        [\A t \in Thread :
           /\ status[t] = "DELETED" => status'[t] = "DELETED"
           /\ status[t] # "DELETED" /\ status'[t] = "DELETED" =>
                frame[t] = "Finish" /\ currentThread # t]_vars
  <2> SUFFICES ASSUME IInv, [Next]_vars, NEW t \in Thread
               PROVE  /\ status[t] = "DELETED" => status'[t] = "DELETED"
                      /\ status[t] # "DELETED" /\ status'[t] = "DELETED" =>
                           frame[t] = "Finish" /\ currentThread # t
    OBVIOUS
  <2>1. StatusStep(t)
    BY EveryStatusStep
  <2> QED BY <2>1 DEF StatusStep
<1> QED BY <1>1, Invariance, PTL DEF Spec, DeletedForGood

-----------------------------------------------------------------------------
(***************************************************************************)
(* What semaphores, locks and conditions promise.                          *)
(*                                                                         *)
(* First, no wakeup is lost: a lock that is FREE while threads wait for    *)
(* it, or a unit of a semaphore that threads wait for, always has a woken  *)
(* thread on its way to take it.  Coming(call, o) is the set of those      *)
(* threads.  The proof follows it through the actions: a wakeup adds a     *)
(* thread to it, a thread leaves it only by testing the object again, and  *)
(* then either takes it or finds it taken, and the other actions leave it  *)
(* alone.                                                                  *)
(*                                                                         *)
(* Second, Synch implements Monitor: what a thread is doing changes only   *)
(* when its own call goes on, or when a Signal takes it off the queue of   *)
(* its condition; being woken by a V or a Release, switched to or switched *)
(* out of changes nothing that the users of the primitives see.            *)
(***************************************************************************)

Coming(call, o) == {t \in Thread : Woken(t) /\ frame[t] = call /\ on[t] = o}

NoLostWakeup == LockNoLostWakeup /\ SemaphoreNoLostWakeup

\* u is not one of the threads on their way to an object.
NotComing(u) == ~ (Woken(u) /\ frame[u] \in {"P", "Acquire"})

\* Thread u is neither woken nor blocked, and stays in its call.
Unmoved(u) == (Woken(u)' <=> Woken(u)) /\ frame'[u] = frame[u] /\ on'[u] = on[u]

\* NoLostWakeup in terms of Coming.
LEMMA ComingDefinition ==
  /\ LockNoLostWakeup <=>
       \A l \in Lock : lockValue[l] = 0 /\ queue[l] # <<>> => Coming("Acquire", l) # {}
  /\ SemaphoreNoLostWakeup <=>
       \A s \in Sem : queue[s] # <<>> => semValue[s] <= Cardinality(Coming("P", s))
  BY DEF LockNoLostWakeup, SemaphoreNoLostWakeup, Coming

\* A set of threads is finite, so that it has a size.
LEMMA ComingFinite ==
  ASSUME NEW call, NEW o
  PROVE  IsFiniteSet(Coming(call, o)) /\ Cardinality(Coming(call, o)) \in Nat
  BY ThreadAssumption, FS_Subset, FS_CardinalityType DEF Coming

\* Steps after which the threads on their way are the same, and no semaphore has
\* gained a unit.
LEMMA SameComing ==
  ASSUME IInv, NoLostWakeup, NEW t \in Thread,
         \A u \in Thread : u # t => Unmoved(u),
         NotComing(t), NotComing(t)',
         \A l \in Lock : lockValue'[l] = 0 /\ queue'[l] # <<>> =>
                           lockValue[l] = 0 /\ queue[l] # <<>>,
         \A s \in Sem : \/ queue'[s] # <<>> => queue[s] # <<>> /\ semValue'[s] <= semValue[s]
                        \/ semValue'[s] = 0,
         semValue' \in [Sem -> 0..MaxSem]
  PROVE  NoLostWakeup'
<1>1. ASSUME NEW o, NEW call \in {"P", "Acquire"}
      PROVE  Coming(call, o)' = Coming(call, o)
  BY <1>1 DEF Coming, NotComing, Unmoved
<1>2. LockNoLostWakeup'
  <2> SUFFICES ASSUME NEW l \in Lock, lockValue'[l] = 0, queue'[l] # <<>>
               PROVE  \E u \in Thread : Woken(u)' /\ frame'[u] = "Acquire" /\ on'[u] = l
    BY DEF LockNoLostWakeup
  <2>1. Coming("Acquire", l) # {}
    BY DEF NoLostWakeup, LockNoLostWakeup, Coming
  <2>2. Coming("Acquire", l)' # {}
    BY <1>1, <2>1
  <2> QED BY <2>2 DEF Coming
<1>3. SemaphoreNoLostWakeup'
  <2> SUFFICES ASSUME NEW s \in Sem, queue'[s] # <<>>
               PROVE  semValue'[s] <= Cardinality(Coming("P", s)')
    BY DEF SemaphoreNoLostWakeup, Coming
  <2>1. Coming("P", s)' = Coming("P", s) /\ Cardinality(Coming("P", s)) \in Nat
    BY <1>1, ComingFinite
  <2>2. CASE semValue'[s] = 0
    BY <2>1, <2>2
  <2>3. CASE queue[s] # <<>> /\ semValue'[s] <= semValue[s]
    <3>1. semValue[s] <= Cardinality(Coming("P", s))
      BY <2>3 DEF NoLostWakeup, SemaphoreNoLostWakeup, Coming
    <3>2. semValue[s] \in Nat /\ semValue'[s] \in Nat
      BY BoundAssumption DEF IInv, ValueInv
    <3> QED BY <2>1, <2>3, <3>1, <3>2
  <2> QED BY <2>2, <2>3
<1> QED BY <1>2, <1>3 DEF NoLostWakeup

-----------------------------------------------------------------------------
(* The thread that tests again, and the thread that is woken               *)

\* A woken thread t tests object o again: it takes a unit, or the lock, or finds
\* none left.
LEMMA TestedAgain ==
  ASSUME IInv, NoLostWakeup, NEW t \in Thread, NEW o \in Sem \cup Lock,
         \A u \in Thread : u # t => Unmoved(u),
         Woken(t), frame[t] = (IF o \in Sem THEN "P" ELSE "Acquire"), on[t] = o,
         NotComing(t)',
         \A p \in Sem \cup Lock : p # o => queue'[p] = queue[p],
         \A l \in Lock : l # o => lockValue'[l] = lockValue[l],
         \A s \in Sem : s # o => semValue'[s] = semValue[s],
         o \in Lock => lockValue'[o] = 1,
         o \in Sem => \/ queue'[o] = queue[o] /\ semValue[o] > 0
                         /\ semValue'[o] = semValue[o] - 1
                      \/ semValue'[o] = 0,
         semValue' \in [Sem -> 0..MaxSem]
  PROVE  NoLostWakeup'
<1>1. ASSUME NEW p, NEW call \in {"P", "Acquire"}, p # o
      PROVE  Coming(call, p)' = Coming(call, p)
  BY <1>1 DEF Coming, NotComing, Unmoved
<1>2. LockNoLostWakeup'
  <2> SUFFICES ASSUME NEW l \in Lock, lockValue'[l] = 0, queue'[l] # <<>>
               PROVE  \E u \in Thread : Woken(u)' /\ frame'[u] = "Acquire" /\ on'[u] = l
    BY DEF LockNoLostWakeup
  <2>1. l # o /\ queue[l] # <<>> /\ lockValue[l] = 0
    OBVIOUS
  <2>2. Coming("Acquire", l) # {}
    BY <2>1 DEF NoLostWakeup, LockNoLostWakeup, Coming
  <2>3. Coming("Acquire", l)' # {}
    BY <1>1, <2>1, <2>2
  <2> QED BY <2>3 DEF Coming
<1>3. SemaphoreNoLostWakeup'
  <2> SUFFICES ASSUME NEW s \in Sem, queue'[s] # <<>>
               PROVE  semValue'[s] <= Cardinality(Coming("P", s)')
    BY DEF SemaphoreNoLostWakeup, Coming
  <2>1. semValue[s] \in Nat /\ semValue'[s] \in Nat
    BY BoundAssumption DEF IInv, ValueInv
  <2>2. queue[s] # <<>> => semValue[s] <= Cardinality(Coming("P", s))
    BY DEF NoLostWakeup, SemaphoreNoLostWakeup, Coming
  <2>3. CASE s # o
    BY <1>1, <2>2, <2>3
  <2>4. CASE s = o
    <3>1. Coming("P", o)' = Coming("P", o) \ {t} /\ t \in Coming("P", o)
      BY <2>4 DEF Coming, NotComing, Unmoved
    <3>2. /\ Cardinality(Coming("P", o)') = Cardinality(Coming("P", o)) - 1
          /\ Cardinality(Coming("P", o)) \in Nat
          /\ Cardinality(Coming("P", o)') \in Nat
      <4>1. IsFiniteSet(Coming("P", o)) /\ Cardinality(Coming("P", o)) \in Nat
        BY ComingFinite
      <4>2. /\ Cardinality(Coming("P", o) \ {t}) = Cardinality(Coming("P", o)) - 1
            /\ IsFiniteSet(Coming("P", o) \ {t})
        BY <3>1, <4>1, FS_RemoveElement
      <4>3. Cardinality(Coming("P", o) \ {t}) \in Nat
        BY <4>2, FS_CardinalityType
      <4> QED BY <3>1, <4>1, <4>2, <4>3
    <3> QED BY <2>1, <2>2, <2>4, <3>2
  <2> QED BY <2>3, <2>4
<1> QED BY <1>2, <1>3 DEF NoLostWakeup

\* The first thread w of the queue of object o is woken, perhaps by a thread t
\* that goes to sleep.
LEMMA Woke ==
  ASSUME IInv, NoLostWakeup, NEW t \in Thread, NEW w \in Thread, NEW o \in Object,
         \A u \in Thread : u # t /\ u # w => Unmoved(u),
         t # w => NotComing(t) /\ NotComing(t)',
         Waiting(w), on[w] = o, queue[o] # <<>>,
         Woken(w)', frame'[w] = frame[w], on'[w] = o,
         \A p \in Sem \cup Lock : p # o => queue'[p] = queue[p],
         \A l \in Lock : l # o => lockValue'[l] = lockValue[l],
         \A s \in Sem : s # o => semValue'[s] = semValue[s],
         o \in Sem => semValue'[o] <= semValue[o] + 1,
         semValue' \in [Sem -> 0..MaxSem]
  PROVE  NoLostWakeup'
<1>0. /\ o \in Lock => frame[w] = "Acquire"
      /\ o \in Sem => frame[w] = "P"
  BY ObjectAssumption DEF IInv, CallDiscipline, Waiting
<1>1. ~ Woken(w)
  BY DEF Waiting, Woken
<1>2. ASSUME NEW p, NEW call \in {"P", "Acquire"}, p # o
      PROVE  Coming(call, p)' = Coming(call, p)
  BY <1>2 DEF Coming, NotComing, Unmoved
<1>3. LockNoLostWakeup'
  <2> SUFFICES ASSUME NEW l \in Lock, lockValue'[l] = 0, queue'[l] # <<>>
               PROVE  \E u \in Thread : Woken(u)' /\ frame'[u] = "Acquire" /\ on'[u] = l
    BY DEF LockNoLostWakeup
  <2>1. CASE l = o
    BY <1>0, <2>1
  <2>2. CASE l # o
    <3>1. Coming("Acquire", l) # {}
      BY <2>2 DEF NoLostWakeup, LockNoLostWakeup, Coming
    <3>2. Coming("Acquire", l)' # {}
      BY <1>2, <2>2, <3>1
    <3> QED BY <3>2 DEF Coming
  <2> QED BY <2>1, <2>2
<1>4. SemaphoreNoLostWakeup'
  <2> SUFFICES ASSUME NEW s \in Sem, queue'[s] # <<>>
               PROVE  semValue'[s] <= Cardinality(Coming("P", s)')
    BY DEF SemaphoreNoLostWakeup, Coming
  <2>1. semValue[s] \in Nat /\ semValue'[s] \in Nat
    BY BoundAssumption DEF IInv, ValueInv
  <2>2. queue[s] # <<>> => semValue[s] <= Cardinality(Coming("P", s))
    BY DEF NoLostWakeup, SemaphoreNoLostWakeup, Coming
  <2>3. CASE s # o
    BY <1>2, <2>2, <2>3
  <2>4. CASE s = o
    <3>1. Coming("P", o)' = Coming("P", o) \cup {w} /\ w \notin Coming("P", o)
      <4>1. w \in Coming("P", o)' /\ w \notin Coming("P", o)
        BY <1>0, <1>1, <2>4 DEF Coming
      <4>2. \A u \in Thread : u # w => (u \in Coming("P", o)' <=> u \in Coming("P", o))
        BY DEF Coming, NotComing, Unmoved
      <4> QED BY <4>1, <4>2 DEF Coming
    <3>2. IsFiniteSet(Coming("P", o)) /\ Cardinality(Coming("P", o)) \in Nat
      BY ComingFinite
    <3>3. Cardinality(Coming("P", o)') = Cardinality(Coming("P", o)) + 1
      BY <3>1, <3>2, FS_AddElement
    <3> QED BY <2>1, <2>2, <2>4, <3>2, <3>3
  <2> QED BY <2>3, <2>4
<1> QED BY <1>3, <1>4 DEF NoLostWakeup

-----------------------------------------------------------------------------
(* The actions                                                             *)

\* Steps of the thread code leave the queues and the values alone, and move at
\* most one thread, which is not on its way to an object.
LEMMA ThreadStepWakeups ==
  ASSUME IInv, IInv', NoLostWakeup,
         \/ ThreadCall
         \/ TimeSlice
         \/ Dispatch /\ UNCHANGED synchVars
         \/ \E t \in Thread : (Start(t) \/ ResumeYield(t)) /\ UNCHANGED synchVars
  PROVE  NoLostWakeup'
<1> USE DEF IInv, ThreadInv
<1>0. /\ status \in [Thread -> ThreadStates] /\ frame \in [Thread -> Frames]
      /\ currentThread \in Thread
      /\ semValue \in [Sem -> 0..MaxSem]
  BY DEF ThreadTypeOK, ValueInv
<1>1. ASSUME NEW t \in Thread, UNCHANGED synchVars,
             \A u \in Thread : u # t => Unmoved(u), NotComing(t), NotComing(t)'
      PROVE  NoLostWakeup'
  <2>1. /\ \A l \in Lock : lockValue'[l] = 0 /\ queue'[l] # <<>> =>
                             lockValue[l] = 0 /\ queue[l] # <<>>
        /\ \A s \in Sem : queue'[s] # <<>> => queue[s] # <<>> /\ semValue'[s] <= semValue[s]
        /\ semValue' \in [Sem -> 0..MaxSem]
    BY <1>0, <1>1, BoundAssumption DEF synchVars
  <2> QED BY <1>1, <2>1, SameComing
<1>2. ASSUME NEW t \in Thread, NEW p \in Priority, SetPriority(t, p), UNCHANGED synchVars
      PROVE  NoLostWakeup'
  BY <1>2 DEF SetPriority, synchVars, NoLostWakeup, LockNoLostWakeup,
              SemaphoreNoLostWakeup, Woken
<1>3. ASSUME NEW t \in Thread, Fork(t), UNCHANGED synchVars PROVE NoLostWakeup'
  <2>1. frame[t] = "ThreadRoot" /\ \A u \in Thread : u # t => Unmoved(u)
    BY <1>0, <1>3 DEF Fork, CallDiscipline, Unmoved, Woken, synchVars
  <2> QED BY <1>1, <1>3, <2>1 DEF Fork, NotComing
<1>4. ASSUME NEW t \in Thread, Yield(t), UNCHANGED synchVars PROVE NoLostWakeup'
  <2>1. First(readyList) \in Thread /\ First(readyList) \in Items(readyList)
    BY <1>4, TakeProperties DEF Yield, ThreadTypeOK, ThreadPlacement
  <2>2. /\ status[First(readyList)] = "READY" /\ status[t] = "RUNNING"
        /\ frame[t] = "Running"
    BY <1>4, <2>1 DEF Yield, Executing, ThreadPlacement, CallDiscipline
  <2>3. \A u \in Thread : u # t => Unmoved(u)
    BY <1>0, <1>4, <2>1, <2>2 DEF Yield, SwitchTo, Unmoved, Woken, synchVars
  <2> QED BY <1>0, <1>1, <1>4, <2>2, <2>3 DEF Yield, SwitchTo, NotComing
<1>5. ASSUME NEW t \in Thread, Finish(t), UNCHANGED synchVars PROVE NoLostWakeup'
  <2>1. status[t] = "RUNNING" /\ frame[t] = "Running"
    BY <1>5 DEF Finish, Executing, ThreadPlacement, CallDiscipline
  <2>2. \A u \in Thread : u # t => Unmoved(u)
    BY <1>0, <1>5 DEF Finish, Sleep, Unmoved, Woken, synchVars
  <2> QED BY <1>0, <1>1, <1>5, <2>1, <2>2 DEF Finish, Sleep, NotComing
<1>6. ASSUME Dispatch, UNCHANGED synchVars PROVE NoLostWakeup'
  <2>1. First(readyList) \in Thread /\ First(readyList) \in Items(readyList)
    BY <1>6, TakeProperties DEF Dispatch, ThreadTypeOK, ThreadPlacement
  <2>2. status[First(readyList)] = "READY"
    BY <2>1 DEF ThreadPlacement
  <2>3. \A u \in Thread : Unmoved(u)
    BY <1>0, <1>6, <2>1, <2>2 DEF Dispatch, Unmoved, Woken, synchVars
  <2>4. \A s \in Sem : Coming("P", s)' = Coming("P", s)
    BY <2>3 DEF Coming, Unmoved
  <2>5. LockNoLostWakeup'
    BY <1>6, <2>3 DEF synchVars, NoLostWakeup, LockNoLostWakeup, Unmoved
  <2>6. SemaphoreNoLostWakeup'
    BY <1>6, <2>4 DEF synchVars, NoLostWakeup, SemaphoreNoLostWakeup, Coming
  <2> QED BY <2>5, <2>6 DEF NoLostWakeup
<1>7. ASSUME NEW t \in Thread, Start(t), UNCHANGED synchVars PROVE NoLostWakeup'
  <2>1. \A u \in Thread : u # t => Unmoved(u)
    BY <1>0, <1>7 DEF Start, Return, Unmoved, Woken, synchVars
  <2> QED BY <1>0, <1>1, <1>7, <2>1 DEF Start, Resumed, Return, NotComing
<1>8. ASSUME NEW t \in Thread, ResumeYield(t), UNCHANGED synchVars PROVE NoLostWakeup'
  <2>1. \A u \in Thread : \/ Reaped[u] = status[u]
                          \/ status[u] = "BLOCKED" /\ Reaped[u] = "DELETED"
    BY <1>8, ReapedProperties DEF ResumeYield, Resumed
  <2>2. \A u \in Thread : u # t => Unmoved(u)
    BY <1>0, <1>8, <2>1 DEF ResumeYield, Return, Unmoved, Woken, synchVars
  <2> QED BY <1>0, <1>1, <1>8, <2>2 DEF ResumeYield, Resumed, Return, NotComing
<1>9. ASSUME TimeSlice PROVE NoLostWakeup'
  BY <1>4, <1>9 DEF TimeSlice, TimerYield
<1> QED BY <1>2, <1>3, <1>4, <1>5, <1>6, <1>7, <1>8, <1>9 DEF ThreadCall

\* A thread that runs the loop of P on semaphore s, having been on its way to s
\* or not.
LEMMA PLoopWakeups ==
  ASSUME IInv, IInv', NoLostWakeup, NEW t \in Thread, NEW s \in Sem,
         cpu = "running", currentThread = t, NEW old, Found(old), PLoop(t, s, old),
         UNCHANGED lockValue,
         frame[t] = "Running" \/ (frame[t] = "P" /\ on[t] = s)
  PROVE  NoLostWakeup'
<1> USE DEF IInv, ThreadInv
<1>0. /\ status \in [Thread -> ThreadStates] /\ frame \in [Thread -> Frames]
      /\ on \in [Thread -> Object \cup {NoObject}]
      /\ queue \in [Object -> Seq(Elements(Thread))]
      /\ semValue \in [Sem -> 0..MaxSem] /\ semValue' \in [Sem -> 0..MaxSem]
      /\ status[t] = "RUNNING"
      /\ s \in Object
  BY DEF ThreadTypeOK, ValueInv, ThreadPlacement, Object
<1>1. /\ old \in [Thread -> ThreadStates]
      /\ \A u \in Thread : old[u] = status[u] \/ (status[u] = "BLOCKED" /\ old[u] = "DELETED")
      /\ old[t] = "RUNNING"
  BY FoundProperties
<1>2. /\ \A u \in Thread : u # t => Unmoved(u)
      /\ NotComing(t)'
      /\ \A p \in Sem \cup Lock : p # s => queue'[p] = queue[p]
      /\ \A p \in Sem : p # s => semValue'[p] = semValue[p]
      /\ \/ queue'[s] = queue[s] /\ semValue[s] > 0 /\ semValue'[s] = semValue[s] - 1
         \/ semValue'[s] = 0 /\ semValue[s] = 0
  <2>1. CASE /\ semValue[s] > 0
             /\ semValue' = [semValue EXCEPT ![s] = @ - 1]
             /\ status' = old
             /\ Finished(t)
             /\ UNCHANGED <<cpu, queue>>
    BY <1>0, <1>1, <2>1 DEF Finished, Return, Unmoved, Woken, NotComing
  <2>2. CASE /\ semValue[s] = 0
             /\ Block(t, old, "P", s, NoObject, queue)
             /\ UNCHANGED semValue
    <3>1. \A u \in Thread : u # t => Unmoved(u)
      BY <1>0, <1>1, <2>2 DEF Block, Sleep, Unmoved, Woken
    <3>2. status'[t] = "BLOCKED" /\ NotComing(t)'
      BY <1>0, <1>1, <2>2 DEF Block, Sleep, Woken, NotComing
    <3>3. \A p \in Sem \cup Lock : p # s => queue'[p] = queue[p]
      BY <1>0, <2>2 DEF Block, Object
    <3> QED BY <2>2, <3>1, <3>2, <3>3
  <2> QED BY <2>1, <2>2 DEF PLoop
<1>3. s \notin Lock /\ \A l \in Lock : l # s
  BY ObjectAssumption
<1>4. CASE frame[t] = "Running"
  <2>1. NotComing(t)
    BY <1>4 DEF NotComing
  <2>2. /\ \A l \in Lock : lockValue'[l] = 0 /\ queue'[l] # <<>> =>
                             lockValue[l] = 0 /\ queue[l] # <<>>
    BY <1>2, <1>3
  <2>3. \A p \in Sem :
          \/ queue'[p] # <<>> => queue[p] # <<>> /\ semValue'[p] <= semValue[p]
          \/ semValue'[p] = 0
    <3> SUFFICES ASSUME NEW p \in Sem
                 PROVE  \/ queue'[p] # <<>> => queue[p] # <<>> /\ semValue'[p] <= semValue[p]
                        \/ semValue'[p] = 0
      OBVIOUS
    <3>1. semValue[p] \in Int /\ semValue[s] \in Int
      BY <1>0, BoundAssumption
    <3> QED BY <1>2, <3>1
  <2> QED BY <1>0, <1>2, <2>1, <2>2, <2>3, SameComing
<1>5. CASE frame[t] = "P" /\ on[t] = s
  BY <1>0, <1>2, <1>3, <1>5, TestedAgain DEF Woken
<1> QED BY <1>4, <1>5

\* The same of the loop of Acquire, which ResumeWait runs too.
LEMMA AcquireLoopWakeups ==
  ASSUME IInv, IInv', NoLostWakeup, NEW t \in Thread, NEW l \in Lock,
         cpu = "running", currentThread = t, NEW old, Found(old), AcquireLoop(t, l, old),
         UNCHANGED semValue,
         frame[t] \in {"Running", "Wait"} \/ (frame[t] = "Acquire" /\ on[t] = l)
  PROVE  NoLostWakeup'
<1> USE DEF IInv, ThreadInv
<1>0. /\ status \in [Thread -> ThreadStates] /\ frame \in [Thread -> Frames]
      /\ on \in [Thread -> Object \cup {NoObject}]
      /\ queue \in [Object -> Seq(Elements(Thread))]
      /\ semValue \in [Sem -> 0..MaxSem]
      /\ lockValue \in [Lock -> {0, 1}]
      /\ status[t] = "RUNNING"
      /\ l \in Object
  BY DEF ThreadTypeOK, ValueInv, ThreadPlacement, Object
<1>1. /\ old \in [Thread -> ThreadStates]
      /\ \A u \in Thread : old[u] = status[u] \/ (status[u] = "BLOCKED" /\ old[u] = "DELETED")
      /\ old[t] = "RUNNING"
  BY FoundProperties
<1>2. /\ \A u \in Thread : u # t => Unmoved(u)
      /\ NotComing(t)'
      /\ \A p \in Sem \cup Lock : p # l => queue'[p] = queue[p]
      /\ \A k \in Lock : k # l => lockValue'[k] = lockValue[k]
      /\ lockValue'[l] = 1
  <2>1. CASE /\ lockValue[l] = 0
             /\ lockValue' = [lockValue EXCEPT ![l] = 1]
             /\ status' = old
             /\ Finished(t)
             /\ UNCHANGED <<cpu, queue>>
    BY <1>0, <1>1, <2>1 DEF Finished, Return, Unmoved, Woken, NotComing
  <2>2. CASE /\ lockValue[l] = 1
             /\ Block(t, old, "Acquire", l, NoObject, queue)
             /\ UNCHANGED lockValue
    <3>1. \A u \in Thread : u # t => Unmoved(u)
      BY <1>0, <1>1, <2>2 DEF Block, Sleep, Unmoved, Woken
    <3>2. status'[t] = "BLOCKED" /\ NotComing(t)'
      BY <1>0, <1>1, <2>2 DEF Block, Sleep, Woken, NotComing
    <3>3. \A p \in Sem \cup Lock : p # l => queue'[p] = queue[p]
      BY <1>0, <2>2 DEF Block, Object
    <3> QED BY <2>2, <3>1, <3>2, <3>3
  <2> QED BY <2>1, <2>2 DEF AcquireLoop
<1>3. l \notin Sem /\ \A s \in Sem : s # l
  BY ObjectAssumption
<1>4. CASE frame[t] \in {"Running", "Wait"}
  <2>1. NotComing(t)
    BY <1>4 DEF NotComing
  <2>2. /\ \A k \in Lock : lockValue'[k] = 0 /\ queue'[k] # <<>> =>
                             lockValue[k] = 0 /\ queue[k] # <<>>
    BY <1>2
  <2>3. \A s \in Sem : queue'[s] # <<>> => queue[s] # <<>> /\ semValue'[s] <= semValue[s]
    BY <1>0, <1>2, <1>3, BoundAssumption
  <2> QED BY <1>0, <1>2, <2>1, <2>2, <2>3, SameComing
<1>5. CASE frame[t] = "Acquire" /\ on[t] = l
  BY <1>0, <1>2, <1>3, <1>5, TestedAgain DEF Woken
<1> QED BY <1>4, <1>5

\* V, Release, Signal and a turn of Broadcast's loop.
LEMMA WakeFirstWakeups ==
  ASSUME IInv, IInv', NoLostWakeup, NEW o \in Object, WakeFirst(o),
         UNCHANGED <<frame, on>>,
         \A l \in Lock : l # o => lockValue'[l] = lockValue[l],
         \A s \in Sem : s # o => semValue'[s] = semValue[s],
         o \in Sem => semValue'[o] = semValue[o] + 1
  PROVE  NoLostWakeup'
<1> USE DEF IInv, ThreadInv
<1>0. /\ status \in [Thread -> ThreadStates] /\ frame \in [Thread -> Frames]
      /\ queue \in [Object -> Seq(Elements(Thread))]
      /\ semValue \in [Sem -> 0..MaxSem] /\ semValue' \in [Sem -> 0..MaxSem]
      /\ Sem \cup Lock \subseteq Object
  BY DEF ThreadTypeOK, ValueInv, Object
<1>1. CASE queue[o] = <<>>
  <2>1. UNCHANGED <<queue, status>>
    BY <1>1 DEF WakeFirst
  <2>2. \A u \in Thread : Woken(u)' <=> Woken(u)
    BY <2>1 DEF Woken
  <2>3. LockNoLostWakeup'
    BY <1>1, <2>1, <2>2 DEF NoLostWakeup, LockNoLostWakeup
  <2>4. \A s \in Sem : Coming("P", s)' = Coming("P", s)
    BY <2>2 DEF Coming
  <2>5. SemaphoreNoLostWakeup'
    BY <1>1, <2>1, <2>4 DEF NoLostWakeup, SemaphoreNoLostWakeup, Coming
  <2> QED BY <2>3, <2>5 DEF NoLostWakeup
<1>2. CASE queue[o] # <<>>
  <2>0. PICK w : w = First(queue[o])
    OBVIOUS
  <2>1. w \in Thread /\ w \in Items(queue[o])
    BY <1>2, <2>0, TakeProperties DEF ThreadPlacement
  <2>2. Waiting(w) /\ on[w] = o
    BY <2>1 DEF ThreadPlacement
  <2>3. /\ queue' = [queue EXCEPT ![o] = Rest(queue[o])]
        /\ status' = [status EXCEPT ![w] = "READY"]
    BY <1>2, <2>0 DEF WakeFirst
  <2>4. Woken(w)' /\ \A u \in Thread : u # w => Unmoved(u)
    BY <1>0, <2>1, <2>2, <2>3 DEF Waiting, Woken, Unmoved
  <2>5. \A p \in Sem \cup Lock : p # o => queue'[p] = queue[p]
    BY <1>0, <2>3
  <2>6. o \in Sem => semValue'[o] <= semValue[o] + 1
    BY <1>0, BoundAssumption
  <2> QED BY <1>0, <1>2, <2>1, <2>2, <2>4, <2>5, <2>6, Woke
<1> QED BY <1>1, <1>2

\* Wait, which releases the lock and goes to sleep.
LEMMA WaitWakeups ==
  ASSUME IInv, IInv', NoLostWakeup,
         NEW t \in Thread, NEW c \in Cond, NEW l \in Lock, Wait(t, c, l)
  PROVE  NoLostWakeup'
<1> USE DEF IInv, ThreadInv
<1>0. /\ status \in [Thread -> ThreadStates] /\ frame \in [Thread -> Frames]
      /\ on \in [Thread -> Object \cup {NoObject}]
      /\ queue \in [Object -> Seq(Elements(Thread))]
      /\ semValue \in [Sem -> 0..MaxSem]
      /\ lockValue \in [Lock -> {0, 1}]
      /\ Sem \cup Lock \subseteq Object /\ c \in Object /\ c \notin Sem \cup Lock
      /\ l \notin Sem
  BY ObjectAssumption DEF ThreadTypeOK, ValueInv, Object
<1>1. status[t] = "RUNNING" /\ frame[t] = "Running" /\ NotComing(t)
  BY DEF Wait, Executing, ThreadPlacement, CallDiscipline, NotComing
<1>2. /\ semValue' = semValue
      /\ \A k \in Lock : k # l => lockValue'[k] = lockValue[k]
      /\ frame' = [frame EXCEPT ![t] = "Wait"]
      /\ on' = [on EXCEPT ![t] = c]
  BY <1>0 DEF Wait, Freed, Block, Sleep
<1>3. NotComing(t)'
  BY <1>0, <1>2 DEF NotComing
<1>4. CASE queue[l] = <<>> /\ Block(t, status, "Wait", c, l, queue)
  <2>1. \A u \in Thread : u # t => Unmoved(u)
    BY <1>0, <1>4 DEF Block, Sleep, Unmoved, Woken
  <2>2. \A p \in Sem \cup Lock : queue'[p] = queue[p]
    BY <1>0, <1>4 DEF Block
  <2>3. \A k \in Lock : lockValue'[k] = 0 /\ queue'[k] # <<>> =>
                          lockValue[k] = 0 /\ queue[k] # <<>>
    BY <1>2, <1>4, <2>2
  <2>4. \A s \in Sem : queue'[s] # <<>> => queue[s] # <<>> /\ semValue'[s] <= semValue[s]
    BY <1>0, <1>2, <2>2, BoundAssumption
  <2> QED BY <1>0, <1>1, <1>2, <1>3, <2>1, <2>3, <2>4, SameComing
<1>5. CASE /\ queue[l] # <<>>
           /\ Block(t, [status EXCEPT ![First(queue[l])] = "READY"], "Wait", c, l,
                    [queue EXCEPT ![l] = Rest(@)])
  <2>0. PICK w : w = First(queue[l])
    OBVIOUS
  <2>1. w \in Thread /\ w \in Items(queue[l])
    BY <1>0, <1>5, <2>0, TakeProperties DEF ThreadPlacement
  <2>2. Waiting(w) /\ on[w] = l
    BY <1>0, <2>1 DEF ThreadPlacement
  <2>3. t # w
    BY <1>1, <2>2 DEF Waiting
  <2>4. status' = [status EXCEPT ![w] = "READY", ![t] = "BLOCKED"]
    BY <1>5, <2>0 DEF Block, Sleep
  <2>5. /\ \A u \in Thread : u # t /\ u # w => Unmoved(u)
        /\ Woken(w)' /\ frame'[w] = frame[w] /\ on'[w] = l
    BY <1>0, <1>2, <2>1, <2>2, <2>3, <2>4 DEF Waiting, Woken, Unmoved
  <2>6. \A p \in Sem \cup Lock : p # l => queue'[p] = queue[p]
    BY <1>0, <1>5 DEF Block
  <2> QED BY <1>0, <1>1, <1>2, <1>3, <1>5, <2>1, <2>2, <2>3, <2>5, <2>6, Woke
<1> QED BY <1>4, <1>5 DEF Wait

\* Every step.
LEMMA StepWakeups ==
  ASSUME IInv, NoLostWakeup, [Next]_vars
  PROVE  NoLostWakeup'
<1>0. IInv'
  BY StepIInv
<1>1. ASSUME NEW o \in Object, WakeFirst(o), UNCHANGED <<frame, on, semValue, lockValue>>,
             o \notin Sem
      PROVE  NoLostWakeup'
  BY <1>0, <1>1, WakeFirstWakeups
<1>2. ASSUME NEW s \in Sem, V(s) \/ IOInterrupt(s) \/ Idle(s) PROVE NoLostWakeup'
  <2>1. /\ WakeFirst(s) /\ UNCHANGED <<frame, on, lockValue>> /\ s \in Object
        /\ semValue' = [semValue EXCEPT ![s] = semValue[s] + 1]
    BY <1>2 DEF V, IOInterrupt, Idle, DoV, Object
  <2>2. /\ semValue'[s] = semValue[s] + 1
        /\ \A r \in Sem : r # s => semValue'[r] = semValue[r]
    BY <2>1 DEF IInv, ValueInv
  <2> QED BY <1>0, <2>1, <2>2, WakeFirstWakeups
<1>3. ASSUME NEW t \in Thread, NEW s \in Sem, P(t, s) PROVE NoLostWakeup'
  <2>1. frame[t] = "Running"
    BY <1>3 DEF P, Executing, IInv, ThreadInv, ThreadPlacement, CallDiscipline
  <2> QED BY <1>0, <1>3, <2>1, PLoopWakeups DEF P, Executing, Found
<1>4. ASSUME NEW t \in Thread, ResumeP(t) PROVE NoLostWakeup'
  <2>1. on[t] \in Sem
    BY <1>4 DEF ResumeP, Resumed, IInv, CallDiscipline
  <2> QED BY <1>0, <1>4, <2>1, PLoopWakeups DEF ResumeP, Resumed, Found
<1>5. ASSUME NEW t \in Thread, NEW l \in Lock, Acquire(t, l) PROVE NoLostWakeup'
  <2>1. frame[t] = "Running"
    BY <1>5 DEF Acquire, Executing, IInv, ThreadInv, ThreadPlacement, CallDiscipline
  <2> QED BY <1>0, <1>5, <2>1, AcquireLoopWakeups DEF Acquire, Executing, Found
<1>6. ASSUME NEW t \in Thread, ResumeAcquire(t) PROVE NoLostWakeup'
  <2>1. on[t] \in Lock
    BY <1>6 DEF ResumeAcquire, Resumed, IInv, CallDiscipline
  <2> QED BY <1>0, <1>6, <2>1, AcquireLoopWakeups DEF ResumeAcquire, Resumed, Found
<1>7. ASSUME NEW t \in Thread, ResumeWait(t) PROVE NoLostWakeup'
  <2>1. conditionLock[t] \in Lock
    BY <1>7 DEF ResumeWait, Resumed, IInv, CallDiscipline
  <2> QED BY <1>0, <1>7, <2>1, AcquireLoopWakeups DEF ResumeWait, Resumed, Found
<1>8. ASSUME NEW t \in Thread, NEW l \in Lock, Release(t, l) PROVE NoLostWakeup'
  <2>1. l \in Object /\ l \notin Sem
    BY ObjectAssumption DEF Object
  <2>2. \A k \in Lock : k # l => lockValue'[k] = lockValue[k]
    BY <1>8 DEF Release, Freed, IInv, ValueInv
  <2> QED BY <1>0, <1>8, <2>1, <2>2, WakeFirstWakeups DEF Release
<1>9. ASSUME NEW t \in Thread, NEW c \in Cond, NEW l \in Lock,
             Signal(t, c, l) \/ Broadcast(t, c, l)
      PROVE  NoLostWakeup'
  <2>1. CASE Signal(t, c, l)
    BY <1>1, <2>1, ObjectAssumption DEF Signal, Object
  <2>2. CASE Broadcast(t, c, l)
    <3>1. status[t] = "RUNNING" /\ frame[t] = "Running"
      BY <2>2 DEF Broadcast, Executing, IInv, ThreadInv, ThreadPlacement, CallDiscipline
    <3>2. \A u \in Thread : u # t => Unmoved(u)
      BY <2>2 DEF Broadcast, Unmoved, Woken, IInv, ThreadInv, ThreadTypeOK
    <3>3. NotComing(t) /\ NotComing(t)'
      BY <2>2, <3>1 DEF Broadcast, NotComing, IInv, ThreadInv, ThreadTypeOK
    <3>4. /\ UNCHANGED <<semValue, lockValue, queue>>
          /\ semValue' \in [Sem -> 0..MaxSem]
          /\ \A s \in Sem : semValue'[s] <= semValue[s]
      BY <2>2, BoundAssumption DEF Broadcast, IInv, ValueInv
    <3> QED BY <3>2, <3>3, <3>4, SameComing
  <2> QED BY <1>9, <2>1, <2>2
<1>10. ASSUME NEW t \in Thread, BroadcastLoop(t) PROVE NoLostWakeup'
  <2>1. on[t] \in Cond /\ frame[t] = "Broadcast" /\ UNCHANGED <<semValue, lockValue>>
    BY <1>10 DEF BroadcastLoop, Resumed, IInv, CallDiscipline
  <2>2. CASE WakeFirst(on[t]) /\ UNCHANGED <<frame, on>>
    BY <1>1, <2>1, <2>2, ObjectAssumption DEF Object
  <2>3. CASE Finished(t) /\ UNCHANGED <<queue, status>>
    <3>1. \A u \in Thread : u # t => Unmoved(u)
      BY <2>3 DEF Finished, Return, Unmoved, Woken, IInv, ThreadInv, ThreadTypeOK
    <3>2. NotComing(t) /\ NotComing(t)'
      BY <2>1, <2>3 DEF Finished, Return, NotComing, IInv, ThreadInv, ThreadTypeOK
    <3>3. /\ semValue' \in [Sem -> 0..MaxSem]
          /\ \A s \in Sem : semValue'[s] <= semValue[s]
      BY <2>1, BoundAssumption DEF IInv, ValueInv
    <3> QED BY <2>1, <2>3, <3>1, <3>2, <3>3, SameComing
  <2> QED BY <1>10, <2>2, <2>3 DEF BroadcastLoop
<1>11. ASSUME NEW t \in Thread, NEW c \in Cond, NEW l \in Lock, Wait(t, c, l)
       PROVE  NoLostWakeup'
  BY <1>0, <1>11, WaitWakeups
<1>12. ASSUME UNCHANGED <<status, frame, on, semValue, lockValue, queue>>
       PROVE  NoLostWakeup'
  BY <1>12 DEF NoLostWakeup, LockNoLostWakeup, SemaphoreNoLostWakeup, Woken
<1>13. ASSUME SynchCall PROVE NoLostWakeup'
  <2>1. ASSUME NEW t \in Thread, NEW l \in Lock, AcquireFails(t, l) \/ ReleaseFails(t, l)
        PROVE  NoLostWakeup'
    BY <1>12, <2>1 DEF AcquireFails, ReleaseFails, Abort, synchVars
  <2>2. ASSUME NEW s \in Sem, StartIO(s) PROVE NoLostWakeup'
    BY <1>12, <2>2 DEF StartIO, threadVars
  <2> QED BY <1>2, <1>3, <1>5, <1>8, <1>9, <1>11, <1>13, <2>1, <2>2 DEF SynchCall
<1>14. ASSUME KernelStep PROVE NoLostWakeup'
  <2>1. ASSUME IdleReturns \/ Halt PROVE NoLostWakeup'
    BY <1>12, <2>1 DEF IdleReturns, Halt, synchVars
  <2>2. ASSUME \/ Dispatch /\ UNCHANGED synchVars
               \/ \E t \in Thread : (Start(t) \/ ResumeYield(t)) /\ UNCHANGED synchVars
        PROVE  NoLostWakeup'
    BY <1>0, <2>2, ThreadStepWakeups
  <2> QED BY <1>2, <1>4, <1>6, <1>7, <1>10, <1>14, <2>1, <2>2 DEF KernelStep
<1>15. ASSUME ThreadCall \/ TimeSlice PROVE NoLostWakeup'
  BY <1>0, <1>15, ThreadStepWakeups
<1>16. ASSUME UNCHANGED vars PROVE NoLostWakeup'
  BY <1>12, <1>16 DEF vars, threadVars, synchVars
<1> QED BY <1>2, <1>13, <1>14, <1>15, <1>16 DEF Next, Over

\* Initially nobody waits.
LEMMA InitWakeups == Init => NoLostWakeup
  BY DEF Init, NoLostWakeup, LockNoLostWakeup, SemaphoreNoLostWakeup, Object

\* Both halves together, by induction over the invariant of SynchProofs.
LEMMA Wakeups == Spec => []NoLostWakeup
  BY InitWakeups, StepWakeups, Invariance, PTL DEF Spec

\* Release loses no wakeup (synch.cc, Lock::Release and Condition::Wait).
THEOREM NoLostRelease == Spec => []LockNoLostWakeup
<1>1. NoLostWakeup => LockNoLostWakeup
  BY DEF NoLostWakeup
<1> QED BY <1>1, Wakeups, PTL

\* V loses no wakeup, be it called by a thread or by an interrupt handler
\* (synch.cc, Semaphore::V).
THEOREM NoLostV == Spec => []SemaphoreNoLostWakeup
<1>1. NoLostWakeup => SemaphoreNoLostWakeup
  BY DEF NoLostWakeup
<1> QED BY <1>1, Wakeups, PTL

-----------------------------------------------------------------------------
(* Synch implements Monitor.                                               *)

\* u stays in its call, and on or off the queue of its condition.
Same(u) ==
  /\ frame'[u] = frame[u] /\ on'[u] = on[u] /\ conditionLock'[u] = conditionLock[u]
  /\ frame[u] = "Wait" => (u \in Items(queue'[on[u]]) <=> u \in Items(queue[on[u]]))

\* What a thread is doing, by the call it is in.
LEMMA ActivityNow ==
  ASSUME NEW t
  PROVE  /\ frame[t] \in {"P", "Acquire"} => Activity(t) = M!Wants(on[t])
         /\ frame[t] = "Wait" =>
              Activity(t) = IF t \in Items(queue[on[t]])
                            THEN M!WaitsOn(on[t], conditionLock[t])
                            ELSE M!Wants(conditionLock[t])
         /\ frame[t] \notin {"P", "Acquire", "Wait"} => Activity(t) = M!NotWaiting
  BY DEF Activity, M!Wants, M!WaitsOn, M!NotWaiting

\* The same, of the state after a step.
LEMMA ActivityThen ==
  ASSUME NEW t
  PROVE  /\ frame'[t] \in {"P", "Acquire"} => Activity(t)' = M!Wants(on'[t])
         /\ frame'[t] = "Wait" =>
              Activity(t)' = IF t \in Items(queue'[on'[t]])
                             THEN M!WaitsOn(on'[t], conditionLock'[t])
                             ELSE M!Wants(conditionLock'[t])
         /\ frame'[t] \notin {"P", "Acquire", "Wait"} => Activity(t)' = M!NotWaiting
  BY DEF Activity, M!Wants, M!WaitsOn, M!NotWaiting

\* A step in which one thread's call goes on, or none.
LEMMA OneMoves ==
  ASSUME NEW t \in Thread, \A u \in Thread \ {t} : Same(u)
  PROVE  activities' = [activities EXCEPT ![t] = Activity(t)']
<1>1. ASSUME NEW u \in Thread \ {t} PROVE Activity(u)' = Activity(u)
  BY <1>1, ActivityNow, ActivityThen DEF Same
<1> QED BY <1>1 DEF activities

\* A step in which no thread's call goes on.
LEMMA NoneMoves ==
  ASSUME \A u \in Thread : Same(u)
  PROVE  activities' = activities
<1>1. ASSUME NEW u \in Thread PROVE Activity(u)' = Activity(u)
  BY <1>1, ActivityNow, ActivityThen DEF Same
<1> QED BY <1>1 DEF activities

\* Steps that leave the calls of all threads alone but that of t, which is in
\* none of the calls that Monitor knows before and after.
LEMMA QuietStep ==
  ASSUME IInv, NEW t \in Thread,
         frame[t] \notin {"P", "Acquire", "Wait"},
         frame'[t] \notin {"P", "Acquire", "Wait"},
         \A u \in Thread \ {t} : frame'[u] = frame[u] /\ on'[u] = on[u],
         UNCHANGED <<queue, conditionLock>>
  PROVE  activities' = activities
<1>1. activities' = [activities EXCEPT ![t] = Activity(t)']
  BY OneMoves DEF Same
<1>2. Activity(t)' = Activity(t)
  BY ActivityNow, ActivityThen
<1> QED BY <1>1, <1>2 DEF activities

\* A change of the queues of semaphores and locks moves nobody.
LEMMA OtherQueues ==
  ASSUME IInv, NEW o \in Sem \cup Lock, NEW q, queue' = [queue EXCEPT ![o] = q],
         NEW u \in Thread,
         frame'[u] = frame[u], on'[u] = on[u], conditionLock'[u] = conditionLock[u]
  PROVE  Same(u)
<1>1. frame[u] = "Wait" => on[u] \in Cond
  BY DEF IInv, CallDiscipline
<1>2. frame[u] = "Wait" => queue'[on[u]] = queue[on[u]]
  BY <1>1, ObjectAssumption DEF IInv, ThreadInv, Object
<1> QED BY <1>2 DEF Same

\* V and Release: the woken thread wants what it wanted.
LEMMA WakeMovesNobody ==
  ASSUME IInv, NEW o \in Sem \cup Lock, WakeFirst(o), UNCHANGED <<frame, on, conditionLock>>
  PROVE  activities' = activities
<1>1. CASE queue[o] = <<>> /\ UNCHANGED queue
  BY <1>1, NoneMoves DEF Same
<1>2. CASE queue' = [queue EXCEPT ![o] = Rest(@)]
  BY <1>2, OtherQueues, NoneMoves
<1> QED BY <1>1, <1>2 DEF WakeFirst

-----------------------------------------------------------------------------
(* P and Acquire                                                           *)

\* The loop of P, in a thread that has just called it or has been woken.
LEMMA PLoopRefines ==
  ASSUME IInv, NEW t \in Thread, NEW s \in Sem, NEW old, PLoop(t, s, old),
         frame[t] = "Running" \/ (frame[t] = "P" /\ on[t] = s),
         UNCHANGED lockThread
  PROVE  M!Down(t, s) \/ M!StartWanting(t, s) \/ UNCHANGED M!vars
<1>1. /\ frame \in [Thread -> Frames]
      /\ on \in [Thread -> Object \cup {NoObject}]
      /\ conditionLock \in [Thread -> Lock \cup {NoObject}]
      /\ queue \in [Object -> Seq(Elements(Thread))]
      /\ semValue \in [Sem -> 0..MaxSem]
  BY DEF IInv, ThreadInv, ThreadTypeOK, ValueInv
<1>2. activities[t] \in {M!NotWaiting, M!Wants(s)}
  BY ActivityNow DEF activities
<1>3. CASE /\ semValue[s] > 0
           /\ semValue' = [semValue EXCEPT ![s] = @ - 1]
           /\ Finished(t) /\ UNCHANGED queue
  <2>1. frame' = [frame EXCEPT ![t] = "Running"] /\ \A u \in Thread \ {t} : Same(u)
    BY <1>1, <1>3 DEF Finished, Return, Same
  <2>2. activities' = [activities EXCEPT ![t] = M!NotWaiting]
    BY <1>1, <2>1, OneMoves, ActivityThen
  <2> QED BY <1>2, <1>3, <2>2 DEF M!Down, M!Become
<1>4. CASE Block(t, old, "P", s, NoObject, queue) /\ UNCHANGED semValue
  <2>1. /\ frame' = [frame EXCEPT ![t] = "P"]
        /\ on' = [on EXCEPT ![t] = s]
        /\ conditionLock' = [conditionLock EXCEPT ![t] = NoObject]
        /\ queue' = [queue EXCEPT ![s] = Enqueued(queue[s], t)]
    BY <1>1, <1>4 DEF Block, Sleep
  <2>2. \A u \in Thread \ {t} : Same(u)
    BY <1>1, <2>1, OtherQueues
  <2>3. activities' = [activities EXCEPT ![t] = M!Wants(s)]
    BY <1>1, <2>1, <2>2, OneMoves, ActivityThen
  <2>4. CASE activities[t] = M!NotWaiting
    BY <1>4, <2>3, <2>4 DEF M!StartWanting, M!Become
  <2>5. CASE activities[t] = M!Wants(s)
    BY <1>4, <2>3, <2>5 DEF M!vars, activities
  <2> QED BY <1>2, <2>4, <2>5
<1> QED BY <1>3, <1>4 DEF PLoop

\* The loop of Acquire, in a thread that has just called it, has been woken, or
\* has been signalled.
LEMMA AcquireLoopRefines ==
  ASSUME IInv, NEW t \in Thread, NEW l \in Lock, NEW old, AcquireLoop(t, l, old),
         Activity(t) \in {M!NotWaiting, M!Wants(l)},
         UNCHANGED semValue
  PROVE  M!Take(t, l) \/ M!StartWanting(t, l) \/ UNCHANGED M!vars
<1>1. /\ frame \in [Thread -> Frames]
      /\ on \in [Thread -> Object \cup {NoObject}]
      /\ conditionLock \in [Thread -> Lock \cup {NoObject}]
      /\ queue \in [Object -> Seq(Elements(Thread))]
      /\ lockValue[l] = 0 => lockThread[l] = NoThread
  BY DEF IInv, ThreadInv, ThreadTypeOK, ValueInv, MutualExclusion
<1>2. activities[t] \in {M!NotWaiting, M!Wants(l)}
  BY DEF activities
<1>3. CASE /\ lockValue[l] = 0
           /\ lockThread' = [lockThread EXCEPT ![l] = t]
           /\ Finished(t) /\ UNCHANGED queue
  <2>1. frame' = [frame EXCEPT ![t] = "Running"] /\ \A u \in Thread \ {t} : Same(u)
    BY <1>1, <1>3 DEF Finished, Return, Same
  <2>2. activities' = [activities EXCEPT ![t] = M!NotWaiting]
    BY <1>1, <2>1, OneMoves, ActivityThen
  <2> QED BY <1>1, <1>2, <1>3, <2>2 DEF M!Take, M!Become
<1>4. CASE Block(t, old, "Acquire", l, NoObject, queue) /\ UNCHANGED lockThread
  <2>1. /\ frame' = [frame EXCEPT ![t] = "Acquire"]
        /\ on' = [on EXCEPT ![t] = l]
        /\ conditionLock' = [conditionLock EXCEPT ![t] = NoObject]
        /\ queue' = [queue EXCEPT ![l] = Enqueued(queue[l], t)]
    BY <1>1, <1>4 DEF Block, Sleep
  <2>2. \A u \in Thread \ {t} : Same(u)
    BY <1>1, <2>1, OtherQueues
  <2>3. activities' = [activities EXCEPT ![t] = M!Wants(l)]
    BY <1>1, <2>1, <2>2, OneMoves, ActivityThen
  <2>4. CASE activities[t] = M!NotWaiting
    BY <1>4, <2>3, <2>4 DEF M!StartWanting, M!Become
  <2>5. CASE activities[t] = M!Wants(l)
    BY <1>4, <2>3, <2>5 DEF M!vars, activities
  <2> QED BY <1>2, <2>4, <2>5
<1> QED BY <1>3, <1>4 DEF AcquireLoop

-----------------------------------------------------------------------------
(* Conditions                                                              *)

\* Thread u, taken off the queue of condition c, waited for a signal, and now
\* wants its lock.
LEMMA SignalledMoves ==
  ASSUME IInv, NEW c \in Cond, NEW u \in Thread, u \in Items(queue[c]),
         Items(queue'[c]) = Items(queue[c]) \ {u},
         \A o \in Object \ {c} : queue'[o] = queue[o],
         UNCHANGED <<frame, on, conditionLock>>
  PROVE  /\ conditionLock[u] \in Lock
         /\ activities[u] = M!WaitsOn(c, conditionLock[u])
         /\ activities' = [activities EXCEPT ![u] = M!Wants(conditionLock[u])]
<1>1. frame[u] = "Wait" /\ on[u] = c /\ conditionLock[u] \in Lock
  BY ObjectAssumption
     DEF IInv, ThreadInv, ThreadPlacement, Waiting, CallDiscipline, Object
<1>2. activities[u] = M!WaitsOn(c, conditionLock[u])
  BY <1>1, ActivityNow DEF activities
<1>3. frame'[u] = "Wait" /\ on'[u] = c /\ conditionLock'[u] = conditionLock[u]
      /\ u \notin Items(queue'[c])
  BY <1>1
<1>4. Activity(u)' = M!Wants(conditionLock[u])
  <2>1. Activity(u)' = IF u \in Items(queue'[on'[u]])
                       THEN M!WaitsOn(on'[u], conditionLock'[u])
                       ELSE M!Wants(conditionLock'[u])
    BY <1>3, ActivityThen
  <2> QED BY <1>3, <2>1
<1>5. ASSUME NEW v \in Thread \ {u} PROVE Same(v)
  <2>1. frame[v] = "Wait" => on[v] \in Object
    BY DEF IInv, CallDiscipline, Object
  <2> QED BY <2>1 DEF Same
<1>6. activities' = [activities EXCEPT ![u] = Activity(u)']
  BY <1>5, OneMoves
<1> QED BY <1>1, <1>2, <1>4, <1>6

\* Signal: the first thread of the queue is the one that is signalled.
LEMMA SignalRefines ==
  ASSUME IInv, NEW t \in Thread, NEW c \in Cond, WakeFirst(c),
         Activity(t) = M!NotWaiting, \E l \in Lock : lockThread[l] = t,
         UNCHANGED <<frame, on, conditionLock, lockThread, semValue>>
  PROVE  (\E u \in Thread : M!Signal(t, c, u)) \/ UNCHANGED M!vars
<1>1. CASE queue[c] = <<>> /\ UNCHANGED queue
  <2>1. activities' = activities
    BY <1>1, NoneMoves DEF Same
  <2> QED BY <2>1 DEF M!vars
<1>2. CASE queue[c] # <<>> /\ queue' = [queue EXCEPT ![c] = Rest(@)]
  <2>1. PICK u \in Thread : /\ u \in Items(queue[c])
                            /\ Items(queue'[c]) = Items(queue[c]) \ {u}
                            /\ \A o \in Object \ {c} : queue'[o] = queue[o]
    <3>1. c \in Object
      BY DEF Object
    <3> QED BY <1>2, <3>1, TakeProperties DEF IInv, ThreadInv, ThreadPlacement
  <2>2. /\ conditionLock[u] \in Lock
        /\ activities[u] = M!WaitsOn(c, conditionLock[u])
        /\ activities' = [activities EXCEPT ![u] = M!Wants(conditionLock[u])]
    BY <2>1, SignalledMoves
  <2>3. activities[t] = M!NotWaiting
    BY DEF activities
  <2>4. M!Signal(t, c, u)
    BY <2>2, <2>3 DEF M!Signal, M!Become
  <2> QED BY <2>4
<1> QED BY <1>1, <1>2 DEF WakeFirst

\* Wait gives up the lock and waits in one step of Monitor, whether or not a
\* thread is woken for the lock.
LEMMA WaitRefines ==
  ASSUME IInv, NEW t \in Thread, NEW c \in Cond, NEW l \in Lock, Wait(t, c, l)
  PROVE  M!Wait(t, c, l)
<1>1. /\ frame \in [Thread -> Frames]
      /\ on \in [Thread -> Object \cup {NoObject}]
      /\ conditionLock \in [Thread -> Lock \cup {NoObject}]
      /\ queue \in [Object -> Seq(Elements(Thread))]
      /\ priority \in [Thread -> Priority]
  BY DEF IInv, ThreadInv, ThreadTypeOK
<1>2. /\ lockThread[l] = t
      /\ lockThread' = [lockThread EXCEPT ![l] = NoThread]
      /\ frame' = [frame EXCEPT ![t] = "Wait"]
      /\ on' = [on EXCEPT ![t] = c]
      /\ conditionLock' = [conditionLock EXCEPT ![t] = l]
      /\ UNCHANGED semValue
  BY DEF Wait, Freed, Block, Sleep
<1>3. c \in Object /\ l \in Object /\ c # l
  BY ObjectAssumption DEF Object
<1>4. \A o \in Cond : queue'[o] = IF o = c THEN Enqueued(queue[c], t) ELSE queue[o]
  <2>1. \/ queue' = [queue EXCEPT ![c] = Enqueued(queue[c], t)]
        \/ queue' = [[queue EXCEPT ![l] = Rest(@)] EXCEPT ![c] = Enqueued(queue[c], t)]
    BY <1>1, <1>3 DEF Wait, Block
  <2>2. \A o \in Cond : o \in Object /\ o # l
    BY ObjectAssumption DEF Object
  <2> QED BY <1>1, <1>3, <2>1, <2>2
<1>5. frame[t] = "Running" /\ t \notin Items(queue[c])
  BY <1>3 DEF Wait, Executing, IInv, ThreadInv, ThreadPlacement, Waiting, CallDiscipline
<1>6. Items(queue'[c]) = Items(queue[c]) \cup {t}
  BY <1>1, <1>3, <1>4, <1>5, PutProperties DEF IInv, ThreadInv, ThreadPlacement
<1>7. ASSUME NEW u \in Thread \ {t} PROVE Same(u)
  <2>1. frame[u] = "Wait" => on[u] \in Cond
    BY DEF IInv, CallDiscipline
  <2> QED BY <1>1, <1>2, <1>4, <1>6, <2>1 DEF Same
<1>8. Activity(t)' = M!WaitsOn(c, l)
  BY <1>1, <1>2, <1>6, ActivityThen
<1>9. activities' = [activities EXCEPT ![t] = M!WaitsOn(c, l)]
  BY <1>7, <1>8, OneMoves
<1>10. activities[t] = M!NotWaiting
  BY <1>5, ActivityNow DEF activities
<1> QED BY <1>2, <1>9, <1>10 DEF M!Wait, M!Become

-----------------------------------------------------------------------------
(* The steps                                                               *)

\* The calls and steps that Monitor does not see.
LEMMA QuietSteps ==
  ASSUME IInv, NEW t \in Thread,
         \/ \E u \in Thread, p \in Priority : SetPriority(u, p) /\ UNCHANGED synchVars
         \/ Fork(t) /\ UNCHANGED synchVars
         \/ Yield(t) /\ UNCHANGED synchVars
         \/ Finish(t) /\ UNCHANGED synchVars
         \/ Start(t) /\ UNCHANGED synchVars
         \/ ResumeYield(t) /\ UNCHANGED synchVars
         \/ Dispatch /\ UNCHANGED synchVars
         \/ \E c \in Cond, l \in Lock : Broadcast(t, c, l)
         \/ \E l \in Lock : AcquireFails(t, l) \/ ReleaseFails(t, l)
         \/ \E s \in Sem : StartIO(s)
         \/ IdleReturns \/ Halt \/ UNCHANGED vars
  PROVE  UNCHANGED M!vars
<1>1. frame \in [Thread -> Frames] /\ on \in [Thread -> Object \cup {NoObject}]
  BY DEF IInv, ThreadInv, ThreadTypeOK
<1>2. CASE UNCHANGED <<frame, on, queue, conditionLock, lockThread, semValue>>
  BY <1>2, NoneMoves DEF Same, M!vars
<1>3. CASE /\ frame[t] \in {"Running", "ThreadRoot", "Yield"}
           /\ \E f \in {"Running", "Yield", "Finish", "Broadcast"} : frame' = [frame EXCEPT ![t] = f]
           /\ \A u \in Thread \ {t} : on'[u] = on[u]
           /\ UNCHANGED <<queue, conditionLock, lockThread, semValue>>
  BY <1>1, <1>3, QuietStep DEF M!vars
<1>4. Executing(t) => frame[t] = "Running"
  BY DEF Executing, IInv, ThreadInv, ThreadPlacement, CallDiscipline
<1>5. CASE \/ Yield(t) /\ UNCHANGED synchVars
           \/ Finish(t) /\ UNCHANGED synchVars
           \/ Start(t) /\ UNCHANGED synchVars
           \/ ResumeYield(t) /\ UNCHANGED synchVars
  BY <1>3, <1>4, <1>5
     DEF Yield, SwitchTo, Finish, Sleep, Start, ResumeYield, Resumed, Return, synchVars
<1>6. CASE \E c \in Cond, l \in Lock : Broadcast(t, c, l)
  BY <1>1, <1>3, <1>4, <1>6 DEF Broadcast
<1>7. CASE \/ \E u \in Thread, p \in Priority : SetPriority(u, p) /\ UNCHANGED synchVars
           \/ Fork(t) /\ UNCHANGED synchVars
           \/ Dispatch /\ UNCHANGED synchVars
  BY <1>2, <1>7 DEF SetPriority, Fork, Dispatch, synchVars
<1>8. CASE \E l \in Lock : AcquireFails(t, l) \/ ReleaseFails(t, l)
  BY <1>2, <1>8 DEF AcquireFails, ReleaseFails, Abort, synchVars
<1>9. CASE (\E s \in Sem : StartIO(s)) \/ IdleReturns \/ Halt \/ UNCHANGED vars
  BY <1>2, <1>9 DEF StartIO, IdleReturns, Halt, vars, synchVars, threadVars
<1> QED BY <1>5, <1>6, <1>7, <1>8, <1>9, Zenon

\* Every step of Synch is a step of Monitor or changes nothing that it sees.
LEMMA StepRefines ==
  ASSUME IInv, [Next]_vars
  PROVE  [M!Next]_(M!vars)
<1> DEFINE Goal == [M!Next]_(M!vars)
<1>1. ASSUME NEW t \in Thread, NEW s \in Sem, P(t, s) PROVE Goal
  <2>1. frame[t] = "Running"
    BY <1>1 DEF P, Executing, IInv, ThreadInv, ThreadPlacement, CallDiscipline
  <2> QED BY <1>1, <2>1, PLoopRefines DEF P, M!Next
<1>2. ASSUME NEW t \in Thread, ResumeP(t) PROVE Goal
  <2>1. frame[t] = "P" /\ on[t] \in Sem
    BY <1>2 DEF ResumeP, Resumed, IInv, CallDiscipline
  <2> QED BY <1>2, <2>1, PLoopRefines DEF ResumeP, M!Next
<1>3. ASSUME NEW s \in Sem, V(s) \/ IOInterrupt(s) \/ Idle(s) PROVE Goal
  <2>1. activities' = activities
    BY <1>3, WakeMovesNobody DEF V, IOInterrupt, Idle, DoV
  <2>2. M!Up(s)
    BY <1>3, <2>1 DEF V, IOInterrupt, Idle, DoV, M!Up
  <2> QED BY <2>2 DEF M!Next
<1>4. ASSUME NEW t \in Thread, NEW l \in Lock, Acquire(t, l) PROVE Goal
  <2>1. Activity(t) = M!NotWaiting
    BY <1>4, ActivityNow DEF Acquire, Executing, IInv, ThreadInv, ThreadPlacement, CallDiscipline
  <2> QED BY <1>4, <2>1, AcquireLoopRefines DEF Acquire, M!Next
<1>5. ASSUME NEW t \in Thread, ResumeAcquire(t) PROVE Goal
  <2>1. on[t] \in Lock /\ Activity(t) = M!Wants(on[t])
    BY <1>5, ActivityNow DEF ResumeAcquire, Resumed, IInv, CallDiscipline
  <2> QED BY <1>5, <2>1, AcquireLoopRefines DEF ResumeAcquire, M!Next
<1>6. ASSUME NEW t \in Thread, ResumeWait(t) PROVE Goal
  <2>1. frame[t] = "Wait" /\ on[t] \in Object /\ conditionLock[t] \in Lock
    BY <1>6 DEF ResumeWait, Resumed, IInv, CallDiscipline, Object
  <2>2. t \notin Items(queue[on[t]])
    BY <1>6, <2>1 DEF ResumeWait, Resumed, IInv, ThreadInv, ThreadPlacement, Waiting
  <2>3. Activity(t) = M!Wants(conditionLock[t])
    BY <2>1, <2>2, ActivityNow
  <2> QED BY <1>6, <2>1, <2>3, AcquireLoopRefines DEF ResumeWait, M!Next
<1>7. ASSUME NEW t \in Thread, NEW l \in Lock, Release(t, l) PROVE Goal
  <2>1. activities' = activities
    BY <1>7, WakeMovesNobody DEF Release
  <2>2. activities[t] = M!NotWaiting
    BY <1>7, ActivityNow
       DEF Release, Executing, IInv, ThreadInv, ThreadPlacement, CallDiscipline, activities
  <2>3. M!Give(t, l)
    BY <1>7, <2>1, <2>2 DEF Release, Freed, M!Give
  <2> QED BY <2>3 DEF M!Next
<1>8. ASSUME NEW t \in Thread, NEW c \in Cond, NEW l \in Lock, Wait(t, c, l) PROVE Goal
  BY <1>8, WaitRefines DEF M!Next
<1>9. ASSUME NEW t \in Thread, NEW c \in Cond, NEW l \in Lock, Signal(t, c, l) PROVE Goal
  <2>1. Activity(t) = M!NotWaiting
    BY <1>9, ActivityNow DEF Signal, Executing, IInv, ThreadInv, ThreadPlacement, CallDiscipline
  <2> QED BY <1>9, <2>1, SignalRefines DEF Signal, M!Next
<1>10. ASSUME NEW t \in Thread, BroadcastLoop(t) PROVE Goal
  <2>1. /\ frame[t] = "Broadcast" /\ on[t] \in Cond
        /\ \E l \in Lock : lockThread[l] = t
        /\ Activity(t) = M!NotWaiting
    BY <1>10, ActivityNow DEF BroadcastLoop, Resumed, IInv, CallDiscipline
  <2>2. CASE WakeFirst(on[t]) /\ UNCHANGED <<level, frame, on, conditionLock>>
    BY <1>10, <2>1, <2>2, SignalRefines DEF BroadcastLoop, M!Next
  <2>3. CASE Finished(t) /\ UNCHANGED queue
    <3>1. /\ frame \in [Thread -> Frames]
          /\ on \in [Thread -> Object \cup {NoObject}]
          /\ conditionLock \in [Thread -> Lock \cup {NoObject}]
      BY DEF IInv, ThreadInv, ThreadTypeOK
    <3>2. frame' = [frame EXCEPT ![t] = "Running"] /\ \A u \in Thread \ {t} : Same(u)
      BY <2>3, <3>1 DEF Finished, Return, Same
    <3>3. activities' = [activities EXCEPT ![t] = M!NotWaiting]
      BY <3>1, <3>2, OneMoves, ActivityThen
    <3> QED BY <1>10, <2>1, <3>3 DEF BroadcastLoop, M!vars, activities
  <2> QED BY <1>10, <2>2, <2>3 DEF BroadcastLoop
<1>11. Main \in Thread
  BY MainAssumption
<1>12. CASE ThreadCall \/ TimeSlice \/ UNCHANGED vars
  BY <1>11, <1>12, QuietSteps DEF ThreadCall, TimeSlice, TimerYield
<1>13. CASE SynchCall
  BY <1>1, <1>3, <1>4, <1>7, <1>8, <1>9, <1>11, <1>13, QuietSteps DEF SynchCall
<1>14. CASE KernelStep
  BY <1>2, <1>3, <1>5, <1>6, <1>10, <1>11, <1>14, QuietSteps DEF KernelStep
<1> QED BY <1>3, <1>12, <1>13, <1>14 DEF Next, Over

\* The semaphores, locks and conditions of synch.cc, with all that the scheduler
\* and the interrupts do to the threads in them, are the ones that synch.h
\* promises.
THEOREM Refinement == Spec => ImplementsMonitor
<1>1. Init => M!Init
  <2> SUFFICES ASSUME Init PROVE M!Init
    OBVIOUS
  <2>1. \A t \in Thread : frame[t] \notin {"P", "Acquire", "Wait"}
    BY DEF Init, ThreadInit
  <2>2. activities = [t \in Thread |-> M!NotWaiting]
    BY <2>1, ActivityNow DEF activities
  <2>3. semValue \in [Sem -> Nat]
    BY BoundAssumption DEF Init
  <2> QED BY <2>2, <2>3 DEF Init, M!Init
<1>2. IInv /\ [Next]_vars => [M!Next]_(M!vars)
  BY StepRefines
<1> QED BY <1>1, <1>2, Invariance, PTL DEF Spec, ImplementsMonitor, M!Spec

=============================================================================
