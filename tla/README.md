# A verification development of the Nachos kernel

Nachos is an instructional operating system that runs as a Unix process: a
simulated machine (`src/code/machine`) and, on it, a kernel with threads,
synchronization, a file system, user programs and a network. This directory
models the kernel in TLA+, checks the models with TLC and proves theorems about
them with TLAPS. `src/code` is the program; the directories beside it hold an
earlier copy of the same files and are not referred to.

## 1. Inventory

### Components

| Component | State | Operations | What makes it correct |
|---|---|---|---|
| List (`threads/list.cc`) | `first`, `last`, elements with a key | Append, Prepend, Remove, SortedInsert, SortedRemove | the pointers always form one chain; equal keys stay in order of arrival |
| Thread, Scheduler (`threads/thread.cc`, `scheduler.cc`, `switch.s`) | status and priority of each thread, `readyList`, `currentThread`, `threadToBeDestroyed` | Fork, Yield, Sleep, Finish, ReadyToRun, Run | a thread is in one place; it resumes the call that switched it out; it is deleted after it has finished, by another thread |
| Thread::Join (`thread.cc`) | per thread: `joinLock`, `joinCon`, `go`, `joinAlreadyCalled` | Join, Finish | Join returns after the joinee's procedure, and always returns |
| Semaphore, Lock, Condition (`threads/synch.cc`) | value, owner, queue of each object | P, V, Acquire, Release, Wait, Signal, Broadcast | mutual exclusion; no lost wakeup; Mesa semantics |
| Mailbox (`synch.cc`) | `copied`, `receiveBool`, `buff`, a lock, two conditions | Send, Receive | each message is received once; nobody waits for a partner that is there |
| Whale (`synch.cc`) | three counters, three flags, a lock, three conditions | Male, Female, Matchmaker | a call returns when a trio is complete |
| SynchList (`threads/synchlist.cc`) | a List, a lock, a condition | Append, Remove, Mapcar | Remove waits for an element; each is removed once |
| Interrupt, Timer (`machine/interrupt.cc`, `timer.cc`) | level, pending interrupts, clock, `yieldOnReturn` | SetLevel, OneTick, Schedule, CheckIfDue, Idle, Halt | handlers run with interrupts off; time never goes back |
| Start and stop (`threads/system.cc`, `main.cc`) | the kernel's global objects | Initialize, Cleanup | |
| Disk, SynchDisk (`machine/disk.cc`, `filesys/synchdisk.cc`) | `active`, last sector; a lock, a semaphore | ReadSector, WriteSector, RequestDone | one request at a time; a caller returns after its own request is done |
| File system (`filesys/*.cc`) | free map, directory and headers on disk; copies in memory | Create, Open, Remove, ReadAt, WriteAt | no sector belongs to two files; the map agrees with the directory |
| Network, PostOffice (`machine/network.cc`, `network/post.cc`) | one-packet inbox, `sendBusy`, mailboxes | Send, Receive, PostalDelivery, handlers | no packet overwrites another; a message goes to its box |
| Console (`machine/console.cc`, `userprog/progtest.cc`) | `incoming`, `putBusy` | GetChar, PutChar, handlers | no character is lost between a poll and a GetChar |
| Address spaces, memory (`userprog/addrspace.cc`, `memorymanager.cc`, `bitmap.cc`) | page tables, a map of physical pages | Initialize, AllocPage, FreePage | no page belongs to two programs |
| System calls, process table (`userprog/exception.cc`, `table.h`) | table of address spaces | Exec, Exit, Halt, Alloc, Get, Release | every error path stops the call |
| MIPS simulator, translation (`machine/mipssim.cc`, `translate.cc`) | registers, memory | OneInstruction, Translate | |
| Host interface, statistics, tools (`machine/sysdep.cc`, `stats.cc`, `bin/`) | | | |

### How they interact

Everything rests on one mechanism. A Nachos thread runs until it enters the
kernel or is interrupted; simulated time, and with it every interrupt, advances
only in `Interrupt::OneTick`, which `SetLevel` calls when interrupts go from off
to on. So code between a `SetLevel(IntOff)` and the matching enabling is atomic,
except where `Thread::Sleep` or `Thread::Yield` reach `SWITCH`. Device handlers
call `Semaphore::V` or, the timer's, ask for a `Yield` on return. Locks and
conditions disable interrupts around their own lists; SynchDisk, SynchList,
PostOffice, MemoryManager and Table are monitors built from locks, conditions
and semaphores; the file system uses SynchDisk and no lock of its own.

### What is hard

* interleavings at every point where interrupts are enabled, and at each
  `SWITCH`, with threads that resume in the middle of the call they left;
* wakeups: woken threads are only made ready, and others may be faster
  (barging on locks and semaphores, Mesa conditions);
* deletion: a finished thread is deleted by another one, later;
* protocols built from conditions (Mailbox, Whale, Join) that depend on which
  thread is signalled and who gets the lock first;
* fields that constructors leave uninitialized (`newPriority`,
  `joinAlreadyCalled`, `copied`, `receiveBool`, Whale's counters);
* a kill between two of the file system's sector writes, and what a restart finds;
* packets lost with the same interrupt as if delivered, one-place buffers in the
  devices, overdue interrupts after an idle stretch;
* delayed loads and branches of the simulated MIPS, when a trap or an interrupt
  comes between an instruction and its delay slot.

`PROJECT.json` lists these hazards with the line where each bites.

## 2. The modules

| Module | Models | Built on |
|---|---|---|
| `NachosList` | the list operations, as operators on sequences of (item, key) | |
| `PointerList` | `list.cc` as written: nodes, `next`, `first`, `last`, new and delete | `NachosList` |
| `ListSpec` | what the interface promises: a sequence; `PointerList` implements it | `NachosList` |
| `Threads` | threads, scheduler, time slices | `NachosList` |
| `Synch` | semaphores, locks, conditions, device interrupts, idling; the specification of the kernel's core | `Threads` |
| `Monitor` | what `synch.h` promises of the primitives, without scheduler or queues; `Synch` implements it | |
| `Mailbox` | class Mailbox | the lock and conditions of `Monitor` |
| `Whale` | class Whale | the same |
| `Join` | Thread::Join and Thread::Finish of joinable threads | the same |
| `ThreadTest` | the tests of `threadtest.cc` for these three classes, one of which runs | `Mailbox`, `Whale`, `Join` |
| `SynchDisk` | Disk and SynchDisk: requests, the interrupt, the lock and the semaphore | the lock and semaphore of `Monitor` |
| `AtomicDisk` | what `synchdisk.h` promises: sectors read and written at once; `SynchDisk` implements it | |
| `FileSystem` | the file system under the commands of `main.cc`, sector write by sector write, with kills | the sector writes of `AtomicDisk` |
| `AtomicFiles` | what `filesys.h` and `openfile.h` promise: named files, read and written at once; `FileSystem` implements it | |
| `PostOffice` | Network, PostOffice, MailBox and SynchList, on several machines | `Monitor` |
| `Console` | the console device and ConsoleTest | |
| `UserProgram` | the MIPS simulator, address translation and the exception handler | |
| `Nachos` | the programs that `main` can run of these three | `PostOffice`, `Console`, `UserProgram` |
| `Devices` | simulated time: Interrupt, the timer, the disk's latency, polling devices | `NachosList` |
| `NachosListProofs`, `PointerListProofs`, `SynchProofs`, `SynchDiskProofs`, `ThreadTestProofs`, `FileSystemProofs`, `NachosProofs`, `DevicesProofs` | theorems | |
| `MC*` | instances for TLC | |

So there are three levels. `Devices` is simulated time, below the threads, which
it only counts. `Synch` is the kernel as the code has it, in which an interrupt
may come at any time. The programs that only use its primitives (`Mailbox`,
`Whale`, `Join`, `SynchDisk`, `PostOffice`) are modelled over `Monitor`, which
`Synch` implements (run `synch`, theorem `Refinement`); their state spaces then
contain neither the ready list nor the queues. `FileSystem` stands on
`AtomicDisk` in the same way: one sector is written at once.

### Threads and Synch

A stretch of code that runs with interrupts off is one step, up to the place
where interrupts are enabled or where `SWITCH` leaves the thread.

* `frame[t]` is the call t was switched out of, hence where it resumes:
  `ThreadRoot` (never run), `Yield`, `P`, `Acquire`, `Wait`, `Finish`; `Running`
  when it executes its own procedure with interrupts enabled.
* `cpu` distinguishes a running thread from the loop of `Thread::Sleep` that
  looks for one (`asleep`), from `Interrupt::Idle` (`idle`) and from the end of
  the program (`halted`, `aborted`).
* Actions that start a call (`P`, `Acquire`, `Wait`, ...) are guarded by
  `Executing`; those that continue one after `SWITCH` (`ResumeP`, ...) by
  `Resumed`, and begin with the rest of `Scheduler::Run`, the deletion of
  `threadToBeDestroyed`. `Start` (ThreadRoot) does not come out of `Run` and
  deletes nothing.
* The ready list and the queues are lists sorted by minus the priority that a
  thread has *when it is put on them*; `SetPriority` moves nobody.
* `TimerYield`, `IOInterrupt` and `Idle` are the interrupts. When an interrupt is
  due is left open; `pendingIO` counts the device operations whose handler will
  call V.
* `Broadcast` is one step per thread it wakes, with interrupts off throughout.
* A failed ASSERT (Acquire of a lock one has, Release of one has not) ends the
  program. `inside` is a history variable: the locks a thread is entitled to
  believe it has.

The threads may call anything at any time: the model is of the kernel under
every program, not of one test.

### Mailbox, Whale, Join and ThreadTest

One step is the code from one operation on a lock or condition to the next; `pc`
says which. Signal may wake any waiting thread. That is every order that
priorities, which are uninitialized unless set, can give the queue.

In `Mailbox` `sent` and `received` are history variables. The constructors of
Mailbox and Whale set none of their flags and counters; `Fresh`, the set of
values they may start with, is {0}, since the only instances are globals made
before `main`, in memory that the host has just given (threadtest.cc:67-68).

In `Whale` the three methods are one text with the roles exchanged, so a thread
has a role and the actions are written once. `pres` are the flags that the
members of a trio set as they leave, and the last one resets with the counters.

In `Join` an ASSERT that fails sets `cpu` to `aborted`: a second Join (or a first
one, when the uninitialized `joinAlreadyCalled` is true), and `Thread::Sleep`
called by `Finish` after `Release` has enabled interrupts.

`ThreadTest` runs one of them, as -q does. The calls of a test are among those
that its class's model allows.

### SynchDisk

A call is five steps: the call, Acquire, the request, P, and Release with the return;
`DiskDone` is the interrupt, at any time after the request. As in the code the
Unix file is read or written when the request is issued, not when it is done,
so `request[t].data`, the caller's buffer, may already hold the sector while the
caller waits. The ASSERT that no request is in progress sets `cpu` to `aborted`.
`AtomicDisk` sees a call, one moment at which the sector is read or written, and
the return; the mapping takes the request for that moment.

### FileSystem

The file system has no lock and asks for one thread at a time, so what it reads
and computes up to its next write is one step, and the writes it will then do
are queued in `pending`: `WriteSector` does the first. `Crash` may come between
any two and loses `pending`, `job` (the command and its open files) and nothing
else; the next command starts from the disk, as a new process does.

A sector holds a header, the free map, half a directory, or data. The directory
takes two sectors and one of its entries lies across them, as the 7th of the
code's 10 does, so that half of the entry can reach the disk and the other not.
`Settled` is the disk as it will be when `pending` is done. `sound` is a history
variable: the disk was formatted, and no kill has cut an operation short since.
After one that did, only -p and -f are explored, although main would execute any
command (the guard of `Command` is a bound of the model). So `AlwaysOpenable` is
about what a kill leaves, not about what later commands make of it: after a kill
inside Remove a name may keep sectors that the map has as free, and a -cp would
then give them to a second name. `outcome` is a history variable too: how the last
command ended, what its return value or message says (`done`, `failed`) or that it
was `killed`.

`AtomicFiles` knows names and contents. Its Create, Remove and writes happen at
once and fail for the reasons given in `filesys.cc`. A command has steps and
ends in one way: `-cp` creates its file or fails; only then it writes, and it is
done only when the file is a copy of the data; `-t` tries to create its file and
then removes the one of that name; `-p` and `-r` fail only when there is no file.
Because `outcome` is part of what is mapped, a kill (`Stop`) cannot stand for an
end: a Create that fails with room left, a truncated copy, or a Remove that does
nothing is no step of `AtomicFiles`. A crash in an operation withdraws every
promise until the next format.

### PostOffice, Console, UserProgram and Nachos

`PostOffice` has for each machine the packets in its socket (`wire`), the one
that its Network holds (`inbox`), the completion interrupts (`sending`), the
semaphores and the lock of the post office, and per mailbox a SynchList with its
lock and condition. `NetworkSend` loses a packet or not, and schedules the same
interrupt. The worker's four steps are those of PostalDelivery and
SynchList::Append. `onWire` and `got` are history variables.

`Console` has the one-character buffer, `putBusy`, the two semaphores, and the
loop of ConsoleTest. Polling finds a character at any time.

`UserProgram` executes one instruction per step, an interrupt between two
instructions another. Words have `WordBits` bits and the parts of a word scale
with them; every instruction is there, with its fields chosen freely: what a
program is loaded from is left open (see below). A register that is being loaded
is `load`, a jump that waits for its delay slot is `nextPc`. The branches of
ExceptionHandler end the program, or go on after the system call.

`Nachos` runs one of the three, as main does with -o, -c or -x.

### Devices

`pending` is the sorted list of interrupts with their times. A step is one call
of `CheckIfDue`, or what a thread does between two: `cpu` says in which of the
two loops around it the machine is (`OneTick`, `Idling`), or where outside. The
disk's `ComputeLatency` and `UpdateLast` are written as in `disk.cc`; `arrival`,
when the head came to its track, is a history variable that they do not use.

## 3. Runs

| Run | Checks | Bounds |
|---|---|---|
| `list` | `WellFormed`: one chain of exactly the allocated nodes, `last` its end; `ImplementsList`: the operations are those of `ListSpec` | 3 nodes (first, middle and last all differ), 2 items, keys -1, 0, 1 |
| `synch` | `ThreadPlacement`, `CallDiscipline`, `CarcassIsDead`, `MutualExclusion`, `LockNoLostWakeup`, `SemaphoreNoLostWakeup`, `DeletedForGood`, and `ImplementsMonitor` | 3 threads, one object of each class, 2 priorities, semaphore value and pending interrupts at most 2 together |
| `schedule` | `EventuallyScheduled`, one priority: a ready thread runs, or a procedure computes for ever | 3 threads, one object of each class |
| `starvation` | the same with two priorities: violated | 3 threads, no objects |
| `carcass` | `FinishedWillBeDeleted`: violated | 3 threads |
| `threadtest` | `EachReceivedOnce`, `MessageHasReceiver`, `MessageTaken`; `MatesInThrees`, `TriosGetThrough`; `JoinWaitsForFinish`, `JoineeOutlivesJoin` | Mailbox: 3 threads, 3 Sends, 3 Receives, 2 messages; Whale: 2 threads of each role, 3 calls of each method; Join: 2 joinees, 3 joiners, any fresh `joinAlreadyCalled` |
| `mailbox_stuck` | `SenderWaitsOnlyForReceiver`: violated | 4 threads, 2 Sends, 2 Receives |
| `join_stuck` | `JoinReturnsAtLast`: violated | 1 joinee, 1 joiner |
| `synchdisk` | `OneRequest`: one request at a time, whose V is for its own thread; `NothingBetween`: a returning reader has what is on the disk; `RequestReturns`; `ImplementsAtomicDisk` | 3 threads, 2 sectors, 2 contents, any initial disk |
| `filesys` | `MapAgreesWithDirectory`; `AlwaysOpenable`: whatever moment a kill comes; `OneFileAtStake`; `ImplementsAtomicFiles`: which commands are done, which fail, and what that leaves | 10 sectors of 3 bytes, 3 entries, the second across two sectors, transfers of 2 bytes, 4 names, files of 0, 2 and 5 bytes, 6 commands |
| `main` | `MailInOrder`, `OneSend`, `NoMailForgotten`, `MailArrives`; `EchoInOrder`, `AllEchoed`; `ExactArithmetic`, `PreciseTraps` | mail: 1 machine, 3 threads, 1 box, 2 Sends, 2 Receives; console: 4 characters of 2; program: words of 8 bits, 3 pages of 4 bytes of 4 physical ones, 2 instructions |
| `devices` | `InterruptsOnTime`: none lost, early, late or twice; `RightSector`: the time a request takes is the one that rotation imposes | ticks of 1 and 2, timer 2, polling 4, 3 sectors a track, 2 tracks, rotation 3, seek 4, up to time 28, 2 threads |

Why these bounds: with three threads one may run while a second is woken and a
third overtakes it, and two may wait on one queue; two priorities make
insertion before, between and behind possible. Two sectors and two contents tell
a request's sector from another's and the old content from the new. `MaxSem = 2` lets a V come while
another unit is still unclaimed. Three calls of each kind in the mailbox let a
receiver come back while others are still inside. With two whales of each role,
one may return and call again, or overtake, while its trio is still leaving.
Four names for three entries fill the directory, and 10 sectors cannot hold
three files of any size: Create fails for each of its reasons. A file of 5 bytes
takes two sectors, and transfers of 2 bytes end inside a sector, at its end and
across two. Two packets show loss, order and a full inbox. The Send of one
thread may overlap that of another. Words of 8 bits include the least int, the sign bit in
each field, products of two words; two instructions include each with the load
or the branch of the one before pending. The times of `devices` make a request
start within a sector, on a boundary, with and without a seek and with the
buffer full or not, and put the interrupts of several devices at one time. Nothing in
the code depends on larger numbers; what section 5 lists is proved for any.

`CHECK_DEADLOCK FALSE` is said where the system really stops: in `threadtest`
and the two runs of its parts (all calls done, or waiting for a partner that
does not come, which the properties judge), in `main` (ConsoleTest halts at
'q', a user program exits or halts, all mail is read), in `filesys` (the last
command is done) and in `devices` (the machine halts when nothing can happen).
In `Synch` the machine halts explicitly, and deadlock is checked: in every state
some step is possible; so it is in `PointerList` and `SynchDisk`.

### What the violations show

* `starvation`: `Thread::Yield` promises that the thread "will eventually be
  re-scheduled" (thread.cc:229). The ready list is in order of priority, and the
  next thread is taken off before the yielding one is put back, so two threads
  of a higher priority alternate for ever, time slices included. Here no procedure
  computes for ever: the two enter the kernel again and again.
* `carcass`: the comment of `Thread::Finish` says that `Scheduler::Run` will call
  the destructor. A thread that runs for the first time does not return into
  `Run`; if it finishes at once, `threadToBeDestroyed` is overwritten and the
  first thread is never deleted: a leak, no worse.
* `mailbox_stuck`: R1 and R2 enter Receive and wait; S1 sends; S2 finds
  `copied == 1` and waits; R1 takes the message and signals nobody. S2 and R2
  now wait although each is the other's partner.
* `join_stuck`: Join before the joinee's Finish, the case of join-example.cc:
  Finish finds `go` set, skips its loop and waits on `joinCon`, where the joiner
  waits too. In the other order, Join after Finish, everyone is signalled, but
  Finish then calls `Sleep` with interrupts enabled and the ASSERT of
  thread.cc:286 ends the program (`FinishSleeps`).

### Peculiarities of the code that the models keep

* MIPS: OR computes `rs | rs` (mipssim.cc:376); SRL and SRLV shift
  arithmetically (445-455); a pending load overwrites what the instruction in its
  delay slot writes in the same register; an interrupt completes a pending load
  before its delay slot; the least int divided by -1 traps the host.
* `AddrSpace::Read` takes the address to load at from an uninitialized variable
  (addrspace.cc:216), and `memset` clears `sizeof(PageSize)` bytes of a page
  (122): `Image`, what is in memory at first, is a parameter.
* A typed byte 255 equals EOF as a char, and the console would lose it; `Char`
  excludes it.
* The performance test (fstest.cc:101) counts on files that grow; Create fixes
  the size, so it writes nothing and goes on to remove its file.
* `TimerInterruptHandler` tests for IdleMode (system.cc:62), which CheckIfDue has
  always replaced by SystemMode: the timer asks for a yield even when idle, and
  Idle clears the request.
* CheckIfDue puts an interrupt that is not due back behind those of the same
  time, so these take turns. When Idle finds only the timer, overdue, after
  another interrupt, it leaves it to the next SetLevel: the exception in
  `InterruptsOnTime`.

## 4. Fairness

* `Synch`: `WF(KernelStep)`, since the processor always goes on with code that
  runs with interrupts off, and `TimerFires`. Simulated time passes only when
  `SetLevel` enables interrupts and calls `OneTick` (interrupt.cc:125); `OneTick`
  of the module is such a step. If ticks never cease while a thread is always
  ready, the timer of `-rs`, which interrupts again after a random number of
  ticks, brings a time slice again and again. A procedure that computes and never
  enters the kernel makes no time pass and is never interrupted. No fairness is
  assumed of the calls the procedures make, so that may happen, and
  `EventuallyScheduled` says so: either every ready thread gets the processor, or
  (`ComputesForEver`) one procedure keeps it for ever. Without this exception the
  run finds that behaviour; without `TimerFires` it finds one in which threads enter
  the kernel for ever and no timer comes. A procedure that only makes calls that change nothing
  (Signal on an empty condition) counts as computing: the steps that it makes are
  not steps of the model, and the run says nothing of it.
* `Mailbox`, `Whale`, `Join`: `WF` of each thread's steps inside Send, Receive,
  Male, Join, Finish and so on: the scheduler runs every ready thread
  (`EventuallyScheduled`), for threads of one priority and as long as no procedure
  of another thread computes for ever. The tests of `threadtest.cc` print between
  their calls and end. No thread has to call. A
  joinee's procedure does return, which only helps `JoinReturnsAtLast`.
* `SynchDisk`: `WF(DiskDone)`, since every request schedules its interrupt and
  `Interrupt` fires each one that is due, idle or not (run `devices`); `WF` of
  each thread's steps inside ReadSector and WriteSector, on the same assumption
  that the threads that have the processor enter the kernel again, or end.
  `RequestReturns` speaks of a thread that has the lock: one that waits for it
  may in principle be overtaken for ever, since Release does not hand the lock to
  the thread it wakes.
* `PostOffice`, on that assumption too: `WF` of the threads' steps inside Send and Receive and of the
  postal worker's, of the completion interrupt, which each Send schedules, and of
  the poll that finds a packet, which schedules the next one. Losing a packet is
  always possible: `MailArrives` is about the others.
* `Console`: `WF` of the poll that finds a character, of the completion of a
  write, and of ConsoleTest. Nobody has to type.
* `FileSystem`, `Devices` and `UserProgram` are checked for safety only: the
  first and the last are sequential, and the second has its deadlines in time.

## 5. Proofs

`NachosListProofs` proves what `SortedInsert` and `Rest` do to types, items,
duplicates and order. That there is a place to insert is `LeastNat`: a nonempty
set of naturals has a least element.

`PointerListProofs` proves `WellFormed` and `ImplementsList` for any number of
nodes, any items and any integer keys. The invariant `ListInv` says that there is
exactly one chain, that its nodes are the allocated ones, each once, and that
`last` is its end. For each operation the new chain is named (the old one with the
node put in front, behind, or after the last one whose key is not bigger; or
without its first) and shown to be one; that there is only one chain then says
that it is `Chain'`. The node after which the loop of SortedInsert inserts is the
place at which `NachosList` inserts in the sequence of the keys.

`SynchProofs` proves the safety properties of `Synch` for every set of threads
and objects, every set of integer priorities and every `MaxSem`. The inductive
invariant `IInv` is the conjunction of

* `ThreadInv`: types, `ThreadPlacement` and `CarcassIsDead`;
* `ValueInv`: the values of the objects and `MutualExclusion`;
* `CallDiscipline`.

No part is inductive alone. That a thread may be put on the ready list without
becoming a duplicate follows from its status, BLOCKED, which follows from its
being on a queue (`ThreadPlacement`). That a resumed call is on an object of the
right class is `CallDiscipline`; that the carcass is on no list, and the running
thread is not the carcass, uses both. `MutualExclusion` needs the types only,
and the argument that a thread woken in Acquire tests the value again.

There is one lemma per action (`ForkStep`, `YieldStep`, ...), over three lemmas
that every call shares: a call returns (`ReturnThreadInv`), goes to sleep on a
queue (`BlockThreadInv`), wakes the first thread of a queue (`WakeThreadInv`).
`Deletion` proves the action property `DeletedForGood` from the same invariant.

It proves that no wakeup is lost. `Coming(o)` is the set of threads
that have been woken for object o and have not tested it again. For a semaphore:
while its queue is not empty, the value is at most the size of `Coming`; for a
lock: when it is FREE and its queue is not empty, `Coming` is not empty. The
induction follows how each step changes the value and `Coming` together; the set
of threads must be finite (`ThreadAssumption`) for its size to be a number.

It then proves that `Synch` implements `Monitor`. What a thread is doing
in `Monitor` is a function (`Activity`) of the call it is in and of whether it is
still on the queue of its condition. `OneMoves` and `NoneMoves` say which threads'
activities a step can change; then there is one lemma per kind of step. The loops
of P and Acquire become `Down` or `Take` when they succeed, `StartWanting` at the
first sleep and nothing at a later one; a V or a Release that wakes a thread
leaves that thread wanting what it wanted; each thread woken by a turn of
Broadcast is a `Signal`. The invariant `IInv` is what tells the queue of a
condition from the others, and that a thread on it is in Wait.

`SynchDiskProofs` proves the safety of `SynchDisk` and that it implements
`AtomicDisk`. Its inductive invariant is `TypeOK /\ OneRequest`: that the ASSERT
of Disk cannot fail needs to know that a thread about to make a request has the
lock, and that whoever has it and is not in P has left neither a request nor an
unclaimed V behind. `Undisturbed` adds that a reader in P has in its buffer what
is on the disk: only a thread with the lock could write it, and the reader has
the lock.

`ThreadTestProofs` is about the three classes made from locks and conditions. A
step of `ThreadTest` is a step of the class under test and leaves the objects of
the others alone, so their three invariants hold together, and `TypeOK` with them.

* Mailbox (`EachReceivedOnce`, `MessageHasReceiver`; any threads, messages and
  calls, flags that start at 0): `BoxInv` relates `copied` to `sent` and
  `received`: the message in `buff` is the last one sent and the only one not
  received, and who is about to copy it has the lock.
* Join (`JoinWaitsForFinish`, `JoineeOutlivesJoin`; any joinees and joiners,
  whatever `joinAlreadyCalled` starts with): `JoinInv` holds of an execution that
  has not aborted: the types and who has which lock (`Basic`), that a joinee that
  waits or has finished is awaited by one joiner at most (`Awaited`), and the
  order of the joiner's places and the joinee's (`Orderly`).
* Whale (`MatesInThrees`; any threads and calls): `TrioInv` counts: each counter
  is the number of calls less the number of complete trios, `left` that number
  plus the flag of the role, and a thread passes its test only while the counters
  of the other two roles are positive.

`FileSystemProofs` proves `MapAgreesWithDirectory`, `AlwaysOpenable`,
`OneFileAtStake` and the refinement `ImplementsAtomicFiles` for any number and size
of sectors, any size of the directory, any names and any files. An operation's writes reach the disk one by one, so the
inductive invariant `FsInv` speaks of all the disks it will go through, the
`Moments` from `disk` to `Done`: each is openable; and, as long as no crash has
cut an operation short, the last has a map that agrees with its directory, and
they differ in one file at most. A sector write takes `disk` from one moment to
the next and a crash leaves it at one, so these steps preserve the invariant at
once. The work is in the steps that queue writes (Create, Remove, a chunk of a
copy, the format). For each: which writes they are; what is on the disk after the
first k of them (`Written`); that each of these disks is a `Stage`, one in which
every entry of the directory but the operation's own has its file, untouched; and
so the invariant (`StagesSuffice`). That a new file takes no sector of another is
that Find returns clear bits, different ones each time (`FindIsClear`,
`FindManyAreClear`), and that the map agrees with the directory when an operation
starts. A directory of which one half is on the disk is `Mixed`.

The refinement takes `Files`, what the directory on `Done` names, for the files of
`AtomicFiles`: an operation takes effect when it queues its writes, and a sector
write is a stutter. `FsInv` is not enough for it, so `ProgressInv` adds what the
command has done of its file so far: while `-cp` writes, the file is in the
directory with the length of the data and agrees with it up to the position, so that
at the end of the loop it is the copy that `done` stands for; while
`-p` reads, what was printed is the file up to the position. Then each action has a lemma that it is a step or a stutter
(`FormatIsAbstract`, `CreateIsAbstract`, ...), which rests on three groups of
lemmas: what a read gives after a write that begins or ends inside a sector
(`ReadAll`, `WriteAtWrites`); the files of a directory with one entry more, one
less, or one file changed (`FilesWithOneMore`, `FilesWithOneLess`, `FilesWithOneChanged`);
and counting, by bijections between the files and the entries in use and between
the sectors that `AtomicFiles` charges for and the bits set in the map
(`FilesAreCounted`, `SectorsAreCounted`), by which Create succeeds exactly when
`AtomicFiles` says that it can (`CreateWhenPromised`).

`NachosProofs` proves all the safety properties of the run `main`, for any
machines, mailboxes, threads and characters, and words of any multiple of four bits.

* The mail (`MailInv`): what was put on the wire is what came to the mailboxes
  (`Delivered`) followed by what is on its way (`Transit`: in the worker's hands,
  in the buffer, in the socket), and of each box what was received and what lies in
  it are its part of the former. The clients inside Send are the owners of their
  machine's lock, so the completion interrupt or its V is for the one that waits.
  `NoMailForgotten` is part of the induction.
* The console (`EchoInv`): what is echoed, what ConsoleTest has in its hands, what
  is in the buffer and what is still in the keyboard are, one after the other,
  what was typed; each semaphore is 1 only when its device has an answer.
* The processor (`UserInv`, which is `TypeOK` and `ExactArithmetic`, and
  `TrapsArePrecise`). That every value is a word needs, of a load, that what
  Translate finds lies in memory (`TranslateIs`: an aligned unit does not cross a
  page) and that its bytes make a word (`BytesAre`); of OR, AND and XOR, that a sum
  of different powers of two is one (`WithOnesIs`). From the types a trap has what it
  relies on (`CanTrap`): what an instruction, a trap or an interrupt makes of a
  pending load is what the action property says.
* `SignTests`, `ProductExact` and `DivisionExact` are what `ExactArithmetic` says of
  ADD, ADDI, SUB, MULT, MULTU and DIV, `ExtendedIs` what it says of LB and LH: the
  loaded value is the byte or half word in memory (`InMemory`), read as a number with a sign. The
  loop of Mult keeps `Multiplied`: after k rounds the product of the multiplicand
  and the low k bits of the multiplier is there, the multiplicand has been shifted by
  k, and the other bits of the multiplier are left, beneath copies of its sign.
  `RoundMultiplies` is one round, `RoundsMultiply` the induction.

What a function computes in n rounds (`Rounds`, `WithOnes`) is proved by induction.
The induction theorems of the library take an operator, so `SetInduction` states the
principle for a set of numbers; it follows from the minimal elements of a
well-founded relation. `StepByStep` gives the existence of a function whose values
are each a step from the one before, and `Powers` the powers of two, by counting
subsets.

`DevicesProofs` proves `InterruptsOnTime` for any times of the devices, any disk
and any number of threads. `InterruptsOnTime` is not inductive: that nothing is
due when a thread runs must be traced to the loop of OneTick, and that a device
has one interrupt at most to its handler, which schedules the next one when its
own is off the list. `DueInv` bounds the times on the list from below: by
`totalTicks - SystemTick` in the loop of OneTick, by `totalTicks` in that of Idle,
which advances the time to the first interrupt and no further, and by
`totalTicks + 1` when a thread runs. After an idle period the timer alone may be
due when the next thread is about to enable interrupts. The lemmas of
`NachosListProofs` say what an insertion and a removal do to the list, and
`Inserted` and `TakenOff` what they do to these bounds.

`DevicesProofs` also proves `RightSector` for any geometry of the disk. The track
buffer of `disk.cc` is right only because `bufferInit` is the time of the first
sector boundary after the head came to its track, and is past before the next
request can be made: `HeadInv` states both, the latter as a bound by the disk's
interrupt, which is still pending. The rest is arithmetic: `ModuloDiffIs`, that
`ModuloDiff` is how far it is up to the first number with a given remainder, and
from it what the wait for a sector is (`LatencyIs`) and when the sector first
passed since a boundary (`FirstPassageIs`).

Assumptions: those on the constants, each in the module that declares them.
`Main` is a thread and NULL is not; the classes of objects, and the threads of
different machines, are disjoint; priorities and keys are integers; sets whose
sizes or sums the code keeps are finite (threads, list elements); times and sizes of
devices are positive and UserTick is at most SystemTick; the disk has at least the
5 sectors that the format writes to, and a Unix file is a sequence of bytes; a word
and a page have a multiple of four bits and of four bytes, and the addresses of the
program are words. TLC
evaluates them in every run of the module; those of `Mailbox`, `Whale`, `Join`,
`PostOffice`, `Console` and `UserProgram` are assumed, of their own constants, by
`ThreadTest` and `Nachos`.

Only model-checked: liveness (`EventuallyScheduled`, `MessageTaken`, `TriosGetThrough`,
`RequestReturns`, `MailArrives`, `AllEchoed`), which is beyond the prover. Every
other property of a passing run is a theorem.

## 6. Not modelled

* Stacks, the registers that `switch.s` saves, `CheckOverflow`, and the
  destructors of Lock and Condition with threads still in their queue.
* A second user program. Exec, the only way to one, passes the user's address of
  the name to the host's `open` and `printf` and goes on with the file it could
  not open: it ends in exit or in a fault of the host. The table of processes,
  `FreePage` and the release of address spaces are reached only after that.
* Several threads in the file system at once, which it asks its callers to
  avoid; List and Print, which print; Seek, which has no caller; files longer
  than the direct blocks of a header; FILESYS_STUB, which leaves files to the host.
* The TLB of the VM build, which no code fills, and the debugger of the simulator.
* The tests 1 to 9 and 13 to 16 of `threadtest.cc`, which print what happens: the
  executions they can have are among those of `Synch`.
* Host calls (`sysdep.cc`), statistics, and the tools and examples of `bin/` and
  `c++example/`: no kernel decision is made there.
* The copy of the sources beside `src/code`: it is the same text, or an earlier
  one (of `exception.cc` and `addrspace.cc`). Half of the repository's lines are
  therefore outside the map.

## 7. Plan

Done: every component that holds state of the kernel, with the proofs of
section 5. What would add most now:

1. `Join` and `Mailbox` under the priorities of `Synch` instead of any order.
