------------------------------- MODULE Monitor ------------------------------
(***************************************************************************)
(* What threads/synch.h promises of the synchronization primitives, with   *)
(* no scheduler, queue or interrupt: locks that are BUSY or FREE, counting *)
(* semaphores, and Mesa condition variables whose Wait gives up the lock   *)
(* and starts to wait in one step, and whose Signal sends one waiting      *)
(* thread to acquire its lock again.                                       *)
(***************************************************************************)
EXTENDS Integers

CONSTANTS Thread, NoThread, Sem, Lock, Cond, NoObject

VARIABLES
  owner,     \* owner[l]: the thread that has lock l, or NoThread when FREE
  count,     \* count[s]: the value of semaphore s
  doing      \* doing[t]: what t is waiting for, see Activities

vars == <<owner, count, doing>>

\* A thread is not waiting, or wants a unit of a semaphore or a lock, or waits
\* to be signalled and will then want a lock.
NotWaiting    == [wants |-> NoObject, then |-> NoObject]
Wants(o)      == [wants |-> o, then |-> NoObject]
WaitsOn(c, l) == [wants |-> c, then |-> l]

Activities ==
  [wants : Sem \cup Lock \cup Cond \cup {NoObject}, then : Lock \cup {NoObject}]

Init ==
  /\ owner = [l \in Lock |-> NoThread]
  /\ count \in [Sem -> Nat]
  /\ doing = [t \in Thread |-> NotWaiting]

Become(t, activity) == doing' = [doing EXCEPT ![t] = activity]

-----------------------------------------------------------------------------

\* t calls P or Acquire and has to wait.
StartWanting(t, o) ==
  /\ doing[t] = NotWaiting
  /\ Become(t, Wants(o))
  /\ UNCHANGED <<owner, count>>

\* P: t takes a unit, at once or after a wait.
Down(t, s) ==
  /\ doing[t] \in {NotWaiting, Wants(s)}
  /\ count[s] > 0
  /\ count' = [count EXCEPT ![s] = @ - 1]
  /\ Become(t, NotWaiting)
  /\ UNCHANGED owner

\* V, by a thread or a device.
Up(s) ==
  /\ count' = [count EXCEPT ![s] = @ + 1]
  /\ UNCHANGED <<owner, doing>>

\* Acquire: t takes a FREE lock, at once or after a wait.
Take(t, l) ==
  /\ doing[t] \in {NotWaiting, Wants(l)}
  /\ owner[l] = NoThread
  /\ owner' = [owner EXCEPT ![l] = t]
  /\ Become(t, NotWaiting)
  /\ UNCHANGED count

\* Release, by the thread that has the lock.
Give(t, l) ==
  /\ doing[t] = NotWaiting
  /\ owner[l] = t
  /\ owner' = [owner EXCEPT ![l] = NoThread]
  /\ UNCHANGED <<count, doing>>

\* Wait: release the lock and wait for a signal, in one step.
Wait(t, c, l) ==
  /\ doing[t] = NotWaiting
  /\ owner[l] = t
  /\ owner' = [owner EXCEPT ![l] = NoThread]
  /\ Become(t, WaitsOn(c, l))
  /\ UNCHANGED count

\* Signal by thread t: thread u, which waits on c, now wants its lock.
Signal(t, c, u) ==
  /\ doing[t] = NotWaiting
  /\ \E l \in Lock : owner[l] = t
  /\ \E l \in Lock : doing[u] = WaitsOn(c, l) /\ Become(u, Wants(l))
  /\ UNCHANGED <<owner, count>>

Next ==
  \/ \E t \in Thread, s \in Sem : StartWanting(t, s) \/ Down(t, s)
  \/ \E s \in Sem : Up(s)
  \/ \E t \in Thread, l \in Lock : StartWanting(t, l) \/ Take(t, l) \/ Give(t, l)
  \/ \E t \in Thread, c \in Cond :
       \/ \E l \in Lock : Wait(t, c, l)
       \/ \E u \in Thread : Signal(t, c, u)

Spec == Init /\ [][Next]_vars

=============================================================================
