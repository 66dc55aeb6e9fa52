-------------------------------- MODULE Join --------------------------------
(***************************************************************************)
(* Thread::Join and the end of a joinable thread, Thread::Finish           *)
(* (threads/thread.cc), over the lock and the condition that every Thread  *)
(* object has for this.  The lock and the condition are those of Monitor.  *)
(***************************************************************************)
EXTENDS Integers, FiniteSets

CONSTANTS
  Joinee,     \* threads made joinable and forked
  Joiner,     \* threads that may call joinee->Join()
  NoThread,
  FreshBool   \* the values of a bool in newly allocated memory: the constructor
              \* does not set joinAlreadyCalled

Thread == Joinee \cup Joiner

JoinAssumption ==
  /\ Joinee \cap Joiner = {} /\ NoThread \notin Thread
  /\ FreshBool \subseteq BOOLEAN

VARIABLES
  owner, doing,       \* joinLock and joinCon of every joinee, see Monitor
  go, joinAlreadyCalled,
  pc,                 \* pc[t]: what t is to run next, see Places
  target,             \* target[t]: the joinee that Joiner t calls Join on
  cpu                 \* "running", or "aborted" by a failed ASSERT

monitorVars == <<owner, doing>>
vars == <<monitorVars, go, joinAlreadyCalled, pc, target, cpu>>

\* The lock and the condition of joinee j.
joinLock(j) == <<"joinLock", j>>
joinCon(j)  == <<"joinCon", j>>

Mon == INSTANCE Monitor WITH
  Sem <- {}, Lock <- {joinLock(j) : j \in Joinee}, Cond <- {joinCon(j) : j \in Joinee},
  NoObject <- <<"none", NoThread>>, count <- <<>>

\* Of a joinee: its procedure, then Finish.  Of a joiner: before Join, in Join,
\* and after it has returned.
Places ==
  {"procedure", "Finish", "FinishTest", "FinishWait", "FinishWaited", "FinishDone",
   "FinishSleep"} \cup
  {"before", "Join", "JoinSignal", "JoinWait", "JoinWaited", "JoinDone", "joined"}

\* The type invariant: in particular go is a flag.
TypeOK ==
  /\ owner \in [{joinLock(j) : j \in Joinee} -> Thread \cup {NoThread}]
  /\ doing \in [Thread -> Mon!Activities]
  /\ go \in [Joinee -> {0, 1}]
  /\ joinAlreadyCalled \in [Joinee -> BOOLEAN]
  /\ pc \in [Thread -> Places]
  /\ target \in [Joiner -> Joinee]
  /\ cpu \in {"running", "aborted"}

Init ==
  /\ Mon!Init
  /\ go = [j \in Joinee |-> 0]
  /\ joinAlreadyCalled \in [Joinee -> FreshBool]
  /\ pc = [t \in Thread |-> IF t \in Joinee THEN "procedure" ELSE "before"]
  /\ target \in [Joiner -> Joinee]
  /\ cpu = "running"

-----------------------------------------------------------------------------

\* Thread t runs the code at place.
At(t, place) == cpu = "running" /\ pc[t] = place /\ doing[t] = Mon!NotWaiting

Goto(t, place) == pc' = [pc EXCEPT ![t] = place]

\* joinCon->Signal(joinLock).
Signal(t, j) ==
  \/ \E u \in Thread : Mon!Signal(t, joinCon(j), u)
  \/ /\ \A u \in Thread : doing[u].wants # joinCon(j)
     /\ UNCHANGED monitorVars

\* The end of Wait: a thread that was signalled acquires joinLock again.
WaitReturns(t, j) ==
  /\ cpu = "running"
  /\ doing[t] = Mon!Wants(joinLock(j))
  /\ Mon!Take(t, joinLock(j))
  /\ UNCHANGED <<go, joinAlreadyCalled, pc, target, cpu>>

-----------------------------------------------------------------------------
\* Finish of joinee j

\* The procedure returns to ThreadRoot, which calls Finish.
ProcedureReturns(j) ==
  /\ At(j, "procedure")
  /\ Goto(j, "Finish")
  /\ UNCHANGED <<monitorVars, go, joinAlreadyCalled, target, cpu>>

FinishAcquires(j) ==
  /\ At(j, "Finish")
  /\ Mon!Take(j, joinLock(j))
  /\ Goto(j, "FinishTest")
  /\ UNCHANGED <<go, joinAlreadyCalled, target, cpu>>

\* while (!go): Signal, Wait ...
FinishSignalsFirst(j) ==
  /\ At(j, "FinishTest")
  /\ go[j] = 0
  /\ Signal(j, j)
  /\ Goto(j, "FinishWait")
  /\ UNCHANGED <<go, joinAlreadyCalled, target, cpu>>

FinishWaitsForJoin(j) ==
  /\ At(j, "FinishWait")
  /\ Mon!Wait(j, joinCon(j), joinLock(j))
  /\ Goto(j, "FinishWaited")
  /\ UNCHANGED <<go, joinAlreadyCalled, target, cpu>>

\* ... and Signal again.
FinishSignals(j) ==
  /\ At(j, "FinishWaited")
  /\ Signal(j, j)
  /\ Goto(j, "FinishTest")
  /\ UNCHANGED <<go, joinAlreadyCalled, target, cpu>>

\* Mutant of FinishWaits: the last Wait is left out.
FinishGoesOn(j) ==
  /\ At(j, "FinishTest")
  /\ go[j] = 1
  /\ Goto(j, "FinishDone")
  /\ UNCHANGED <<monitorVars, go, joinAlreadyCalled, target, cpu>>

\* After the loop: Wait.
FinishWaits(j) ==
  /\ At(j, "FinishTest")
  /\ go[j] = 1
  /\ Mon!Wait(j, joinCon(j), joinLock(j))
  /\ Goto(j, "FinishDone")
  /\ UNCHANGED <<go, joinAlreadyCalled, target, cpu>>

FinishReleases(j) ==
  /\ At(j, "FinishDone")
  /\ Mon!Give(j, joinLock(j))
  /\ Goto(j, "FinishSleep")
  /\ UNCHANGED <<go, joinAlreadyCalled, target, cpu>>

\* Sleep, called with the interrupts that Release has enabled again: its ASSERT
\* fails.
FinishSleeps(j) ==
  /\ At(j, "FinishSleep")
  /\ cpu' = "aborted"
  /\ UNCHANGED <<monitorVars, go, joinAlreadyCalled, pc, target>>

-----------------------------------------------------------------------------
\* Join, by joiner t

CallJoin(t) ==
  /\ At(t, "before")
  /\ Goto(t, "Join")
  /\ UNCHANGED <<monitorVars, go, joinAlreadyCalled, target, cpu>>

\* A mutant of JoinAcquires: no ASSERT that nobody has called Join before.
JoinAcquiresAnyway(t) ==
  /\ At(t, "Join")
  /\ Mon!Take(t, joinLock(target[t]))
  /\ go' = [go EXCEPT ![target[t]] = 1]
  /\ joinAlreadyCalled' = [joinAlreadyCalled EXCEPT ![target[t]] = TRUE]
  /\ Goto(t, "JoinSignal")
  /\ UNCHANGED <<target, cpu>>

\* Acquire, go = 1, and the ASSERT that nobody has called Join before.
JoinAcquires(t) ==
  /\ At(t, "Join")
  /\ Mon!Take(t, joinLock(target[t]))
  /\ go' = [go EXCEPT ![target[t]] = 1]
  /\ joinAlreadyCalled' = [joinAlreadyCalled EXCEPT ![target[t]] = TRUE]
  /\ cpu' = IF joinAlreadyCalled[target[t]] THEN "aborted" ELSE "running"
  /\ Goto(t, "JoinSignal")
  /\ UNCHANGED target

\* Signal and Wait.
JoinSignals(t) ==
  /\ At(t, "JoinSignal")
  /\ Signal(t, target[t])
  /\ Goto(t, "JoinWait")
  /\ UNCHANGED <<go, joinAlreadyCalled, target, cpu>>

JoinWaits(t) ==
  /\ At(t, "JoinWait")
  /\ Mon!Wait(t, joinCon(target[t]), joinLock(target[t]))
  /\ Goto(t, "JoinWaited")
  /\ UNCHANGED <<go, joinAlreadyCalled, target, cpu>>

\* The second Signal, Release and return.
JoinSignalsAgain(t) ==
  /\ At(t, "JoinWaited")
  /\ Signal(t, target[t])
  /\ Goto(t, "JoinDone")
  /\ UNCHANGED <<go, joinAlreadyCalled, target, cpu>>

JoinReturns(t) ==
  /\ At(t, "JoinDone")
  /\ Mon!Give(t, joinLock(target[t]))
  /\ Goto(t, "joined")
  /\ UNCHANGED <<go, joinAlreadyCalled, target, cpu>>

-----------------------------------------------------------------------------

JoineeStep(j) ==
  \/ ProcedureReturns(j) \/ FinishAcquires(j) \/ FinishSignalsFirst(j)
  \/ FinishWaitsForJoin(j) \/ FinishSignals(j) \/ FinishWaits(j) \/ FinishReleases(j) \/ FinishSleeps(j)
  \/ WaitReturns(j, j)

JoinerStep(t) ==
  \/ JoinAcquires(t) \/ JoinSignals(t) \/ JoinWaits(t)
  \/ JoinSignalsAgain(t) \/ JoinReturns(t)
  \/ WaitReturns(t, target[t])

Next ==
  \/ \E j \in Joinee : JoineeStep(j)
  \/ \E t \in Joiner : CallJoin(t) \/ JoinerStep(t)

Spec == Init /\ [][Next]_vars

\* The scheduler runs every thread that is ready (threads of one priority); a
\* joiner need not call Join.
Fairness ==
  /\ \A j \in Joinee : WF_vars(JoineeStep(j))
  /\ \A t \in Joiner : WF_vars(JoinerStep(t))

FairSpec == Spec /\ Fairness

-----------------------------------------------------------------------------

\* Join returns only after the joinee's procedure has returned: whatever other
\* joiners do with go and the condition, it was the joinee that ended the Wait.
JoinWaitsForFinish ==
  \A t \in Joiner :
    pc[t] \in {"JoinDone", "joined"} => pc[target[t]] \notin {"procedure", "Finish"}

\* A joinee that has been joined does not go on to be destroyed while its joiner
\* still has to use its lock and its condition: when it leaves Finish's monitor
\* the joiner has left Join's.
JoineeOutlivesJoin ==
  \A t \in Joiner :
    cpu = "running" /\ pc[target[t]] = "FinishSleep" =>
      pc[t] \notin {"JoinSignal", "JoinWait", "JoinWaited", "JoinDone"}

\* "Joinee has finished executing, we can continue" (join-example.cc): a joiner
\* that has called Join goes on at some time, unless an ASSERT has stopped the
\* program, if its joinee's procedure returns (which Fairness sees to).
JoinReturnsAtLast ==
  \A t \in Joiner : pc[t] = "Join" ~> (pc[t] = "joined" \/ cpu = "aborted")

=============================================================================
