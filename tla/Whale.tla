-------------------------------- MODULE Whale -------------------------------
(***************************************************************************)
(* Class Whale of threads/synch.cc: Male, Female and Matchmaker return     *)
(* when there is one of each.  The three methods are one text with the     *)
(* roles exchanged, and so are the actions here.                           *)
(*                                                                         *)
(* The lock and the conditions are those of Monitor, which Synch           *)
(* implements.  The constructor sets neither the counters nor the flags.   *)
(* They are 0 all the same: the one whale is made before main, in memory   *)
(* that the host has just given (threadtest.cc:68).                        *)
(***************************************************************************)
EXTENDS Integers, FiniteSets

CONSTANTS
  Thread,
  NoThread,
  RoleOf,     \* RoleOf[t]: the method that thread t calls
  MaxCalls    \* a bound on the calls of each method

VARIABLES
  owner, doing,  \* the lock and the conditions, see Monitor
  pc,            \* pc[t]: what t is to do next; a role, when it is to signal
                 \* the condition of that role
  bool,          \* bool[r]: maleBool, femaleBool or matchBool, counters
  pres,          \* pres[r]: malePres, femalePres or matchPres, flags
  calls,         \* the number of calls of each method that have begun
  left           \* history: how many calls of each have got through

monitorVars == <<owner, doing>>
whaleVars == <<bool, pres>>
vars == <<monitorVars, pc, whaleVars, calls, left>>

Role == {"male", "female", "match"}

Mon == INSTANCE Monitor WITH
  Sem <- {}, Lock <- {"whaleLock"}, Cond <- Role, NoObject <- "none", count <- <<>>

WhaleAssumption == RoleOf \in [Thread -> Role] /\ MaxCalls \in Nat

\* The type invariant: in particular no more calls are counted than were made.
TypeOK ==
  /\ owner \in [{"whaleLock"} -> Thread \cup {NoThread}]
  /\ doing \in [Thread -> Mon!Activities]
  /\ pc \in [Thread -> {"outside", "Test", "Release"} \cup Role]
  /\ bool \in [Role -> 0 .. MaxCalls]
  /\ pres \in [Role -> {0, 1}]
  /\ calls \in [Role -> 0 .. MaxCalls]
  /\ left \in [Role -> 0 .. MaxCalls]

Zero == [r \in Role |-> 0]

Init ==
  /\ Mon!Init
  /\ pc = [t \in Thread |-> "outside"]
  /\ bool = Zero /\ pres = Zero
  /\ calls = Zero /\ left = Zero

-----------------------------------------------------------------------------

At(t, place) == pc[t] = place /\ doing[t] = Mon!NotWaiting

Goto(t, place) == pc' = [pc EXCEPT ![t] = place]

\* A call: whaleLock->Acquire() and the count.
Acquires(t) ==
  /\ At(t, "outside")
  /\ calls[RoleOf[t]] < MaxCalls
  /\ calls' = [calls EXCEPT ![RoleOf[t]] = @ + 1]
  /\ Mon!Take(t, "whaleLock")
  /\ bool' = [bool EXCEPT ![RoleOf[t]] = @ + 1]
  /\ Goto(t, "Test")
  /\ UNCHANGED <<pres, left>>

\* The condition of the loop.
MustWait(r) == pres[r] = 1 \/ \E s \in Role \ {r} : bool[s] < 1

Waits(t) ==
  /\ At(t, "Test")
  /\ MustWait(RoleOf[t])
  /\ Mon!Wait(t, RoleOf[t], "whaleLock")
  /\ UNCHANGED <<pc, whaleVars, calls, left>>

\* The end of Wait: a thread that was signalled acquires the lock again.
WaitReturns(t) ==
  /\ doing[t] = Mon!Wants("whaleLock")
  /\ Mon!Take(t, "whaleLock")
  /\ UNCHANGED <<pc, whaleVars, calls, left>>

\* Mutant of GetsThrough: the flag of the own role is not tested.
GetsThroughAgain(t) ==
  LET r == RoleOf[t]
      now == [pres EXCEPT ![r] = 1]
      complete == \A s \in Role : now[s] = 1
  IN
  /\ At(t, "Test")
  /\ \A s \in Role \ {r} : bool[s] >= 1
  /\ pres' = IF complete THEN Zero ELSE now
  /\ bool' = IF complete THEN [s \in Role |-> bool[s] - 1] ELSE bool
  /\ left' = [left EXCEPT ![r] = @ + 1]
  /\ Goto(t, "male")
  /\ UNCHANGED <<monitorVars, calls>>

\* The call gets through; with the last flag of a trio all are reset.
GetsThrough(t) ==
  LET r == RoleOf[t]
      now == [pres EXCEPT ![r] = 1]
      complete == \A s \in Role : now[s] = 1
  IN
  /\ At(t, "Test")
  /\ ~ MustWait(r)
  /\ pres' = IF complete THEN Zero ELSE now
  /\ bool' = IF complete THEN [s \in Role |-> bool[s] - 1] ELSE bool
  /\ left' = [left EXCEPT ![r] = @ + 1]
  /\ Goto(t, "male")
  /\ UNCHANGED <<monitorVars, calls>>

After(r) ==
  CASE r = "male" -> "female" [] r = "female" -> "match" [] r = "match" -> "Release"

\* Mutant of Signals: a thread signals the condition of its own role only.
SignalsOwn(t) ==
  \E r \in Role :
    /\ At(t, r)
    /\ \/ r = RoleOf[t] /\ \E u \in Thread : Mon!Signal(t, r, u)
       \/ /\ r # RoleOf[t] \/ \A u \in Thread : doing[u].wants # r
          /\ UNCHANGED monitorVars
    /\ Goto(t, After(r))
    /\ UNCHANGED <<whaleVars, calls, left>>

\* maleWait->Signal, femaleWait->Signal and matchWait->Signal, in that order,
\* each of which wakes one of the threads that wait, if there is one.
Signals(t) ==
  \E r \in Role :
    /\ At(t, r)
    /\ \/ \E u \in Thread : Mon!Signal(t, r, u)
       \/ /\ \A u \in Thread : doing[u].wants # r
          /\ UNCHANGED monitorVars
    /\ Goto(t, After(r))
    /\ UNCHANGED <<whaleVars, calls, left>>

Returns(t) ==
  /\ At(t, "Release")
  /\ Mon!Give(t, "whaleLock")
  /\ Goto(t, "outside")
  /\ UNCHANGED <<whaleVars, calls, left>>

\* What a thread does once it has called.
Step(t) ==
  \/ Waits(t) \/ WaitReturns(t)
  \/ GetsThrough(t) \/ Signals(t) \/ Returns(t)

Next == \E t \in Thread : Acquires(t) \/ Step(t)

Spec == Init /\ [][Next]_vars

\* The scheduler runs every thread that is ready.
Fairness == \A t \in Thread : WF_vars(Step(t))

FairSpec == Spec /\ Fairness

-----------------------------------------------------------------------------

\* Whales mate in threes: the k-th call of a method gets through only after k
\* calls of each of the others, although the members of a trio test the counters
\* and leave at different times, and others may overtake the threads signalled.
MatesInThrees == \A r, s \in Role : r # s => left[r] <= calls[s]

\* A trio that is there gets through: one Signal of each condition is enough for
\* that, whoever is signalled.
TriosGetThrough ==
  \A k \in 1 .. MaxCalls :
    (\A r \in Role : calls[r] >= k) ~> (\A r \in Role : left[r] >= k)

=============================================================================
