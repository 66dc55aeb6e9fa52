------------------------------- MODULE Mailbox ------------------------------
(***************************************************************************)
(* Class Mailbox of threads/synch.cc: Send hands one message to a Receive, *)
(* through a one-place buffer, and waits for a receiver to have started.   *)
(*                                                                         *)
(* The lock and the two conditions are those of Monitor, which Synch       *)
(* implements: a Signal may wake any of the waiting threads, since the     *)
(* queues are in the order of priorities that nobody has set.  The code    *)
(* from one operation on the lock or a condition to the next is one step.  *)
(***************************************************************************)
EXTENDS Integers, Sequences, FiniteSets

CONSTANTS
  Thread,         \* the threads that send and receive
  NoThread,
  Message,
  Fresh,          \* the values that newly allocated memory may hold: the
                  \* constructor sets neither copied nor receiveBool (the one
                  \* mailbox is made before main, when all memory is 0)
  MaxSends,       \* bounds on the calls of Send and
  MaxReceives     \* of Receive in a run

\* The threads are finitely many, and a new mailbox is all zeroes.
MailboxAssumption ==
  /\ NoThread \notin Thread /\ IsFiniteSet(Thread)
  /\ Fresh = {0}

VARIABLES
  owner, doing,   \* the lock and the conditions, see Monitor
  pc,             \* pc[t]: the part of Send or Receive that t is to run next
  message,        \* message[t]: the argument of t's Send
  copied, receiveBool, buff,
  calls,          \* the numbers of calls of Send and Receive so far
  sent, received  \* history: what was put in buff and what was taken, in order

monitorVars == <<owner, doing>>
boxVars == <<copied, receiveBool, buff>>
history == <<calls, sent, received>>
vars == <<monitorVars, boxVars, pc, message, history>>

Mon == INSTANCE Monitor WITH
  Sem <- {}, Lock <- {"mailLock"}, Cond <- {"sendWait", "receiveWait"},
  NoObject <- "none", count <- <<>>

Places == {"outside", "Send", "SendTest", "SendDone",
           "Receive", "ReceiveSignal", "ReceiveTest", "ReceiveDone"}

\* The type invariant: in particular copied is a flag once it has been set.
TypeOK ==
  /\ owner \in [{"mailLock"} -> Thread \cup {NoThread}]
  /\ doing \in [Thread -> Mon!Activities]
  /\ pc \in [Thread -> Places]
  /\ message \in [Thread -> Message]
  /\ copied \in {0, 1} \cup Fresh
  /\ receiveBool \in Int
  /\ buff \in Message
  /\ calls \in [{"Send", "Receive"} -> Nat]
  /\ sent \in Seq(Message) /\ received \in Seq(Message)

Init ==
  /\ Mon!Init
  /\ pc = [t \in Thread |-> "outside"]
  /\ message \in [Thread -> Message]
  /\ copied \in Fresh
  /\ receiveBool \in Fresh
  /\ buff \in Message
  /\ calls = [f \in {"Send", "Receive"} |-> 0]
  /\ sent = <<>> /\ received = <<>>

-----------------------------------------------------------------------------

At(t, place) == pc[t] = place /\ doing[t] = Mon!NotWaiting

Goto(t, place) == pc' = [pc EXCEPT ![t] = place]

\* t calls Send(m), or Receive.
Call(t, f, m) ==
  /\ At(t, "outside")
  /\ calls[f] < (IF f = "Send" THEN MaxSends ELSE MaxReceives)
  /\ calls' = [calls EXCEPT ![f] = @ + 1]
  /\ message' = [message EXCEPT ![t] = m]
  /\ Goto(t, f)
  /\ UNCHANGED <<monitorVars, boxVars, sent, received>>

CallSend(t)    == \E m \in Message : Call(t, "Send", m)
CallReceive(t) == Call(t, "Receive", message[t])

\* Signal one of the threads that wait on c, if there is one.
Signal(t, c) ==
  \/ \E u \in Thread : Mon!Signal(t, c, u)
  \/ /\ \A u \in Thread : doing[u].wants # c
     /\ UNCHANGED monitorVars

\* mailLock->Acquire() in Send ...
SendAcquires(t) ==
  /\ At(t, "Send")
  /\ Mon!Take(t, "mailLock")
  /\ Goto(t, "SendTest")
  /\ UNCHANGED <<boxVars, message, history>>

\* ... and in Receive, which counts itself.
ReceiveAcquires(t) ==
  /\ At(t, "Receive")
  /\ Mon!Take(t, "mailLock")
  /\ receiveBool' = receiveBool + 1
  /\ Goto(t, "ReceiveSignal")
  /\ UNCHANGED <<copied, buff, message, history>>

\* The end of Wait: a thread that was signalled acquires the lock again.
WaitReturns(t) ==
  /\ doing[t] = Mon!Wants("mailLock")
  /\ Mon!Take(t, "mailLock")
  /\ UNCHANGED <<boxVars, pc, message, history>>

\* The loop of Send and, when there is a receiver and the buffer is empty, the
\* copy and the signal.
SendWaits(t) ==
  /\ At(t, "SendTest")
  /\ receiveBool < 1 \/ copied = 1
  /\ Mon!Wait(t, "sendWait", "mailLock")
  /\ UNCHANGED <<boxVars, pc, message, history>>

\* Mutants of SendCopies: copied is not tested, the flag is a counter, and no
\* receiver is signalled.
SendOverwrites(t) ==
  /\ At(t, "SendTest")
  /\ receiveBool >= 1
  /\ buff' = message[t]
  /\ copied' = 1
  /\ sent' = Append(sent, message[t])
  /\ Signal(t, "receiveWait")
  /\ Goto(t, "SendDone")
  /\ UNCHANGED <<receiveBool, message, calls, received>>

SendCounts(t) ==
  /\ At(t, "SendTest")
  /\ receiveBool >= 1
  /\ buff' = message[t]
  /\ copied' = copied + 1
  /\ sent' = Append(sent, message[t])
  /\ Signal(t, "receiveWait")
  /\ Goto(t, "SendDone")
  /\ UNCHANGED <<receiveBool, message, calls, received>>

SendSignalsNobody(t) ==
  /\ At(t, "SendTest")
  /\ receiveBool >= 1 /\ copied # 1
  /\ buff' = message[t]
  /\ copied' = 1
  /\ sent' = Append(sent, message[t])
  /\ Goto(t, "SendDone")
  /\ UNCHANGED <<monitorVars, receiveBool, message, calls, received>>

SendCopies(t) ==
  /\ At(t, "SendTest")
  /\ receiveBool >= 1 /\ copied # 1
  /\ buff' = message[t]
  /\ copied' = 1
  /\ sent' = Append(sent, message[t])
  /\ Signal(t, "receiveWait")
  /\ Goto(t, "SendDone")
  /\ UNCHANGED <<receiveBool, message, calls, received>>

ReceiveSignals(t) ==
  /\ At(t, "ReceiveSignal")
  /\ Signal(t, "sendWait")
  /\ Goto(t, "ReceiveTest")
  /\ UNCHANGED <<boxVars, message, history>>

\* The loop of Receive and, when there is a message, taking it.
ReceiveWaits(t) ==
  /\ At(t, "ReceiveTest")
  /\ copied # 1
  /\ Mon!Wait(t, "receiveWait", "mailLock")
  /\ UNCHANGED <<boxVars, pc, message, history>>

\* Mutant of ReceiveTakes: receiveBool is not decremented.
ReceiveStaysCounted(t) ==
  /\ At(t, "ReceiveTest")
  /\ copied = 1
  /\ received' = Append(received, buff)
  /\ copied' = 0
  /\ Goto(t, "ReceiveDone")
  /\ UNCHANGED <<monitorVars, receiveBool, buff, message, calls, sent>>

ReceiveTakes(t) ==
  /\ At(t, "ReceiveTest")
  /\ copied = 1
  /\ received' = Append(received, buff)
  /\ copied' = 0
  /\ receiveBool' = receiveBool - 1
  /\ Goto(t, "ReceiveDone")
  /\ UNCHANGED <<monitorVars, buff, message, calls, sent>>

\* mailLock->Release() and return.
Returns(t) ==
  /\ At(t, "SendDone") \/ At(t, "ReceiveDone")
  /\ Mon!Give(t, "mailLock")
  /\ Goto(t, "outside")
  /\ UNCHANGED <<boxVars, message, history>>

\* What a thread does once it has called Send or Receive.
Step(t) ==
  \/ SendAcquires(t) \/ SendWaits(t) \/ SendCopies(t)
  \/ ReceiveAcquires(t) \/ ReceiveSignals(t) \/ ReceiveWaits(t) \/ ReceiveTakes(t)
  \/ WaitReturns(t)
  \/ Returns(t)

Next == \E t \in Thread : CallSend(t) \/ CallReceive(t) \/ Step(t)

Spec == Init /\ [][Next]_vars

\* The scheduler runs every thread that is ready: threads of one priority, as
\* EventuallyScheduled of Synch says.
Fairness == \A t \in Thread : WF_vars(Step(t))

FairSpec == Spec /\ Fairness

-----------------------------------------------------------------------------

\* The threads that have announced a Receive and have not taken a message.
Receivers == {t \in Thread : pc[t] \in {"ReceiveSignal", "ReceiveTest"}}

WaitsOn(t, c) == doing[t] = Mon!WaitsOn(c, "mailLock")

\* Messages are received once each, in the order in which they were copied, and
\* none is overwritten in the buffer before it was taken.
EachReceivedOnce ==
  sent = IF copied = 1 THEN Append(received, buff) ELSE received

\* A message is only put in the buffer for a receiver that is there: while it
\* is in the buffer, a thread inside Receive has the lock or is on its way to
\* it, whichever threads the signals went to and whoever got the lock first.
MessageHasReceiver ==
  /\ receiveBool = Cardinality(Receivers)
  /\ copied = 1 => \E t \in Receivers : ~ WaitsOn(t, "receiveWait")

\* A message in the buffer is taken, whatever else goes on in the mailbox.
MessageTaken == copied = 1 ~> copied = 0

\* "keeps waiting until receiveBool++" (Send): when nobody is about to do
\* anything in the mailbox, a sender waits only if no receiver is there.
SenderWaitsOnlyForReceiver ==
  (\A t \in Thread : pc[t] = "outside" \/ WaitsOn(t, "sendWait") \/ WaitsOn(t, "receiveWait"))
  => \/ \A t \in Thread : ~ WaitsOn(t, "sendWait")
     \/ receiveBool < 1

=============================================================================
