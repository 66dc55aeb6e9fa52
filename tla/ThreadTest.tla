------------------------------ MODULE ThreadTest -----------------------------
(***************************************************************************)
(* ThreadTest (threads/threadtest.cc): a Nachos that is built with THREADS *)
(* runs the test that -q names.  Those of the classes that are made from   *)
(* locks and conditions are modelled: senderSends (10), of Mailbox,        *)
(* whaleSend (11), of Whale, and ForkerThread (12), of Join.  Each class   *)
(* is a module of its own; the objects of the others stay as they are.     *)
(***************************************************************************)
EXTENDS Integers, Sequences, FiniteSets

CONSTANTS
  NoThread,
  Poster, Message, Fresh, MaxSends, MaxReceives,  \* Mailbox
  Caller, RoleOf, MaxCalls,                       \* Whale
  Joinee, Joiner, FreshBool                       \* Join

VARIABLES
  testnum,
  boxOwner, boxDoing, boxPc, boxMessage, boxCopied, boxReceiveBool, boxBuff,
  boxCalls, boxSent, boxReceived,
  whaleOwner, whaleDoing, whalePc, whaleBool, whalePres, whaleCalls, whaleLeft,
  joinOwner, joinDoing, joinGo, joinAlready, joinPc, joinTarget, joinCpu

boxVars ==
  <<boxOwner, boxDoing, boxPc, boxMessage, boxCopied, boxReceiveBool, boxBuff,
    boxCalls, boxSent, boxReceived>>
whaleVars ==
  <<whaleOwner, whaleDoing, whalePc, whaleBool, whalePres, whaleCalls,
    whaleLeft>>
joinVars ==
  <<joinOwner, joinDoing, joinGo, joinAlready, joinPc, joinTarget, joinCpu>>
vars == <<testnum, boxVars, whaleVars, joinVars>>

Box == INSTANCE Mailbox WITH
  Thread <- Poster, owner <- boxOwner, doing <- boxDoing, pc <- boxPc,
  message <- boxMessage, copied <- boxCopied, receiveBool <- boxReceiveBool,
  buff <- boxBuff, calls <- boxCalls, sent <- boxSent, received <- boxReceived

Whale == INSTANCE Whale WITH
  Thread <- Caller, owner <- whaleOwner, doing <- whaleDoing, pc <- whalePc,
  bool <- whaleBool, pres <- whalePres, calls <- whaleCalls, left <- whaleLeft

Join == INSTANCE Join WITH
  owner <- joinOwner, doing <- joinDoing, go <- joinGo,
  joinAlreadyCalled <- joinAlready, pc <- joinPc, target <- joinTarget,
  cpu <- joinCpu

ASSUME ThreadTestAssumption ==
  Box!MailboxAssumption /\ Whale!WhaleAssumption /\ Join!JoinAssumption

\* The type invariant of the test that runs, and of the objects of the others.
TypeOK == testnum \in 10 .. 12 /\ Box!TypeOK /\ Whale!TypeOK /\ Join!TypeOK

\* The arguments and the fresh memory of a test matter only when it runs.
Init ==
  /\ testnum \in 10 .. 12
  /\ Box!Init /\ Whale!Init /\ Join!Init
  /\ testnum # 10 =>
       LET m == CHOOSE x \in Message : TRUE
       IN  boxBuff = m /\ \A t \in Poster : boxMessage[t] = m
  /\ testnum # 12 =>
       LET j == CHOOSE x \in Joinee : TRUE
           b == CHOOSE x \in FreshBool : TRUE
       IN  (\A t \in Joiner : joinTarget[t] = j) /\ \A i \in Joinee : joinAlready[i] = b

-----------------------------------------------------------------------------

SenderSends ==
  /\ testnum = 10
  /\ Box!Next
  /\ UNCHANGED <<testnum, whaleVars, joinVars>>

WhaleSend ==
  /\ testnum = 11
  /\ Whale!Next
  /\ UNCHANGED <<testnum, boxVars, joinVars>>

ForkerThread ==
  /\ testnum = 12
  /\ Join!Next
  /\ UNCHANGED <<testnum, boxVars, whaleVars>>

Next == SenderSends \/ WhaleSend \/ ForkerThread

Spec == Init /\ [][Next]_vars

\* The fairness of each class; it says nothing of those that are not tested.
Fairness ==
  /\ \A t \in Poster : WF_boxVars(Box!Step(t))
  /\ \A t \in Caller : WF_whaleVars(Whale!Step(t))

FairSpec == Spec /\ Fairness

-----------------------------------------------------------------------------

\* What Mailbox says of its messages (class Mailbox of threads/synch.cc): each is
\* received once, by a receiver that was there, and at last.
EachReceivedOnce   == Box!EachReceivedOnce
MessageHasReceiver == Box!MessageHasReceiver
MessageTaken       == Box!MessageTaken

\* What Whale says of its callers (class Whale of threads/synch.cc): they get
\* through in threes, and each trio at last.
MatesInThrees   == Whale!MatesInThrees
TriosGetThrough == Whale!TriosGetThrough

\* What Join says of a joiner and its joinee (threads/thread.cc): the first waits
\* for the second, and has left its lock before it is destroyed.
JoinWaitsForFinish == Join!JoinWaitsForFinish
JoineeOutlivesJoin == Join!JoineeOutlivesJoin

=============================================================================
