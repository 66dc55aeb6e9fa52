-------------------------- MODULE ThreadTestProofs --------------------------
(***************************************************************************)
(* The safety of the classes that ThreadTest runs, Mailbox, Whale and      *)
(* Join, for any threads, roles, joinees and numbers of calls: a step of   *)
(* ThreadTest is one of the class under test, and changes nothing of the   *)
(* others.                                                                 *)
(***************************************************************************)
EXTENDS ThreadTest, FiniteSetTheorems, TLAPS

-----------------------------------------------------------------------------
(* Mailbox, when its memory is zero at the start.                          *)

\* The operators of FiniteSets that Mailbox uses are those of the library.
LEMMA SameC == \A S : Box!Cardinality(S) = Cardinality(S)
  BY DEF Box!Cardinality, Cardinality

LEMMA SameF == \A S : Box!IsFiniteSet(S) <=> IsFiniteSet(S)
  BY DEF Box!IsFiniteSet, IsFiniteSet

InsideBox == {"SendTest", "SendDone", "ReceiveSignal", "ReceiveTest", "ReceiveDone"}

\* The lock: whoever runs inside Send or Receive has it.
HasLock(t) == boxOwner["mailLock"] = t

\* Where a thread that is in Wait stands: it waits for a signal on the condition
\* of its loop, or has been signalled and wants the lock.
WhereItWaits(t) ==
  \/ boxDoing[t] = Box!Mon!NotWaiting
  \/ boxPc[t] = "SendTest" /\ boxDoing[t] \in {Box!Mon!WaitsOn("sendWait", "mailLock"),
                                            Box!Mon!Wants("mailLock")}
  \/ boxPc[t] = "ReceiveTest" /\ boxDoing[t] \in {Box!Mon!WaitsOn("receiveWait", "mailLock"),
                                               Box!Mon!Wants("mailLock")}

\* The inductive invariant: with the two properties, who has the lock and what
\* each waiting thread waits for.
BoxInv ==
  /\ Box!TypeOK
  /\ Box!EachReceivedOnce
  /\ Box!MessageHasReceiver
  /\ \A t \in Poster :
       /\ boxPc[t] \in InsideBox /\ boxDoing[t] = Box!Mon!NotWaiting => HasLock(t)
       /\ WhereItWaits(t)

\* The activities of the threads are different from each other.
LEMMA BoxDifferent ==
  /\ Box!Mon!NotWaiting # Box!Mon!Wants("mailLock")
  /\ \A c \in {"sendWait", "receiveWait"} :
       /\ Box!Mon!WaitsOn(c, "mailLock") # Box!Mon!NotWaiting
       /\ Box!Mon!WaitsOn(c, "mailLock") # Box!Mon!Wants("mailLock")
       /\ Box!Mon!WaitsOn(c, "mailLock").wants = c
       /\ Box!Mon!Wants("mailLock").wants # c
       /\ Box!Mon!NotWaiting.wants # c
       /\ \A d \in {"sendWait", "receiveWait"} :
            Box!Mon!WaitsOn(c, "mailLock") = Box!Mon!WaitsOn(d, "mailLock") => c = d
  /\ {Box!Mon!NotWaiting, Box!Mon!Wants("mailLock"), Box!Mon!WaitsOn("sendWait", "mailLock"),
      Box!Mon!WaitsOn("receiveWait", "mailLock")} \subseteq Box!Mon!Activities
  BY DEF Box!Mon!NotWaiting, Box!Mon!Wants, Box!Mon!WaitsOn, Box!Mon!Activities

LEMMA InitBox == ASSUME Box!MailboxAssumption PROVE Box!Init => BoxInv
<1> SUFFICES ASSUME Box!Init PROVE BoxInv
  OBVIOUS
<1>1. /\ boxOwner = [l \in {"mailLock"} |-> NoThread]
      /\ boxDoing = [t \in Poster |-> Box!Mon!NotWaiting]
      /\ boxPc = [t \in Poster |-> "outside"]
      /\ boxCopied = 0 /\ boxReceiveBool = 0
  BY DEF Box!Init, Box!Mon!Init, Box!MailboxAssumption
<1>2. Box!TypeOK
  BY <1>1, BoxDifferent DEF Box!Init, Box!TypeOK, Box!Places, Box!MailboxAssumption
<1>3. Box!Receivers = {}
  BY <1>1 DEF Box!Receivers
<1>4. Box!MessageHasReceiver
  BY <1>1, <1>3, FS_EmptySet, SameC DEF Box!MessageHasReceiver
<1> QED BY <1>1, <1>2, <1>4 DEF BoxInv, Box!EachReceivedOnce, Box!Init, InsideBox, WhereItWaits

-----------------------------------------------------------------------------

\* A step that keeps the box and the history, and changes doing and owner as
\* Take does.
LEMMA BoxTakeIs ==
  ASSUME Box!TypeOK, NEW t \in Poster, Box!Mon!Take(t, "mailLock")
  PROVE  /\ boxOwner["mailLock"] = NoThread /\ boxOwner' = [boxOwner EXCEPT !["mailLock"] = t]
         /\ boxDoing' = [boxDoing EXCEPT ![t] = Box!Mon!NotWaiting]
  BY DEF Box!Mon!Take, Box!Mon!Become

LEMMA BoxGiveIs ==
  ASSUME Box!TypeOK, NEW t \in Poster, Box!Mon!Give(t, "mailLock")
  PROVE  boxOwner["mailLock"] = t /\ boxOwner' = [boxOwner EXCEPT !["mailLock"] = NoThread]
         /\ UNCHANGED boxDoing
  BY DEF Box!Mon!Give

LEMMA BoxWaitIs ==
  ASSUME Box!TypeOK, NEW t \in Poster, NEW c, Box!Mon!Wait(t, c, "mailLock")
  PROVE  /\ boxOwner["mailLock"] = t /\ boxOwner' = [boxOwner EXCEPT !["mailLock"] = NoThread]
         /\ boxDoing[t] = Box!Mon!NotWaiting
         /\ boxDoing' = [boxDoing EXCEPT ![t] = Box!Mon!WaitsOn(c, "mailLock")]
  BY DEF Box!Mon!Wait, Box!Mon!Become

\* A Signal makes one thread that waits on c want the lock, if one waits.
LEMMA BoxSignalIs ==
  ASSUME Box!TypeOK, NEW t \in Poster, NEW c \in {"sendWait", "receiveWait"}, Box!Signal(t, c)
  PROVE  /\ UNCHANGED boxOwner
         /\ \/ \E u \in Poster : /\ Box!WaitsOn(u, c)
                                 /\ boxDoing' = [boxDoing EXCEPT ![u] = Box!Mon!Wants("mailLock")]
            \/ (\A u \in Poster : ~ Box!WaitsOn(u, c)) /\ UNCHANGED boxDoing
  BY BoxDifferent DEF Box!Signal, Box!Mon!Signal, Box!Mon!Become, Box!monitorVars, Box!WaitsOn

\* Who is in Receive is unchanged by a step of t inside Receive or outside it.
LEMMA SameReceivers ==
  ASSUME Box!TypeOK, NEW t \in Poster, NEW p \in Box!Places,
         boxPc' = [boxPc EXCEPT ![t] = p],
         boxPc[t] \in {"ReceiveSignal", "ReceiveTest"} <=> p \in {"ReceiveSignal", "ReceiveTest"}
  PROVE  Box!Receivers' = Box!Receivers
  BY DEF Box!Receivers, Box!TypeOK

-----------------------------------------------------------------------------

\* A call begins outside the lock.
LEMMA CallStep ==
  ASSUME Box!MailboxAssumption, BoxInv, NEW t \in Poster, Box!CallSend(t) \/ Box!CallReceive(t)
  PROVE  BoxInv'
<1>1. PICK f \in {"Send", "Receive"}, m \in Message : Box!Call(t, f, m)
  BY DEF Box!CallSend, Box!CallReceive, BoxInv, Box!TypeOK
<1>2. /\ UNCHANGED <<boxOwner, boxDoing, boxCopied, boxReceiveBool, boxBuff, boxSent,
          boxReceived>>
      /\ boxPc' = [boxPc EXCEPT ![t] = f] /\ boxPc[t] = "outside"
      /\ boxDoing[t] = Box!Mon!NotWaiting
  BY <1>1 DEF Box!Call, Box!At, Box!Goto, Box!monitorVars, Box!boxVars
<1>3. Box!TypeOK'
  BY <1>1, <1>2 DEF BoxInv, Box!TypeOK, Box!Call, Box!Places
<1>4. Box!Receivers' = Box!Receivers
  BY <1>2, SameReceivers DEF BoxInv, Box!Places
<1>5. Box!MessageHasReceiver'
  BY <1>2, <1>4 DEF BoxInv, Box!MessageHasReceiver, Box!WaitsOn
<1> QED BY <1>2, <1>3, <1>5 DEF BoxInv, Box!EachReceivedOnce, InsideBox, HasLock, WhereItWaits,
                                Box!TypeOK

\* Acquire, at the start of Send and at the end of Wait: the lock was FREE.
LEMMA SendAcquiresStep ==
  ASSUME Box!MailboxAssumption, BoxInv, NEW t \in Poster, Box!SendAcquires(t)
      \/ Box!WaitReturns(t)
  PROVE  BoxInv'
<1>1. /\ UNCHANGED <<boxCopied, boxReceiveBool, boxBuff, boxMessage, boxCalls, boxSent,
          boxReceived>>
      /\ Box!Mon!Take(t, "mailLock")
  BY DEF Box!SendAcquires, Box!WaitReturns, Box!boxVars, Box!history
<1>2. /\ boxOwner["mailLock"] = NoThread /\ boxOwner' = [boxOwner EXCEPT !["mailLock"] = t]
      /\ boxDoing' = [boxDoing EXCEPT ![t] = Box!Mon!NotWaiting]
  BY <1>1, BoxTakeIs DEF BoxInv
<1>3. PICK p \in Box!Places : /\ boxPc' = [boxPc EXCEPT ![t] = p]
                              /\ \/ boxPc[t] = "Send" /\ p = "SendTest"
                                 \/ boxPc[t] = p
  BY DEF Box!SendAcquires, Box!WaitReturns, Box!At, Box!Goto, Box!Places, BoxInv, Box!TypeOK
<1>4. Box!TypeOK'
  BY <1>1, <1>2, <1>3, BoxDifferent DEF BoxInv, Box!TypeOK
<1>5. Box!Receivers' = Box!Receivers
  BY <1>3, SameReceivers DEF BoxInv
<1>6. Box!MessageHasReceiver'
  BY <1>1, <1>2, <1>5, BoxDifferent DEF BoxInv, Box!MessageHasReceiver, Box!WaitsOn, Box!TypeOK,
                                        Box!Receivers
<1>7. \A u \in Poster : u # t => ~ (boxPc[u] \in InsideBox /\ boxDoing[u] = Box!Mon!NotWaiting)
  BY <1>2 DEF BoxInv, HasLock, Box!MailboxAssumption
<1> QED BY <1>1, <1>2, <1>3, <1>4, <1>6, <1>7 DEF BoxInv, Box!EachReceivedOnce, InsideBox,
                                                  HasLock, WhereItWaits, Box!TypeOK

\* Acquire at the start of Receive, which counts itself.
LEMMA ReceiveAcquiresStep ==
  ASSUME Box!MailboxAssumption, BoxInv, NEW t \in Poster, Box!ReceiveAcquires(t)
  PROVE  BoxInv'
<1>1. /\ UNCHANGED <<boxCopied, boxBuff, boxMessage, boxCalls, boxSent, boxReceived>>
      /\ boxReceiveBool' = boxReceiveBool + 1
      /\ boxPc[t] = "Receive" /\ boxPc' = [boxPc EXCEPT ![t] = "ReceiveSignal"]
  BY DEF Box!ReceiveAcquires, Box!history, Box!At, Box!Goto
<1>2. /\ boxOwner["mailLock"] = NoThread /\ boxOwner' = [boxOwner EXCEPT !["mailLock"] = t]
      /\ boxDoing' = [boxDoing EXCEPT ![t] = Box!Mon!NotWaiting]
  BY BoxTakeIs DEF BoxInv, Box!ReceiveAcquires
<1>3. Box!TypeOK'
  BY <1>1, <1>2, BoxDifferent DEF BoxInv, Box!TypeOK, Box!Places
<1>4. Box!Receivers' = Box!Receivers \cup {t} /\ t \notin Box!Receivers
    /\ IsFiniteSet(Box!Receivers)
  BY <1>1, FS_Subset, SameF DEF Box!Receivers, BoxInv, Box!TypeOK, Box!MailboxAssumption
<1>5. boxReceiveBool' = Cardinality(Box!Receivers')
  BY <1>1, <1>4, FS_AddElement, SameC DEF BoxInv, Box!MessageHasReceiver
<1>6. Box!MessageHasReceiver'
  BY <1>1, <1>2, <1>4, <1>5, BoxDifferent, SameC DEF BoxInv, Box!MessageHasReceiver, Box!WaitsOn,
                                                     Box!TypeOK, Box!Receivers
<1>7. \A u \in Poster : u # t => ~ (boxPc[u] \in InsideBox /\ boxDoing[u] = Box!Mon!NotWaiting)
  BY <1>2 DEF BoxInv, HasLock, Box!MailboxAssumption
<1> QED BY <1>1, <1>2, <1>3, <1>6, <1>7 DEF BoxInv, Box!EachReceivedOnce, InsideBox, HasLock,
                                            WhereItWaits, Box!TypeOK

\* A Wait in one of the loops: in Receive only while there is no message.
LEMMA WaitsStep ==
  ASSUME Box!MailboxAssumption, BoxInv, NEW t \in Poster, Box!SendWaits(t) \/ Box!ReceiveWaits(t)
  PROVE  BoxInv'
<1>1. /\ UNCHANGED <<boxCopied, boxReceiveBool, boxBuff, boxMessage, boxCalls, boxSent,
          boxReceived, boxPc>>
  BY DEF Box!SendWaits, Box!ReceiveWaits, Box!boxVars, Box!history
<1>2. PICK c \in {"sendWait", "receiveWait"} :
        /\ Box!Mon!Wait(t, c, "mailLock")
        /\ \/ c = "sendWait" /\ boxPc[t] = "SendTest"
           \/ c = "receiveWait" /\ boxPc[t] = "ReceiveTest" /\ boxCopied # 1
  BY DEF Box!SendWaits, Box!ReceiveWaits, Box!At
<1>3. /\ boxOwner["mailLock"] = t /\ boxOwner' = [boxOwner EXCEPT !["mailLock"] = NoThread]
      /\ boxDoing[t] = Box!Mon!NotWaiting
      /\ boxDoing' = [boxDoing EXCEPT ![t] = Box!Mon!WaitsOn(c, "mailLock")]
  BY <1>2, BoxWaitIs DEF BoxInv
<1>4. Box!TypeOK'
  BY <1>1, <1>3, BoxDifferent DEF BoxInv, Box!TypeOK
<1>5. Box!Receivers' = Box!Receivers
  BY <1>1 DEF Box!Receivers
<1>6. Box!MessageHasReceiver'
  BY <1>1, <1>2, <1>3, <1>5 DEF BoxInv, Box!MessageHasReceiver, Box!WaitsOn, Box!TypeOK,
                                Box!Receivers
<1>7. \A u \in Poster : u # t => ~ (boxPc[u] \in InsideBox /\ boxDoing[u] = Box!Mon!NotWaiting)
  BY <1>3 DEF BoxInv, HasLock
<1> QED BY <1>1, <1>2, <1>3, <1>4, <1>6, <1>7, BoxDifferent DEF BoxInv, Box!EachReceivedOnce,
       InsideBox, HasLock, WhereItWaits, Box!TypeOK

\* What a Signal does to the threads: as WhereItWaits says, one that waited may
\* want the lock.
LEMMA SignalKeeps ==
  ASSUME BoxInv, NEW t \in Poster, NEW c \in {"sendWait", "receiveWait"}, Box!Signal(t, c),
         boxDoing[t] = Box!Mon!NotWaiting, NEW p \in Box!Places, boxPc' = [boxPc EXCEPT ![t] = p],
         boxPc[t] \in InsideBox, p \in InsideBox
  PROVE  /\ boxDoing' \in [Poster -> Box!Mon!Activities]
         /\ UNCHANGED boxOwner
         /\ \A u \in Poster : /\ boxPc'[u] \in InsideBox /\ boxDoing'[u] = Box!Mon!NotWaiting
                                  => HasLock(u)'
                              /\ WhereItWaits(u)'
         /\ \A u \in Poster : ~ Box!WaitsOn(u, "receiveWait") => ~ Box!WaitsOn(u, "receiveWait")'
  BY BoxSignalIs, BoxDifferent DEF BoxInv, Box!TypeOK, HasLock, WhereItWaits, Box!WaitsOn

LEMMA ReceiveSignalsStep ==
  ASSUME Box!MailboxAssumption, BoxInv, NEW t \in Poster, Box!ReceiveSignals(t)
  PROVE  BoxInv'
<1>1. /\ UNCHANGED <<boxCopied, boxReceiveBool, boxBuff, boxMessage, boxCalls, boxSent,
          boxReceived>>
      /\ boxPc[t] = "ReceiveSignal" /\ boxPc' = [boxPc EXCEPT ![t] = "ReceiveTest"]
      /\ boxDoing[t] = Box!Mon!NotWaiting /\ Box!Signal(t, "sendWait")
  BY DEF Box!ReceiveSignals, Box!boxVars, Box!history, Box!At, Box!Goto
<1>2. /\ boxDoing' \in [Poster -> Box!Mon!Activities]
      /\ UNCHANGED boxOwner
      /\ \A u \in Poster : /\ boxPc'[u] \in InsideBox /\ boxDoing'[u] = Box!Mon!NotWaiting
                               => HasLock(u)'
                           /\ WhereItWaits(u)'
      /\ \A u \in Poster : ~ Box!WaitsOn(u, "receiveWait") => ~ Box!WaitsOn(u, "receiveWait")'
  BY <1>1, SignalKeeps DEF InsideBox, Box!Places
<1>3. Box!TypeOK'
  BY <1>1, <1>2 DEF BoxInv, Box!TypeOK, Box!Places
<1>4. Box!Receivers' = Box!Receivers
  BY <1>1, SameReceivers DEF BoxInv, Box!Places
<1>5. Box!MessageHasReceiver'
  BY <1>1, <1>2, <1>4 DEF BoxInv, Box!MessageHasReceiver, Box!Receivers
<1> QED BY <1>1, <1>2, <1>3, <1>5 DEF BoxInv, Box!EachReceivedOnce

\* The copy: a receiver is counted, and none runs since the sender has the lock.
\* If all of them wait the Signal makes one of them want the lock.
LEMMA SendCopiesStep ==
  ASSUME Box!MailboxAssumption, BoxInv, NEW t \in Poster, Box!SendCopies(t)
  PROVE  BoxInv'
<1>1. /\ UNCHANGED <<boxReceiveBool, boxMessage, boxCalls, boxReceived>>
      /\ boxPc[t] = "SendTest" /\ boxPc' = [boxPc EXCEPT ![t] = "SendDone"]
      /\ boxDoing[t] = Box!Mon!NotWaiting /\ Box!Signal(t, "receiveWait")
      /\ boxReceiveBool >= 1 /\ boxCopied # 1
      /\ boxCopied' = 1 /\ boxBuff' = boxMessage[t] /\ boxSent' = Append(boxSent, boxMessage[t])
  BY DEF Box!SendCopies, Box!At, Box!Goto
<1>2. /\ boxDoing' \in [Poster -> Box!Mon!Activities]
      /\ UNCHANGED boxOwner
      /\ \A u \in Poster : /\ boxPc'[u] \in InsideBox /\ boxDoing'[u] = Box!Mon!NotWaiting
                               => HasLock(u)'
                           /\ WhereItWaits(u)'
      /\ \A u \in Poster : ~ Box!WaitsOn(u, "receiveWait") => ~ Box!WaitsOn(u, "receiveWait")'
  BY <1>1, SignalKeeps DEF InsideBox, Box!Places
<1>3. Box!TypeOK'
  <2>1. boxPc' \in [Poster -> Box!Places] /\ boxMessage[t] \in Message
    BY <1>1 DEF BoxInv, Box!TypeOK, Box!Places
  <2>2. boxSent' \in Seq(Message) /\ boxBuff' \in Message /\ boxCopied' \in {0, 1} \cup Fresh
    BY <1>1, <2>1 DEF BoxInv, Box!TypeOK
  <2> QED BY <1>1, <1>2, <2>1, <2>2 DEF BoxInv, Box!TypeOK
<1>4. Box!Receivers' = Box!Receivers
  BY <1>1, SameReceivers DEF BoxInv, Box!Places
<1>5. PICK r \in Poster : r \in Box!Receivers
  <2>1. Box!Receivers # {}
    <3>1. Cardinality(Box!Receivers) # 0
      BY <1>1, SameC DEF BoxInv, Box!MessageHasReceiver
    <3>2. Cardinality({}) = 0
      BY FS_EmptySet
    <3> QED BY <3>1, <3>2
  <2> QED BY <2>1 DEF Box!Receivers
<1>6. \E u \in Box!Receivers : ~ Box!WaitsOn(u, "receiveWait")'
  <2>1. CASE \E u \in Box!Receivers : ~ Box!WaitsOn(u, "receiveWait")
    BY <1>2, <2>1 DEF Box!Receivers
  <2>2. CASE \A u \in Box!Receivers : Box!WaitsOn(u, "receiveWait")
    <3>1. PICK u \in Poster : /\ Box!WaitsOn(u, "receiveWait")
                              /\ boxDoing' = [boxDoing EXCEPT ![u] = Box!Mon!Wants("mailLock")]
      BY <1>1, <1>5, <2>2, BoxSignalIs DEF BoxInv
    <3>2. u \in Box!Receivers
      BY <3>1, BoxDifferent DEF BoxInv, WhereItWaits, Box!WaitsOn, Box!Receivers
    <3> QED BY <3>1, <3>2, BoxDifferent DEF Box!WaitsOn, BoxInv, Box!TypeOK
  <2> QED BY <2>1, <2>2
<1>7. Box!MessageHasReceiver'
  BY <1>1, <1>4, <1>6 DEF BoxInv, Box!MessageHasReceiver
<1>8. Box!EachReceivedOnce'
  BY <1>1 DEF BoxInv, Box!EachReceivedOnce
<1> QED BY <1>2, <1>3, <1>7, <1>8 DEF BoxInv

\* Taking the message: the buffer is empty again, and there is one receiver less.
LEMMA ReceiveTakesStep ==
  ASSUME Box!MailboxAssumption, BoxInv, NEW t \in Poster, Box!ReceiveTakes(t)
  PROVE  BoxInv'
<1>1. /\ UNCHANGED <<boxOwner, boxDoing, boxBuff, boxMessage, boxCalls, boxSent>>
      /\ boxPc[t] = "ReceiveTest" /\ boxPc' = [boxPc EXCEPT ![t] = "ReceiveDone"]
      /\ boxDoing[t] = Box!Mon!NotWaiting
      /\ boxCopied = 1 /\ boxCopied' = 0 /\ boxReceiveBool' = boxReceiveBool - 1
      /\ boxReceived' = Append(boxReceived, boxBuff)
  BY DEF Box!ReceiveTakes, Box!At, Box!Goto, Box!monitorVars
<1>2. Box!TypeOK'
  BY <1>1 DEF BoxInv, Box!TypeOK, Box!Places
<1>3. Box!Receivers' = Box!Receivers \ {t} /\ t \in Box!Receivers /\ IsFiniteSet(Box!Receivers)
  BY <1>1, FS_Subset, SameF DEF Box!Receivers, BoxInv, Box!TypeOK, Box!MailboxAssumption
<1>4. Box!MessageHasReceiver'
  <2>1. Cardinality(Box!Receivers') = Cardinality(Box!Receivers) - 1
    BY <1>3, FS_RemoveElement
  <2> QED BY <1>1, <2>1, SameC DEF BoxInv, Box!MessageHasReceiver
<1>5. Box!EachReceivedOnce'
  BY <1>1 DEF BoxInv, Box!EachReceivedOnce
<1> QED BY <1>1, <1>2, <1>4, <1>5 DEF BoxInv, InsideBox, HasLock, WhereItWaits, Box!TypeOK

\* Release at the end of Send and of Receive.
LEMMA ReturnsStep ==
  ASSUME Box!MailboxAssumption, BoxInv, NEW t \in Poster, Box!Returns(t)
  PROVE  BoxInv'
<1>1. /\ UNCHANGED <<boxCopied, boxReceiveBool, boxBuff, boxMessage, boxCalls, boxSent,
          boxReceived>>
      /\ boxPc[t] \in {"SendDone", "ReceiveDone"} /\ boxPc' = [boxPc EXCEPT ![t] = "outside"]
      /\ boxDoing[t] = Box!Mon!NotWaiting
  BY DEF Box!Returns, Box!At, Box!Goto, Box!boxVars, Box!history
<1>2. boxOwner["mailLock"] = t /\ boxOwner' = [boxOwner EXCEPT !["mailLock"] = NoThread]
      /\ UNCHANGED boxDoing
  BY BoxGiveIs DEF BoxInv, Box!Returns
<1>3. Box!TypeOK'
  BY <1>1, <1>2 DEF BoxInv, Box!TypeOK, Box!Places
<1>4. Box!Receivers' = Box!Receivers
  BY <1>1, SameReceivers DEF BoxInv, Box!Places
<1>5. Box!MessageHasReceiver'
  BY <1>1, <1>2, <1>4 DEF BoxInv, Box!MessageHasReceiver, Box!WaitsOn
<1> QED BY <1>1, <1>2, <1>3, <1>5 DEF BoxInv, Box!EachReceivedOnce, InsideBox, HasLock,
                                      WhereItWaits, Box!TypeOK

LEMMA NextBox == ASSUME Box!MailboxAssumption PROVE BoxInv /\ [Box!Next]_(Box!vars) => BoxInv'
<1> SUFFICES ASSUME BoxInv, [Box!Next]_(Box!vars) PROVE BoxInv'
  OBVIOUS
<1>1. CASE UNCHANGED Box!vars
  BY <1>1 DEF Box!vars, Box!monitorVars, Box!boxVars, Box!history, BoxInv, Box!TypeOK,
              Box!EachReceivedOnce,
              Box!MessageHasReceiver, Box!Receivers, Box!WaitsOn, HasLock, WhereItWaits
<1>2. CASE Box!Next
  BY <1>2, CallStep, SendAcquiresStep, ReceiveAcquiresStep, WaitsStep, ReceiveSignalsStep,
     SendCopiesStep, ReceiveTakesStep, ReturnsStep DEF Box!Next, Box!Step
<1> QED BY <1>1, <1>2

-----------------------------------------------------------------------------
(* Join, whatever joinAlreadyCalled is at first.                           *)

\* The joinee whose lock and condition thread u uses, and the places at which it
\* does so.
Of(u) == IF u \in Joinee THEN u ELSE joinTarget[u]

JoineePlaces == {"procedure", "Finish", "FinishTest", "FinishWait", "FinishWaited",
                 "FinishDone", "FinishSleep"}
JoinerPlaces == {"before", "Join", "JoinSignal", "JoinWait", "JoinWaited", "JoinDone",
                 "joined"}
InsideJoin == {"FinishTest", "FinishWait", "FinishWaited", "FinishDone",
           "JoinSignal", "JoinWait", "JoinWaited", "JoinDone"}

Idle(u)    == joinDoing[u] = Join!Mon!NotWaiting
Waiting(u) == joinDoing[u] = Join!Mon!WaitsOn(Join!joinCon(Of(u)), Join!joinLock(Of(u)))
Woken(u)   == joinDoing[u] = Join!Mon!Wants(Join!joinLock(Of(u)))

\* Who has each lock, and where the threads wait.
Basic ==
  /\ Join!TypeOK
  /\ \A j \in Joinee : joinPc[j] \in JoineePlaces
  /\ \A t \in Joiner : joinPc[t] \in JoinerPlaces
  /\ \A u \in Join!Thread :
       /\ Idle(u) \/ (joinPc[u] \in {"FinishWaited", "FinishDone", "JoinWaited"}
                        /\ (Waiting(u) \/ Woken(u)))
       /\ joinPc[u] \in InsideJoin /\ Idle(u) => joinOwner[Join!joinLock(Of(u))] = u

Called(t) == joinPc[t] \notin {"before", "Join"}

\* While the ASSERT of Join has not failed, a joinee has one joiner.  Its joiner
\* signals it at its last Wait only to end that Wait, and has returned by the time
\* it leaves the monitor.
Orderly ==
  /\ \A t, u \in Joiner : Called(t) /\ Called(u) /\ joinTarget[t] = joinTarget[u] => t = u
  /\ \A t \in Joiner : Called(t) => joinAlready[joinTarget[t]]
  /\ \A j \in Joinee :
       joinGo[j] = 1 \/ joinPc[j] \in {"FinishDone", "FinishSleep"} => joinAlready[j]
  /\ \A t \in Joiner :
       joinPc[t] \in {"JoinSignal", "JoinWait"}
           => joinPc[joinTarget[t]] \notin {"FinishDone", "FinishSleep"}
  /\ \A t \in Joiner :
       joinPc[joinTarget[t]] = "FinishDone" /\ ~ Waiting(joinTarget[t]) /\ Called(t) =>
         joinPc[t] \in {"JoinDone", "joined"}
  /\ \A t \in Joiner : joinPc[joinTarget[t]] = "FinishSleep" /\ Called(t) => joinPc[t] = "joined"

\* A joiner is signalled, and returns, only after the joinee's procedure.
Awaited ==
  \A t \in Joiner :
    (joinPc[t] = "JoinWaited" /\ ~ Waiting(t)) \/ joinPc[t] \in {"JoinDone", "joined"} =>
      joinPc[joinTarget[t]] \notin {"procedure", "Finish"}

\* The inductive invariant.
JoinInv == Basic /\ Awaited /\ (joinCpu = "running" => Orderly)

-----------------------------------------------------------------------------

\* The objects and the activities are different from each other.
LEMMA JoinDifferent ==
  ASSUME NEW j \in Joinee, NEW k \in Joinee
  PROVE  /\ Join!joinLock(j) = Join!joinLock(k) => j = k
         /\ Join!joinCon(j) = Join!joinCon(k) => j = k
         /\ Join!Mon!NotWaiting # Join!Mon!Wants(Join!joinLock(j))
         /\ Join!Mon!WaitsOn(Join!joinCon(j), Join!joinLock(j)) # Join!Mon!NotWaiting
         /\ Join!Mon!WaitsOn(Join!joinCon(j), Join!joinLock(j)) # Join!Mon!Wants(Join!joinLock(k))
         /\ Join!Mon!WaitsOn(Join!joinCon(j), Join!joinLock(j)).wants = Join!joinCon(j)
         /\ Join!Mon!WaitsOn(Join!joinCon(j), Join!joinLock(j)).then = Join!joinLock(j)
         /\ Join!Mon!Wants(Join!joinLock(j)).wants # Join!joinCon(k)
         /\ Join!Mon!NotWaiting.wants # Join!joinCon(k)
         /\ {Join!Mon!NotWaiting, Join!Mon!Wants(Join!joinLock(j)),
             Join!Mon!WaitsOn(Join!joinCon(j), Join!joinLock(j))}
              \subseteq Join!Mon!Activities
  BY DEF Join!joinLock, Join!joinCon, Join!Mon!NotWaiting, Join!Mon!Wants, Join!Mon!WaitsOn,
         Join!Mon!Activities

\* Of(u) is a joinee.
LEMMA OfJoinee == ASSUME Basic, NEW u \in Join!Thread PROVE Of(u) \in Joinee
  BY DEF Basic, Join!TypeOK, Of, Join!Thread

LEMMA JoinTakeIs ==
  ASSUME NEW t \in Join!Thread, NEW l, Join!Mon!Take(t, l)
  PROVE  /\ joinDoing[t] \in {Join!Mon!NotWaiting, Join!Mon!Wants(l)}
         /\ joinOwner[l] = NoThread /\ joinOwner' = [joinOwner EXCEPT ![l] = t]
         /\ joinDoing' = [joinDoing EXCEPT ![t] = Join!Mon!NotWaiting]
  BY DEF Join!Mon!Take, Join!Mon!Become

LEMMA JoinGiveIs ==
  ASSUME NEW t \in Join!Thread, NEW l, Join!Mon!Give(t, l)
  PROVE  joinOwner[l] = t /\ joinOwner' = [joinOwner EXCEPT ![l] = NoThread]
      /\ UNCHANGED joinDoing
  BY DEF Join!Mon!Give

LEMMA JoinWaitIs ==
  ASSUME NEW t \in Join!Thread, NEW c, NEW l, Join!Mon!Wait(t, c, l)
  PROVE  /\ joinOwner[l] = t /\ joinOwner' = [joinOwner EXCEPT ![l] = NoThread]
         /\ joinDoing' = [joinDoing EXCEPT ![t] = Join!Mon!WaitsOn(c, l)]
  BY DEF Join!Mon!Wait, Join!Mon!Become

\* A Signal on the condition of j reaches a thread that waits for it, if there is
\* one: j itself or a joiner of j.
LEMMA JoinSignalIs ==
  ASSUME Basic, NEW t \in Join!Thread, NEW j \in Joinee, Join!Signal(t, j)
  PROVE  /\ UNCHANGED joinOwner
         /\ \/ UNCHANGED joinDoing
            \/ \E u \in Join!Thread : /\ Of(u) = j /\ Waiting(u)
                                      /\ joinDoing' = [joinDoing EXCEPT ![u] = Join!Mon!Wants(Join!joinLock(j))]
<1>1. CASE UNCHANGED Join!monitorVars
  BY <1>1 DEF Join!monitorVars
<1>2. ASSUME NEW u \in Join!Thread, Join!Mon!Signal(t, Join!joinCon(j), u)
      PROVE  /\ UNCHANGED joinOwner /\ Of(u) = j /\ Waiting(u)
             /\ joinDoing' = [joinDoing EXCEPT ![u] = Join!Mon!Wants(Join!joinLock(j))]
  <2>1. PICK k \in Joinee : /\ joinDoing[u] = Join!Mon!WaitsOn(Join!joinCon(j), Join!joinLock(k))
                            /\ joinDoing' = [joinDoing EXCEPT ![u] = Join!Mon!Wants(Join!joinLock(k))]
    BY <1>2 DEF Join!Mon!Signal, Join!Mon!Become
  <2>2. joinDoing[u].wants = Join!joinCon(j) /\ joinDoing[u].then = Join!joinLock(k)
    BY <2>1 DEF Join!Mon!WaitsOn
  <2>3. Of(u) \in Joinee
    BY OfJoinee
  <2>4. Waiting(u)
    BY <2>2, <2>3, JoinDifferent DEF Basic, Idle, Waiting, Woken
  <2>5. Of(u) = j /\ k = j
    BY <2>2, <2>3, <2>4, JoinDifferent DEF Waiting
  <2> QED BY <1>2, <2>1, <2>4, <2>5 DEF Join!Mon!Signal
<1> QED BY <1>1, <1>2 DEF Join!Signal

-----------------------------------------------------------------------------
(* Basic, by the kinds of steps.                                           *)

\* t goes to a place that is its own; target and the types are kept.
Goes(t, p) ==
  /\ joinPc' = [joinPc EXCEPT ![t] = p]
  /\ IF t \in Joinee THEN p \in JoineePlaces ELSE p \in JoinerPlaces
  /\ UNCHANGED joinTarget
  /\ joinGo' \in [Joinee -> {0, 1}]
  /\ joinAlready' \in [Joinee -> BOOLEAN]
  /\ joinCpu' \in {"running", "aborted"}

LEMMA GoesTypes ==
  ASSUME Join!JoinAssumption, Basic, NEW t \in Join!Thread, NEW p, Goes(t, p)
  PROVE  /\ joinPc' \in [Join!Thread -> Join!Places]
         /\ \A j \in Joinee : joinPc'[j] \in JoineePlaces
         /\ \A u \in Joiner : joinPc'[u] \in JoinerPlaces
         /\ \A u \in Join!Thread : Of(u)' = Of(u) /\ Of(u) \in Joinee
         /\ joinPc'[t] = p /\ \A u \in Join!Thread \ {t} : joinPc'[u] = joinPc[u]
<1>1. \A u \in Join!Thread : Of(u)' = Of(u) /\ Of(u) \in Joinee
  BY OfJoinee DEF Goes, Of
<1>2. joinPc' \in [Join!Thread -> Join!Places]
  BY DEF Goes, Basic, Join!TypeOK, JoineePlaces, JoinerPlaces, Join!Places
<1> QED BY <1>1, <1>2 DEF Goes, Basic, Join!TypeOK, Join!Thread, Join!JoinAssumption

LEMMA KeepsBasic ==
  ASSUME Join!JoinAssumption, Basic, NEW t \in Join!Thread, NEW p, Goes(t, p),
         UNCHANGED Join!monitorVars, p \in InsideJoin => joinPc[t] \in InsideJoin, Idle(t)
  PROVE  Basic'
<1>1. Join!TypeOK'
  BY GoesTypes DEF Goes, Basic, Join!TypeOK, Join!monitorVars
<1> QED BY <1>1, GoesTypes DEF Basic, Idle, Waiting, Woken, Join!monitorVars

LEMMA TakeBasic ==
  ASSUME Join!JoinAssumption, Basic, NEW t \in Join!Thread, NEW p, Goes(t, p),
         Join!Mon!Take(t, Join!joinLock(Of(t)))
  PROVE  Basic'
<1>1. /\ joinOwner[Join!joinLock(Of(t))] = NoThread
      /\ joinOwner' = [joinOwner EXCEPT ![Join!joinLock(Of(t))] = t]
      /\ joinDoing' = [joinDoing EXCEPT ![t] = Join!Mon!NotWaiting]
  BY JoinTakeIs
<1>2. Of(t) \in Joinee
  BY OfJoinee
<1>3. Join!TypeOK'
  BY <1>1, <1>2, GoesTypes, JoinDifferent DEF Goes, Basic, Join!TypeOK
<1>4. \A u \in Join!Thread \ {t} : joinDoing'[u] = joinDoing[u]
  BY <1>1 DEF Basic, Join!TypeOK
<1>5. Idle(t)' /\ joinOwner'[Join!joinLock(Of(t))] = t
  BY <1>1, <1>2 DEF Idle, Basic, Join!TypeOK
<1>6. \A u \in Join!Thread \ {t} : joinPc[u] \in InsideJoin /\ Idle(u)
    => joinOwner'[Join!joinLock(Of(u))] = u
  BY <1>1, <1>2, OfJoinee, JoinDifferent DEF Basic, Join!TypeOK, Join!JoinAssumption
<1> QED BY <1>3, <1>4, <1>5, <1>6, GoesTypes DEF Basic, Idle, Waiting, Woken

LEMMA GiveBasic ==
  ASSUME Join!JoinAssumption, Basic, NEW t \in Join!Thread, NEW p, Goes(t, p),
         Join!Mon!Give(t, Join!joinLock(Of(t))), p \notin InsideJoin, Idle(t)
  PROVE  Basic'
<1>1. /\ joinOwner[Join!joinLock(Of(t))] = t /\ joinOwner'
          = [joinOwner EXCEPT ![Join!joinLock(Of(t))] = NoThread]
      /\ UNCHANGED joinDoing
  BY JoinGiveIs
<1>2. Of(t) \in Joinee
  BY OfJoinee
<1>3. Join!TypeOK'
  BY <1>1, <1>2, GoesTypes DEF Goes, Basic, Join!TypeOK
<1>4. \A u \in Join!Thread \ {t} : joinPc[u] \in InsideJoin /\ Idle(u)
    => joinOwner'[Join!joinLock(Of(u))] = u
  BY <1>1, <1>2, OfJoinee, JoinDifferent DEF Basic, Join!TypeOK
<1> QED BY <1>1, <1>3, <1>4, GoesTypes DEF Basic, Idle, Waiting, Woken

LEMMA WaitBasic ==
  ASSUME Join!JoinAssumption, Basic, NEW t \in Join!Thread, NEW p, Goes(t, p),
         Join!Mon!Wait(t, Join!joinCon(Of(t)), Join!joinLock(Of(t))),
         p \in {"FinishWaited", "FinishDone", "JoinWaited"}
  PROVE  Basic' /\ Waiting(t)' /\ \A u \in Join!Thread \ {t} : joinDoing'[u] = joinDoing[u]
<1>1. /\ joinOwner[Join!joinLock(Of(t))] = t /\ joinOwner'
          = [joinOwner EXCEPT ![Join!joinLock(Of(t))] = NoThread]
      /\ joinDoing' = [joinDoing EXCEPT ![t] = Join!Mon!WaitsOn(Join!joinCon(Of(t)), Join!joinLock(Of(t)))]
  BY JoinWaitIs
<1>2. Of(t) \in Joinee
  BY OfJoinee
<1>3. Join!TypeOK'
  BY <1>1, <1>2, GoesTypes, JoinDifferent DEF Goes, Basic, Join!TypeOK
<1>4. \A u \in Join!Thread \ {t} : joinDoing'[u] = joinDoing[u]
  BY <1>1 DEF Basic, Join!TypeOK
<1>5. Waiting(t)' /\ ~ Idle(t)'
  BY <1>1, <1>2, GoesTypes, JoinDifferent DEF Waiting, Idle, Basic, Join!TypeOK
<1>6. \A u \in Join!Thread \ {t} : joinPc[u] \in InsideJoin /\ Idle(u)
    => joinOwner'[Join!joinLock(Of(u))] = u
  BY <1>1, <1>2, OfJoinee, JoinDifferent DEF Basic, Join!TypeOK
<1> QED BY <1>3, <1>4, <1>5, <1>6, GoesTypes DEF Basic, Idle, Waiting, Woken

\* A Signal besides wakes at most one thread of the same joinee.
LEMMA SignalBasic ==
  ASSUME Join!JoinAssumption, Basic, NEW t \in Join!Thread, NEW p, Goes(t, p),
         Join!Signal(t, Of(t)), p \in InsideJoin, joinPc[t] \in InsideJoin, Idle(t)
  PROVE  /\ Basic'
         /\ \A u \in Join!Thread : joinDoing'[u] # joinDoing[u] =>
              /\ u # t /\ Of(u) = Of(t) /\ Waiting(u)
              /\ joinPc[u] \in {"FinishWaited", "FinishDone", "JoinWaited"}
<1>1. Of(t) \in Joinee
  BY OfJoinee
<1>2. /\ UNCHANGED joinOwner
      /\ \/ UNCHANGED joinDoing
         \/ \E u \in Join!Thread : /\ Of(u) = Of(t) /\ Waiting(u)
                                   /\ joinDoing' = [joinDoing EXCEPT ![u] = Join!Mon!Wants(Join!joinLock(Of(t)))]
  BY <1>1, JoinSignalIs
<1>3. CASE UNCHANGED joinDoing
  <2>1. UNCHANGED Join!monitorVars
    BY <1>2, <1>3 DEF Join!monitorVars
  <2> QED BY <1>3, <2>1, KeepsBasic
<1>4. ASSUME NEW u \in Join!Thread, Of(u) = Of(t), Waiting(u),
             joinDoing' = [joinDoing EXCEPT ![u] = Join!Mon!Wants(Join!joinLock(Of(t)))]
      PROVE  /\ Basic' /\ u # t /\ joinPc[u] \in {"FinishWaited", "FinishDone", "JoinWaited"}
             /\ \A v \in Join!Thread \ {u} : joinDoing'[v] = joinDoing[v]
  <2>1. Join!TypeOK'
    BY <1>1, <1>2, <1>4, GoesTypes, JoinDifferent DEF Goes, Basic, Join!TypeOK
  <2>2. u # t /\ ~ Idle(u)
    BY <1>1, <1>4, JoinDifferent DEF Waiting, Idle
  <2>3. \A v \in Join!Thread \ {u} : joinDoing'[v] = joinDoing[v]
    BY <1>4 DEF Basic, Join!TypeOK
  <2>4. Woken(u)' /\ ~ Idle(u)'
    BY <1>1, <1>4, GoesTypes, JoinDifferent DEF Woken, Idle, Basic, Join!TypeOK
  <2>5. joinPc[u] \in {"FinishWaited", "FinishDone", "JoinWaited"}
    BY <2>2 DEF Basic
  <2> QED BY <1>2, <2>1, <2>2, <2>3, <2>4, <2>5, GoesTypes DEF Basic, Idle, Waiting, Woken
<1> QED BY <1>2, <1>3, <1>4

-----------------------------------------------------------------------------
(* The steps.                                                              *)

LEMMA InitJoin == ASSUME Join!JoinAssumption PROVE Join!Init => JoinInv
<1> SUFFICES ASSUME Join!Init PROVE JoinInv
  OBVIOUS
<1>1. /\ joinOwner = [l \in {Join!joinLock(j) : j \in Joinee} |-> NoThread]
      /\ joinDoing = [t \in Join!Thread |-> Join!Mon!NotWaiting]
  BY DEF Join!Init, Join!Mon!Init
<1>2. Join!Mon!NotWaiting \in Join!Mon!Activities
  BY DEF Join!Mon!NotWaiting, Join!Mon!Activities
<1>3. Join!TypeOK
  BY <1>1, <1>2 DEF Join!Init, Join!TypeOK, Join!Places, Join!JoinAssumption
<1>4. Basic
  BY <1>1, <1>3 DEF Join!Init, Basic, JoineePlaces, JoinerPlaces, InsideJoin, Idle, Join!Thread,
     Join!JoinAssumption
<1> QED BY <1>4 DEF Join!Init, JoinInv, Awaited, Orderly, Called, Join!Thread, Join!JoinAssumption

\* What Goes and At mean for the thread of a step.
LEMMA JoineeGoes ==
  ASSUME Join!JoinAssumption, Basic, NEW j \in Joinee
  PROVE  j \in Join!Thread /\ j \notin Joiner /\ Of(j) = j
  BY DEF Join!JoinAssumption, Join!Thread, Of

LEMMA JoinerGoes ==
  ASSUME Join!JoinAssumption, Basic, NEW t \in Joiner
  PROVE  t \in Join!Thread /\ t \notin Joinee /\ Of(t) = joinTarget[t] /\ joinTarget[t] \in Joinee
  BY DEF Join!JoinAssumption, Join!Thread, Of, Basic, Join!TypeOK

\* The end of a Wait disturbs nothing: the thread was woken before.
LEMMA WaitReturnsStep ==
  ASSUME Join!JoinAssumption, JoinInv, NEW t \in Join!Thread, Join!WaitReturns(t, Of(t))
  PROVE  JoinInv'
<1>1. /\ UNCHANGED <<joinGo, joinAlready, joinPc, joinTarget, joinCpu>>
      /\ joinCpu = "running" /\ Woken(t) /\ Join!Mon!Take(t, Join!joinLock(Of(t)))
  BY DEF Join!WaitReturns, Woken
<1>2. Goes(t, joinPc[t])
  BY <1>1 DEF Goes, JoinInv, Basic, Join!TypeOK, Join!Thread, Join!JoinAssumption
<1>3. Basic'
  BY <1>1, <1>2, TakeBasic DEF JoinInv
<1>4. /\ \A u \in Join!Thread \ {t} : joinDoing'[u] = joinDoing[u]
      /\ joinDoing'[t] = Join!Mon!NotWaiting
  BY <1>1, JoinTakeIs DEF JoinInv, Basic, Join!TypeOK
<1>5. ~ Waiting(t) /\ \A u \in Join!Thread : Waiting(u)' <=> Waiting(u)
  BY <1>1, <1>2, <1>4, GoesTypes, JoinDifferent DEF Waiting, Woken, JoinInv
<1>6. \A u \in Joiner : u \in Join!Thread /\ joinTarget[u] \in Join!Thread
  BY JoinerGoes DEF Join!Thread, JoinInv
<1> QED BY <1>1, <1>3, <1>5, <1>6 DEF JoinInv, Awaited, Orderly, Called

\* The steps of a joinee up to its last Wait go on after its procedure, and do not
\* come to FinishDone.
LEMMA ProcedureReturnsStep ==
  ASSUME Join!JoinAssumption, JoinInv, NEW j \in Joinee, Join!ProcedureReturns(j)
  PROVE  JoinInv'
<1> USE JoineeGoes DEF JoinInv
<1>1. /\ UNCHANGED <<Join!monitorVars, joinGo, joinAlready, joinTarget, joinCpu>>
      /\ joinPc[j] = "procedure" /\ joinPc' = [joinPc EXCEPT ![j] = "Finish"]
      /\ joinCpu = "running" /\ Idle(j)
  BY DEF Join!ProcedureReturns, Join!At, Join!Goto, Idle
<1>2. Goes(j, "Finish")
  BY <1>1 DEF Goes, Basic, Join!TypeOK, JoineePlaces
<1>3. Basic'
  BY <1>1, <1>2, KeepsBasic DEF InsideJoin
<1> QED BY <1>1, <1>2, <1>3, GoesTypes, JoinerGoes DEF Awaited, Orderly, Called, Waiting,
                                                       Join!monitorVars

LEMMA FinishAcquiresStep ==
  ASSUME Join!JoinAssumption, JoinInv, NEW j \in Joinee, Join!FinishAcquires(j)
  PROVE  JoinInv'
<1> USE JoineeGoes DEF JoinInv
<1>1. /\ UNCHANGED <<joinGo, joinAlready, joinTarget, joinCpu>>
      /\ joinPc[j] = "Finish" /\ joinPc' = [joinPc EXCEPT ![j] = "FinishTest"]
      /\ joinCpu = "running" /\ Idle(j) /\ Join!Mon!Take(j, Join!joinLock(Of(j)))
  BY DEF Join!FinishAcquires, Join!At, Join!Goto, Idle
<1>2. Goes(j, "FinishTest")
  BY <1>1 DEF Goes, Basic, Join!TypeOK, JoineePlaces
<1>3. Basic'
  BY <1>1, <1>2, TakeBasic
<1>4. \A u \in Join!Thread \ {j} : joinDoing'[u] = joinDoing[u]
  BY <1>1, JoinTakeIs DEF Basic, Join!TypeOK
<1> QED BY <1>1, <1>2, <1>3, <1>4, GoesTypes, JoinerGoes DEF Awaited, Orderly, Called, Waiting

\* The Signals of Finish: they wake the joiner, after the procedure.
LEMMA FinishSignalsStep ==
  ASSUME Join!JoinAssumption, JoinInv, NEW j \in Joinee,
         Join!FinishSignalsFirst(j) \/ Join!FinishSignals(j)
  PROVE  JoinInv'
<1> USE JoineeGoes DEF JoinInv
<1>1. PICK p \in {"FinishWait", "FinishTest"} :
        /\ UNCHANGED <<joinGo, joinAlready, joinTarget, joinCpu>>
        /\ joinPc[j] \in {"FinishTest", "FinishWaited"} /\ joinPc' = [joinPc EXCEPT ![j] = p]
        /\ joinCpu = "running" /\ Idle(j) /\ Join!Signal(j, Of(j))
  BY DEF Join!FinishSignalsFirst, Join!FinishSignals, Join!At, Join!Goto, Idle
<1>2. Goes(j, p)
  BY <1>1 DEF Goes, Basic, Join!TypeOK, JoineePlaces
<1>3. /\ Basic'
      /\ \A u \in Join!Thread : joinDoing'[u] # joinDoing[u] => u # j /\ Of(u) = j
  BY <1>1, <1>2, SignalBasic DEF InsideJoin
<1>4. \A u \in Join!Thread : Of(u) # j => (Waiting(u)' <=> Waiting(u))
  BY <1>2, <1>3, GoesTypes DEF Waiting
<1> QED BY <1>1, <1>2, <1>3, <1>4, GoesTypes, JoinerGoes DEF Awaited, Orderly, Called

LEMMA FinishWaitsForJoinStep ==
  ASSUME Join!JoinAssumption, JoinInv, NEW j \in Joinee, Join!FinishWaitsForJoin(j)
  PROVE  JoinInv'
<1> USE JoineeGoes DEF JoinInv
<1>1. /\ UNCHANGED <<joinGo, joinAlready, joinTarget, joinCpu>>
      /\ joinPc[j] = "FinishWait" /\ joinPc' = [joinPc EXCEPT ![j] = "FinishWaited"]
      /\ joinCpu = "running" /\ Idle(j)
      /\ Join!Mon!Wait(j, Join!joinCon(Of(j)), Join!joinLock(Of(j)))
  BY DEF Join!FinishWaitsForJoin, Join!At, Join!Goto, Idle
<1>2. Goes(j, "FinishWaited")
  BY <1>1 DEF Goes, Basic, Join!TypeOK, JoineePlaces
<1>3. Basic' /\ Waiting(j)' /\ \A u \in Join!Thread \ {j} : joinDoing'[u] = joinDoing[u]
  BY <1>1, <1>2, WaitBasic
<1> QED BY <1>1, <1>2, <1>3, GoesTypes, JoinerGoes DEF Awaited, Orderly, Called, Waiting

\* The last Wait of Finish begins with the lock in hand, so that the joiner is not
\* between its Acquire and its Wait.
LEMMA FinishWaitsStep ==
  ASSUME Join!JoinAssumption, JoinInv, NEW j \in Joinee, Join!FinishWaits(j)
  PROVE  JoinInv'
<1> USE JoineeGoes DEF JoinInv
<1>1. /\ UNCHANGED <<joinGo, joinAlready, joinTarget, joinCpu>>
      /\ joinPc[j] = "FinishTest" /\ joinPc' = [joinPc EXCEPT ![j] = "FinishDone"]
      /\ joinGo[j] = 1
      /\ joinCpu = "running" /\ Idle(j)
      /\ Join!Mon!Wait(j, Join!joinCon(Of(j)), Join!joinLock(Of(j)))
  BY DEF Join!FinishWaits, Join!At, Join!Goto, Idle
<1>2. Goes(j, "FinishDone")
  BY <1>1 DEF Goes, Basic, Join!TypeOK, JoineePlaces
<1>3. Basic' /\ Waiting(j)' /\ \A u \in Join!Thread \ {j} : joinDoing'[u] = joinDoing[u]
  BY <1>1, <1>2, WaitBasic
<1>4. \A t \in Joiner : joinTarget[t] = j => joinPc[t] \notin {"JoinSignal", "JoinWait"}
  BY <1>1, JoinerGoes DEF Basic, InsideJoin
<1> QED BY <1>1, <1>2, <1>3, <1>4, GoesTypes, JoinerGoes DEF Awaited, Orderly, Called, Waiting

\* The joinee leaves the monitor: its joiner was at JoinDone or after it, and is
\* not at JoinDone, where it would have the lock.
LEMMA FinishReleasesStep ==
  ASSUME Join!JoinAssumption, JoinInv, NEW j \in Joinee, Join!FinishReleases(j)
  PROVE  JoinInv'
<1> USE JoineeGoes DEF JoinInv
<1>1. /\ UNCHANGED <<joinGo, joinAlready, joinTarget, joinCpu>>
      /\ joinPc[j] = "FinishDone" /\ joinPc' = [joinPc EXCEPT ![j] = "FinishSleep"]
      /\ joinCpu = "running" /\ Idle(j) /\ Join!Mon!Give(j, Join!joinLock(Of(j)))
  BY DEF Join!FinishReleases, Join!At, Join!Goto, Idle
<1>2. Goes(j, "FinishSleep")
  BY <1>1 DEF Goes, Basic, Join!TypeOK, JoineePlaces
<1>3. Basic' /\ UNCHANGED joinDoing
  BY <1>1, <1>2, GiveBasic, JoinGiveIs DEF InsideJoin
<1>4. ~ Waiting(j)
  BY <1>1, JoinDifferent DEF Idle, Waiting
<1>5. \A t \in Joiner : joinTarget[t] = j => joinPc[t] # "JoinDone"
  BY <1>1, JoinerGoes DEF Basic, InsideJoin
<1>6. \A t \in Joiner : joinTarget[t] = j /\ Called(t) => joinPc[t] = "joined"
  BY <1>1, <1>4, <1>5 DEF Orderly
<1> QED BY <1>1, <1>2, <1>3, <1>6, GoesTypes, JoinerGoes DEF Awaited, Orderly, Called, Waiting

LEMMA FinishSleepsStep ==
  ASSUME JoinInv, NEW j \in Joinee, Join!FinishSleeps(j)
  PROVE  JoinInv'
<1>1. UNCHANGED <<joinOwner, joinDoing, joinGo, joinAlready, joinPc, joinTarget>>
    /\ joinCpu' = "aborted"
  BY DEF Join!FinishSleeps, Join!monitorVars
<1> QED BY <1>1 DEF JoinInv, Basic, Awaited, Join!TypeOK, Of, Idle, Waiting, Woken

LEMMA CallJoinStep ==
  ASSUME Join!JoinAssumption, JoinInv, NEW t \in Joiner, Join!CallJoin(t)
  PROVE  JoinInv'
<1> USE JoinerGoes DEF JoinInv
<1>1. /\ UNCHANGED <<Join!monitorVars, joinGo, joinAlready, joinTarget, joinCpu>>
      /\ joinPc[t] = "before" /\ joinPc' = [joinPc EXCEPT ![t] = "Join"]
      /\ joinCpu = "running" /\ Idle(t)
  BY DEF Join!CallJoin, Join!At, Join!Goto, Idle
<1>2. Goes(t, "Join")
  BY <1>1 DEF Goes, Basic, Join!TypeOK, JoinerPlaces
<1>3. Basic'
  BY <1>1, <1>2, KeepsBasic DEF InsideJoin
<1> QED BY <1>1, <1>2, <1>3, GoesTypes, JoinerGoes, JoineeGoes DEF Awaited, Orderly, Called,
       Waiting, Join!monitorVars

\* The first joiner finds that nobody has called; another fails the ASSERT.
LEMMA JoinAcquiresStep ==
  ASSUME Join!JoinAssumption, JoinInv, NEW t \in Joiner, Join!JoinAcquires(t)
  PROVE  JoinInv'
<1> USE JoinerGoes DEF JoinInv
<1>1. /\ UNCHANGED joinTarget
      /\ joinGo' = [joinGo EXCEPT ![joinTarget[t]] = 1]
      /\ joinAlready' = [joinAlready EXCEPT ![joinTarget[t]] = TRUE]
      /\ joinCpu' = IF joinAlready[joinTarget[t]] THEN "aborted" ELSE "running"
      /\ joinPc[t] = "Join" /\ joinPc' = [joinPc EXCEPT ![t] = "JoinSignal"]
      /\ joinCpu = "running" /\ Idle(t) /\ Join!Mon!Take(t, Join!joinLock(Of(t)))
  BY DEF Join!JoinAcquires, Join!At, Join!Goto, Idle
<1>2. Goes(t, "JoinSignal")
  BY <1>1 DEF Goes, Basic, Join!TypeOK, JoinerPlaces
<1>3. Basic'
  BY <1>1, <1>2, TakeBasic
<1>4. \A u \in Join!Thread \ {t} : joinDoing'[u] = joinDoing[u]
  <2>1. joinDoing' = [joinDoing EXCEPT ![t] = Join!Mon!NotWaiting]
    BY <1>1, JoinTakeIs
  <2> QED BY <2>1 DEF Basic, Join!TypeOK
<1>5. Awaited'
  BY <1>1, <1>2, <1>4, GoesTypes, JoinerGoes, JoineeGoes DEF Awaited, Waiting
<1>6. ASSUME ~ joinAlready[joinTarget[t]] PROVE Orderly'
  <2>1. /\ \A u \in Joiner : joinTarget[u] = joinTarget[t] => ~ Called(u)
        /\ joinPc[joinTarget[t]] \notin {"FinishDone", "FinishSleep"}
    BY <1>1, <1>6 DEF Orderly
  <2>2. \A j \in Joinee : j # joinTarget[t] => joinGo'[j] = joinGo[j]
      /\ joinAlready'[j] = joinAlready[j]
    BY <1>1 DEF Basic, Join!TypeOK
  <2>3. joinAlready'[joinTarget[t]]
    BY <1>1 DEF Basic, Join!TypeOK
  <2>4. \A u \in Joinee : Waiting(u)' <=> Waiting(u)
    BY <1>2, <1>4, GoesTypes, JoineeGoes DEF Waiting
  <2> QED BY <1>1, <1>2, <2>1, <2>2, <2>3, <2>4, GoesTypes, JoinerGoes, JoineeGoes DEF Orderly,
         Called
<1> QED BY <1>1, <1>3, <1>5, <1>6

\* The first Signal of Join is made before the joinee's last Wait.
LEMMA JoinSignalsStep ==
  ASSUME Join!JoinAssumption, JoinInv, NEW t \in Joiner, Join!JoinSignals(t)
  PROVE  JoinInv'
<1> USE JoinerGoes DEF JoinInv
<1>1. /\ UNCHANGED <<joinGo, joinAlready, joinTarget, joinCpu>>
      /\ joinPc[t] = "JoinSignal" /\ joinPc' = [joinPc EXCEPT ![t] = "JoinWait"]
      /\ joinCpu = "running" /\ Idle(t) /\ Join!Signal(t, Of(t))
  BY DEF Join!JoinSignals, Join!At, Join!Goto, Idle
<1>2. Goes(t, "JoinWait")
  BY <1>1 DEF Goes, Basic, Join!TypeOK, JoinerPlaces
<1>3. /\ Basic'
      /\ \A u \in Join!Thread : joinDoing'[u] # joinDoing[u] =>
           /\ u # t /\ Of(u) = Of(t)
           /\ joinPc[u] \in {"FinishWaited", "FinishDone", "JoinWaited"}
  BY <1>1, <1>2, SignalBasic DEF InsideJoin
<1>4. \A u \in Joiner : joinDoing'[u] = joinDoing[u]
  BY <1>1, <1>3, JoinerGoes DEF Orderly, Called
<1>5. \A j \in Joinee : joinPc[j] = "FinishDone" => joinDoing'[j] = joinDoing[j]
  BY <1>1, <1>3, JoineeGoes DEF Orderly
<1> QED BY <1>1, <1>2, <1>3, <1>4, <1>5, GoesTypes, JoinerGoes, JoineeGoes DEF Awaited, Orderly,
       Called, Waiting

LEMMA JoinWaitsStep ==
  ASSUME Join!JoinAssumption, JoinInv, NEW t \in Joiner, Join!JoinWaits(t)
  PROVE  JoinInv'
<1> USE JoinerGoes DEF JoinInv
<1>1. /\ UNCHANGED <<joinGo, joinAlready, joinTarget, joinCpu>>
      /\ joinPc[t] = "JoinWait" /\ joinPc' = [joinPc EXCEPT ![t] = "JoinWaited"]
      /\ joinCpu = "running" /\ Join!Mon!Wait(t, Join!joinCon(Of(t)), Join!joinLock(Of(t)))
  BY DEF Join!JoinWaits, Join!At, Join!Goto
<1>2. Goes(t, "JoinWaited")
  BY <1>1 DEF Goes, Basic, Join!TypeOK, JoinerPlaces
<1>3. Basic' /\ Waiting(t)' /\ \A u \in Join!Thread \ {t} : joinDoing'[u] = joinDoing[u]
  BY <1>1, <1>2, WaitBasic
<1>4. \A u \in Join!Thread \ {t} : Waiting(u)' <=> Waiting(u)
  BY <1>2, <1>3, GoesTypes DEF Waiting
<1> QED BY <1>1, <1>2, <1>3, <1>4, GoesTypes, JoinerGoes, JoineeGoes DEF Awaited, Orderly, Called

\* The second Signal of Join may end the joinee's last Wait: the joiner is at
\* JoinDone then.
LEMMA JoinSignalsAgainStep ==
  ASSUME Join!JoinAssumption, JoinInv, NEW t \in Joiner, Join!JoinSignalsAgain(t)
  PROVE  JoinInv'
<1> USE JoinerGoes DEF JoinInv
<1>1. /\ UNCHANGED <<joinGo, joinAlready, joinTarget, joinCpu>>
      /\ joinPc[t] = "JoinWaited" /\ joinPc' = [joinPc EXCEPT ![t] = "JoinDone"]
      /\ joinCpu = "running" /\ Idle(t) /\ Join!Signal(t, Of(t))
  BY DEF Join!JoinSignalsAgain, Join!At, Join!Goto, Idle
<1>2. Goes(t, "JoinDone")
  BY <1>1 DEF Goes, Basic, Join!TypeOK, JoinerPlaces
<1>3. /\ Basic'
      /\ \A u \in Join!Thread : joinDoing'[u] # joinDoing[u] =>
           /\ u # t /\ Of(u) = Of(t)
           /\ joinPc[u] \in {"FinishWaited", "FinishDone", "JoinWaited"}
  BY <1>1, <1>2, SignalBasic DEF InsideJoin
<1>4. \A u \in Joiner : joinDoing'[u] = joinDoing[u]
  BY <1>1, <1>3, JoinerGoes DEF Orderly, Called
<1>5. ~ Waiting(t)
  BY <1>1, JoinDifferent DEF Idle, Waiting
<1>6. \A j \in Joinee : j # joinTarget[t] => joinDoing'[j] = joinDoing[j]
  BY <1>3, JoineeGoes
<1> QED BY <1>1, <1>2, <1>3, <1>4, <1>5, <1>6, GoesTypes, JoinerGoes, JoineeGoes DEF Awaited,
       Orderly, Called, Waiting

LEMMA JoinReturnsStep ==
  ASSUME Join!JoinAssumption, JoinInv, NEW t \in Joiner, Join!JoinReturns(t)
  PROVE  JoinInv'
<1> USE JoinerGoes DEF JoinInv
<1>1. /\ UNCHANGED <<joinGo, joinAlready, joinTarget, joinCpu>>
      /\ joinPc[t] = "JoinDone" /\ joinPc' = [joinPc EXCEPT ![t] = "joined"]
      /\ joinCpu = "running" /\ Idle(t) /\ Join!Mon!Give(t, Join!joinLock(Of(t)))
  BY DEF Join!JoinReturns, Join!At, Join!Goto, Idle
<1>2. Goes(t, "joined")
  BY <1>1 DEF Goes, Basic, Join!TypeOK, JoinerPlaces
<1>3. Basic' /\ UNCHANGED joinDoing
  BY <1>1, <1>2, GiveBasic, JoinGiveIs DEF InsideJoin
<1> QED BY <1>1, <1>2, <1>3, GoesTypes, JoinerGoes, JoineeGoes DEF Awaited, Orderly, Called,
       Waiting

LEMMA NextJoin == ASSUME Join!JoinAssumption PROVE JoinInv /\ [Join!Next]_(Join!vars) => JoinInv'
<1> SUFFICES ASSUME JoinInv, [Join!Next]_(Join!vars) PROVE JoinInv'
  OBVIOUS
<1>1. CASE UNCHANGED Join!vars
  BY <1>1 DEF Join!vars, Join!monitorVars, JoinInv, Basic, Join!TypeOK, Awaited, Orderly, Called,
              Of, Idle,
              Waiting, Woken
<1>2. ASSUME NEW j \in Joinee, Join!JoineeStep(j) PROVE JoinInv'
  <2>1. j \in Join!Thread /\ Of(j) = j
    BY JoineeGoes DEF JoinInv
  <2> QED BY <1>2, <2>1, ProcedureReturnsStep, FinishAcquiresStep, FinishSignalsStep,
      FinishWaitsForJoinStep, FinishWaitsStep, FinishReleasesStep, FinishSleepsStep,
      WaitReturnsStep DEF Join!JoineeStep
<1>3. ASSUME NEW t \in Joiner, Join!CallJoin(t) \/ Join!JoinerStep(t) PROVE JoinInv'
  <2>1. t \in Join!Thread /\ Of(t) = joinTarget[t]
    BY JoinerGoes DEF JoinInv
  <2> QED BY <1>3, <2>1, CallJoinStep, JoinAcquiresStep, JoinSignalsStep, JoinWaitsStep,
      JoinSignalsAgainStep, JoinReturnsStep, WaitReturnsStep DEF Join!JoinerStep
<1> QED BY <1>1, <1>2, <1>3 DEF Join!Next

-----------------------------------------------------------------------------
(* Whale lets its callers through in threes: the argument is about the     *)
(* counters and the flags alone.                                           *)

\* The trios that have been completed: the calls of r that are not counted in
\* whaleBool[r] any more.
Trios(r) == whaleCalls[r] - whaleBool[r]

\* The counters are numbers and the flags are 0 or 1.
Counters ==
  /\ whaleBool \in [Whale!Role -> Nat] /\ whalePres \in [Whale!Role -> {0, 1}]
  /\ whaleCalls \in [Whale!Role -> 0 .. MaxCalls] /\ whaleLeft \in [Whale!Role -> Nat]

\* The inductive invariant.  Every role has taken part in each trio, and those
\* that left beyond the trios are the flags; a flag is up only while a call of
\* each other role is counted, which the last of the trio takes off; not all
\* flags are up, since the last resets them.
TrioInv ==
  /\ Counters
  /\ \A r \in Whale!Role : whaleLeft[r] = Trios(r) + whalePres[r] /\ Trios(r) >= 0
  /\ \A r, s \in Whale!Role : Trios(r) = Trios(s)
  /\ \A r, s \in Whale!Role : whalePres[r] = 1 /\ r # s => whaleBool[s] >= 1
  /\ \E r \in Whale!Role : whalePres[r] = 0

\* Whoever has left without a partner would have left a flag up with no call
\* counted.
LEMMA TrioMates == TrioInv => Whale!MatesInThrees
  BY Z3 DEF TrioInv, Counters, Trios, Whale!MatesInThrees

LEMMA InitTrio == ASSUME Whale!WhaleAssumption PROVE Whale!Init => TrioInv
  BY DEF Whale!WhaleAssumption, Whale!Init, TrioInv, Counters, Trios, Whale!Zero, Whale!Role

\* A new call raises the calls and the counter of its role: the trios are what
\* they were.
LEMMA AcquiresTrio ==
  ASSUME Whale!WhaleAssumption, TrioInv, NEW t \in Caller, Whale!Acquires(t)
  PROVE  TrioInv'
<1> DEFINE r == RoleOf[t]
<1>1. r \in Whale!Role
  BY DEF Whale!WhaleAssumption
<1>2. /\ whaleCalls' = [whaleCalls EXCEPT ![r] = whaleCalls[r] + 1] /\ whaleCalls[r] < MaxCalls
      /\ whaleBool' = [whaleBool EXCEPT ![r] = whaleBool[r] + 1]
      /\ UNCHANGED <<whalePres, whaleLeft>>
  BY DEF Whale!Acquires
<1>3. Counters'
  BY <1>1, <1>2 DEF TrioInv, Counters, Whale!WhaleAssumption
<1>4. \A s \in Whale!Role : Trios(s)' = Trios(s)
  BY <1>1, <1>2 DEF TrioInv, Counters, Trios
<1>5. \A s \in Whale!Role : whaleBool'[s] >= whaleBool[s]
  BY <1>1, <1>2 DEF TrioInv, Counters
<1> HIDE DEF r
<1> QED BY <1>2, <1>3, <1>4, <1>5 DEF TrioInv, Counters

\* A call that gets through raises a flag, with a call of each other role counted,
\* or completes the trio and lowers all the flags.
LEMMA GetsThroughTrio ==
  ASSUME Whale!WhaleAssumption, TrioInv, NEW t \in Caller, Whale!GetsThrough(t)
  PROVE  TrioInv'
<1> DEFINE r == RoleOf[t]
           now == [whalePres EXCEPT ![r] = 1]
           complete == \A s \in Whale!Role : now[s] = 1
<1>1. r \in Whale!Role
  BY DEF Whale!WhaleAssumption
<1>2. /\ whalePres' = IF complete THEN Whale!Zero ELSE now
      /\ whaleBool' = IF complete THEN [s \in Whale!Role |-> whaleBool[s] - 1] ELSE whaleBool
      /\ whaleLeft' = [whaleLeft EXCEPT ![r] = whaleLeft[r] + 1]
      /\ UNCHANGED whaleCalls
      /\ ~ Whale!MustWait(r)
  BY DEF Whale!GetsThrough
<1>3. whalePres[r] = 0 /\ \A s \in Whale!Role \ {r} : whaleBool[s] >= 1
  BY <1>1, <1>2 DEF Whale!MustWait, TrioInv, Counters
<1> HIDE DEF r
<1>4. CASE complete
  <2>1. \A s \in Whale!Role \ {r} : whalePres[s] = 1
    BY <1>1, <1>4 DEF TrioInv, Counters
  <2>2. \A s \in Whale!Role : whaleBool[s] >= 1
    <3>1. PICK s \in Whale!Role : s # r
      BY <1>1 DEF Whale!Role
    <3> QED BY <1>1, <1>3, <2>1, <3>1 DEF TrioInv
  <2>3. Counters'
    BY <1>1, <1>2, <1>4, <2>2 DEF TrioInv, Counters, Whale!Zero
  <2>4. \A s \in Whale!Role : Trios(s)' = Trios(s) + 1
    BY <1>2, <1>4, <2>2 DEF TrioInv, Counters, Trios
  <2>5. \A s \in Whale!Role : whaleLeft'[s] = Trios(s)' + whalePres'[s]
    BY <1>1, <1>2, <1>3, <1>4, <2>1, <2>4, Z3 DEF TrioInv, Counters, Trios, Whale!Zero
  <2>6. \A s \in Whale!Role : whalePres'[s] = 0
    BY <1>2, <1>4 DEF Whale!Zero
  <2> QED BY <1>1, <2>3, <2>4, <2>5, <2>6, Z3 DEF TrioInv, Counters, Trios
<1>5. CASE ~ complete
  <2>1. UNCHANGED <<whaleBool, whaleCalls>> /\ whalePres' = now
    BY <1>2, <1>5
  <2>2. Counters'
    BY <1>1, <1>2, <2>1 DEF TrioInv, Counters
  <2>3. \A s \in Whale!Role : Trios(s)' = Trios(s)
    BY <2>1 DEF Trios
  <2>4. \A s \in Whale!Role : whaleLeft'[s] = Trios(s)' + whalePres'[s]
    BY <1>1, <1>2, <1>3, <2>1, <2>3 DEF TrioInv, Counters, Trios
  <2>5. \A p, s \in Whale!Role : whalePres'[p] = 1 /\ p # s => whaleBool'[s] >= 1
    BY <1>1, <1>3, <2>1 DEF TrioInv, Counters
  <2>6. \E s \in Whale!Role : whalePres'[s] = 0
    BY <1>1, <1>5, <2>1 DEF TrioInv, Counters
  <2> QED BY <2>2, <2>3, <2>4, <2>5, <2>6 DEF TrioInv
<1> QED BY <1>4, <1>5

\* The threads of role r that have called and have not got through.
Testing(r) == {t \in Caller : RoleOf[t] = r /\ whalePc[t] = "Test"}

\* Each call that has begun has got through or is in the loop; so no more get
\* through than are made, which the bound of left in the types says.
WhaleInv ==
  /\ TrioInv
  /\ Whale!TypeOK
  /\ \A r \in Whale!Role :
       /\ IsFiniteSet(Testing(r))
       /\ whaleLeft[r] + Cardinality(Testing(r)) = whaleCalls[r]

LEMMA InitWhale == ASSUME Whale!WhaleAssumption PROVE Whale!Init => WhaleInv
<1> SUFFICES ASSUME Whale!Init PROVE WhaleInv
  OBVIOUS
<1>1. TrioInv
  BY InitTrio
<1>2. Whale!TypeOK
  BY DEF Whale!Init, Whale!TypeOK, Whale!Mon!Init, Whale!Mon!NotWaiting, Whale!Mon!Activities,
         Whale!Zero, Whale!WhaleAssumption
<1>3. \A r \in Whale!Role : Testing(r) = {} /\ whaleLeft[r] = 0 /\ whaleCalls[r] = 0
  BY DEF Whale!Init, Testing, Whale!Zero
<1> QED BY <1>1, <1>2, <1>3, FS_EmptySet DEF WhaleInv

\* The counters, once the calls that got through are known to be calls.
LEMMA CountersInBounds ==
  ASSUME Whale!WhaleAssumption, TrioInv, whaleLeft \in [Whale!Role -> 0 .. MaxCalls]
  PROVE  /\ whaleBool \in [Whale!Role -> 0 .. MaxCalls]
         /\ whalePres \in [Whale!Role -> {0, 1}]
         /\ whaleCalls \in [Whale!Role -> 0 .. MaxCalls]
<1>1. PICK q \in Whale!Role : whalePres[q] = 0
  BY DEF TrioInv
<1>2. Trios(q) = whaleLeft[q] /\ whaleLeft[q] \in Nat
  BY <1>1 DEF TrioInv, Counters, Trios
<1>3. ASSUME NEW r \in Whale!Role
      PROVE  whaleBool[r] \in 0 .. MaxCalls
  <2>1. Trios(r) = whaleLeft[q]
    BY <1>2 DEF TrioInv
  <2>2. whaleBool[r] \in Nat /\ whaleCalls[r] \in 0 .. MaxCalls
    BY DEF TrioInv, Counters
  <2> QED BY <1>2, <2>1, <2>2 DEF Trios, Whale!WhaleAssumption
<1> QED BY <1>3 DEF TrioInv, Counters

\* What the types say of the counters.
Bounded ==
  /\ whaleBool \in [Whale!Role -> 0 .. MaxCalls]
  /\ whalePres \in [Whale!Role -> {0, 1}]
  /\ whaleCalls \in [Whale!Role -> 0 .. MaxCalls]

LEMMA NextCountersInBounds ==
  ASSUME Whale!WhaleAssumption
  PROVE  (TrioInv /\ whaleLeft \in [Whale!Role -> 0 .. MaxCalls])' => Bounded'
<1>1. TrioInv /\ whaleLeft \in [Whale!Role -> 0 .. MaxCalls] => Bounded
  BY CountersInBounds DEF Bounded
<1> QED BY <1>1, PTL

\* A call that begins is in the loop.
LEMMA AcquiresWhale ==
  ASSUME Whale!WhaleAssumption, WhaleInv, NEW t \in Caller, Whale!Acquires(t)
  PROVE  WhaleInv'
<1> DEFINE r == RoleOf[t]
<1>1. TrioInv'
  BY AcquiresTrio DEF WhaleInv
<1>2. /\ r \in Whale!Role
      /\ whalePc[t] = "outside" /\ whalePc' = [whalePc EXCEPT ![t] = "Test"]
      /\ whaleOwner' = [whaleOwner EXCEPT !["whaleLock"] = t]
      /\ whaleDoing' = [whaleDoing EXCEPT ![t] = Whale!Mon!NotWaiting]
      /\ whaleCalls' = [whaleCalls EXCEPT ![r] = whaleCalls[r] + 1]
      /\ UNCHANGED whaleLeft
  BY DEF Whale!WhaleAssumption, Whale!Acquires, Whale!At, Whale!Goto, Whale!Mon!Take,
         Whale!Mon!Become
<1> HIDE DEF r
<1>3. Whale!TypeOK'
  <2>1. Whale!Mon!NotWaiting \in Whale!Mon!Activities
    BY DEF Whale!Mon!NotWaiting, Whale!Mon!Activities
  <2>2. /\ whaleOwner' \in [{"whaleLock"} -> Caller \cup {NoThread}]
        /\ whaleDoing' \in [Caller -> Whale!Mon!Activities]
        /\ whalePc' \in [Caller -> {"outside", "Test", "Release"} \cup Whale!Role]
        /\ whaleLeft' \in [Whale!Role -> 0 .. MaxCalls]
    BY <1>2, <2>1 DEF WhaleInv, Whale!TypeOK
  <2>3. TrioInv' => /\ whaleBool' \in [Whale!Role -> 0 .. MaxCalls]
                    /\ whalePres' \in [Whale!Role -> {0, 1}]
                    /\ whaleCalls' \in [Whale!Role -> 0 .. MaxCalls]
    BY <2>2, NextCountersInBounds DEF Bounded
  <2> QED BY <1>1, <2>2, <2>3 DEF Whale!TypeOK
<1>4. ASSUME NEW s \in Whale!Role
      PROVE  /\ IsFiniteSet(Testing(s)')
             /\ whaleLeft'[s] + Cardinality(Testing(s)') = whaleCalls'[s]
  <2>1. /\ IsFiniteSet(Testing(s)) /\ whaleLeft[s] + Cardinality(Testing(s)) = whaleCalls[s]
        /\ whaleLeft[s] \in Nat /\ whaleCalls[s] \in Nat
        /\ whalePc \in [Caller -> {"outside", "Test", "Release"} \cup Whale!Role]
        /\ whaleCalls \in [Whale!Role -> 0 .. MaxCalls]
    BY DEF WhaleInv, Whale!TypeOK
  <2>2. CASE s = r
    <3>1. t \notin Testing(s) /\ Testing(s)' = Testing(s) \cup {t}
      BY <1>2, <2>1, <2>2 DEF Testing, r
    <3>2. /\ IsFiniteSet(Testing(s) \cup {t})
          /\ Cardinality(Testing(s) \cup {t}) = Cardinality(Testing(s)) + 1
          /\ Cardinality(Testing(s)) \in Nat
      BY <2>1, <3>1, FS_AddElement, FS_CardinalityType
    <3> QED BY <1>2, <2>1, <2>2, <3>1, <3>2
  <2>3. CASE s # r
    <3>1. Testing(s)' = Testing(s)
      BY <1>2, <2>1, <2>3 DEF Testing, r
    <3> QED BY <1>2, <2>1, <2>3, <3>1
  <2> QED BY <2>2, <2>3
<1> QED BY <1>1, <1>3, <1>4 DEF WhaleInv

\* A call that gets through leaves the loop.
LEMMA GetsThroughWhale ==
  ASSUME Whale!WhaleAssumption, WhaleInv, NEW t \in Caller, Whale!GetsThrough(t)
  PROVE  WhaleInv'
<1> DEFINE r == RoleOf[t]
<1>1. TrioInv'
  BY GetsThroughTrio DEF WhaleInv
<1>2. /\ r \in Whale!Role
      /\ whalePc[t] = "Test" /\ whalePc' = [whalePc EXCEPT ![t] = "male"]
      /\ UNCHANGED <<whaleOwner, whaleDoing, whaleCalls>>
      /\ whaleLeft' = [whaleLeft EXCEPT ![r] = whaleLeft[r] + 1]
  BY DEF Whale!WhaleAssumption, Whale!GetsThrough, Whale!At, Whale!Goto, Whale!monitorVars
<1>3. ASSUME NEW s \in Whale!Role
      PROVE  /\ IsFiniteSet(Testing(s)')
             /\ whaleLeft'[s] + Cardinality(Testing(s)') = whaleCalls'[s]
             /\ whaleLeft'[s] \in 0 .. MaxCalls
  <2>1. /\ IsFiniteSet(Testing(s)) /\ whaleLeft[s] + Cardinality(Testing(s)) = whaleCalls[s]
        /\ whaleLeft[s] \in Nat /\ whaleCalls[s] \in 0 .. MaxCalls
        /\ whalePc \in [Caller -> {"outside", "Test", "Release"} \cup Whale!Role]
        /\ whaleLeft \in [Whale!Role -> 0 .. MaxCalls]
    BY DEF WhaleInv, Whale!TypeOK
  <2>2. CASE s = r
    <3>1. t \in Testing(s) /\ Testing(s)' = Testing(s) \ {t}
      BY <1>2, <2>1, <2>2 DEF Testing
    <3>2. /\ IsFiniteSet(Testing(s) \ {t})
          /\ Cardinality(Testing(s) \ {t}) = Cardinality(Testing(s)) - 1
          /\ Cardinality(Testing(s)) \in Nat /\ Cardinality(Testing(s) \ {t}) \in Nat
      BY <2>1, <3>1, FS_RemoveElement, FS_CardinalityType
    <3> HIDE DEF r
    <3>3. whaleLeft'[s] = whaleLeft[s] + 1 /\ whaleCalls'[s] = whaleCalls[s]
      BY <1>2, <2>1, <2>2
    <3> QED BY <2>1, <3>1, <3>2, <3>3 DEF Whale!WhaleAssumption
  <2>3. CASE s # r
    <3>1. Testing(s)' = Testing(s)
      BY <1>2, <2>1, <2>3 DEF Testing
    <3> QED BY <1>2, <2>1, <2>3, <3>1
  <2> QED BY <2>2, <2>3
<1> HIDE DEF r
<1>4. Whale!TypeOK'
  <2>1. /\ whaleOwner' \in [{"whaleLock"} -> Caller \cup {NoThread}]
        /\ whaleDoing' \in [Caller -> Whale!Mon!Activities]
        /\ whalePc' \in [Caller -> {"outside", "Test", "Release"} \cup Whale!Role]
    BY <1>2 DEF WhaleInv, Whale!TypeOK, Whale!Role
  <2>2. whaleLeft' \in [Whale!Role -> 0 .. MaxCalls]
    <3>1. whaleLeft \in [Whale!Role -> 0 .. MaxCalls]
      BY DEF WhaleInv, Whale!TypeOK
    <3> QED BY <1>2, <1>3, <3>1
  <2>3. TrioInv' => /\ whaleBool' \in [Whale!Role -> 0 .. MaxCalls]
                    /\ whalePres' \in [Whale!Role -> {0, 1}]
                    /\ whaleCalls' \in [Whale!Role -> 0 .. MaxCalls]
    BY <2>2, NextCountersInBounds DEF Bounded
  <2> QED BY <1>1, <2>1, <2>2, <2>3 DEF Whale!TypeOK
<1> QED BY <1>1, <1>3, <1>4 DEF WhaleInv

\* The other steps are about the lock and the conditions only.
LEMMA OtherWhale ==
  ASSUME Whale!WhaleAssumption, WhaleInv, NEW t \in Caller,
         Whale!Waits(t) \/ Whale!WaitReturns(t) \/ Whale!Signals(t) \/ Whale!Returns(t)
  PROVE  WhaleInv'
<1>1. UNCHANGED <<Whale!whaleVars, whaleCalls, whaleLeft>>
  BY DEF Whale!Waits, Whale!WaitReturns, Whale!Signals, Whale!Returns
<1>2. TrioInv'
  BY <1>1 DEF WhaleInv, TrioInv, Counters, Trios, Whale!whaleVars
<1>3. /\ whaleOwner \in [{"whaleLock"} -> Caller \cup {NoThread}]
      /\ whaleDoing \in [Caller -> Whale!Mon!Activities]
      /\ whalePc \in [Caller -> {"outside", "Test", "Release"} \cup Whale!Role]
  BY DEF WhaleInv, Whale!TypeOK
<1>4. /\ Whale!Mon!NotWaiting \in Whale!Mon!Activities
      /\ Whale!Mon!Wants("whaleLock") \in Whale!Mon!Activities
      /\ \A c \in Whale!Role : Whale!Mon!WaitsOn(c, "whaleLock") \in Whale!Mon!Activities
  BY DEF Whale!Mon!NotWaiting, Whale!Mon!Wants, Whale!Mon!WaitsOn, Whale!Mon!Activities
<1>5. ASSUME NEW p \in {"Release", "outside"} \cup Whale!Role, whalePc[t] # "Test",
             whalePc' = [whalePc EXCEPT ![t] = p]
      PROVE  /\ whalePc' \in [Caller -> {"outside", "Test", "Release"} \cup Whale!Role]
             /\ \A s \in Whale!Role : Testing(s)' = Testing(s)
  <2>1. p # "Test"
    BY DEF Whale!Role
  <2> QED BY <1>3, <1>5, <2>1 DEF Testing
<1>6. /\ whaleOwner' \in [{"whaleLock"} -> Caller \cup {NoThread}]
      /\ whaleDoing' \in [Caller -> Whale!Mon!Activities]
      /\ whalePc' \in [Caller -> {"outside", "Test", "Release"} \cup Whale!Role]
      /\ \A s \in Whale!Role : Testing(s)' = Testing(s)
  <2>1. CASE Whale!Waits(t)
    <3>1. RoleOf[t] \in Whale!Role /\ Whale!Mon!Wait(t, RoleOf[t], "whaleLock") /\ whalePc' = whalePc
      BY <2>1 DEF Whale!Waits, Whale!WhaleAssumption
    <3> QED BY <1>3, <1>4, <3>1 DEF Whale!Mon!Wait, Whale!Mon!Become, Testing
  <2>2. CASE Whale!WaitReturns(t)
    <3>1. Whale!Mon!Take(t, "whaleLock") /\ whalePc' = whalePc
      BY <2>2 DEF Whale!WaitReturns
    <3> QED BY <1>3, <1>4, <3>1 DEF Whale!Mon!Take, Whale!Mon!Become, Testing
  <2>3. CASE Whale!Signals(t)
    <3>1. PICK r \in Whale!Role :
            /\ whalePc[t] = r /\ whalePc' = [whalePc EXCEPT ![t] = Whale!After(r)]
            /\ (\E u \in Caller : Whale!Mon!Signal(t, r, u)) \/ UNCHANGED Whale!monitorVars
      BY <2>3 DEF Whale!Signals, Whale!At, Whale!Goto
    <3>2. r # "Test" /\ Whale!After(r) \in {"Release", "outside"} \cup Whale!Role
      BY DEF Whale!After, Whale!Role
    <3>3. /\ whaleOwner' = whaleOwner
          /\ whaleDoing' \in [Caller -> Whale!Mon!Activities]
      BY <1>3, <1>4, <3>1 DEF Whale!Mon!Signal, Whale!Mon!Become, Whale!monitorVars
    <3> QED BY <1>3, <1>5, <3>1, <3>2, <3>3
  <2>4. CASE Whale!Returns(t)
    <3>1. /\ whalePc[t] = "Release" /\ whalePc' = [whalePc EXCEPT ![t] = "outside"]
          /\ Whale!Mon!Give(t, "whaleLock")
      BY <2>4 DEF Whale!Returns, Whale!At, Whale!Goto
    <3> QED BY <1>3, <1>5, <3>1 DEF Whale!Mon!Give
  <2> QED BY <2>1, <2>2, <2>3, <2>4
<1>7. Whale!TypeOK'
  BY <1>1, <1>6 DEF WhaleInv, Whale!TypeOK, Whale!whaleVars
<1> QED BY <1>1, <1>2, <1>6, <1>7 DEF WhaleInv

LEMMA NextWhale ==
  ASSUME Whale!WhaleAssumption
  PROVE  WhaleInv /\ [Whale!Next]_(Whale!vars) => WhaleInv'
<1> SUFFICES ASSUME WhaleInv, [Whale!Next]_(Whale!vars) PROVE WhaleInv'
  OBVIOUS
<1>1. ASSUME NEW t \in Caller, Whale!Acquires(t) \/ Whale!Step(t) PROVE WhaleInv'
  BY <1>1, AcquiresWhale, GetsThroughWhale, OtherWhale DEF Whale!Step
<1>2. CASE UNCHANGED Whale!vars
  <2>1. TrioInv'
    BY <1>2 DEF WhaleInv, TrioInv, Counters, Trios, Whale!vars, Whale!whaleVars
  <2> QED BY <1>2, <2>1 DEF WhaleInv, Whale!TypeOK, Testing, Whale!vars, Whale!whaleVars,
         Whale!monitorVars
<1> QED BY <1>1, <1>2 DEF Whale!Next

-----------------------------------------------------------------------------
(* ThreadTest.                                                             *)

\* Each step is one of the class under test; the objects of the others stay as
\* they are.
LEMMA Steps ==
  ASSUME [Next]_vars
  PROVE  /\ [Box!Next]_(Box!vars)
         /\ [Whale!Next]_(Whale!vars)
         /\ [Join!Next]_(Join!vars)
<1>1. [Box!Next]_(Box!vars)
  BY DEF Next, SenderSends, WhaleSend, ForkerThread, vars, boxVars, Box!vars, Box!monitorVars,
         Box!boxVars, Box!history
<1>2. [Whale!Next]_(Whale!vars)
  BY DEF Next, SenderSends, WhaleSend, ForkerThread, vars, whaleVars, Whale!vars,
         Whale!monitorVars, Whale!whaleVars
<1>3. [Join!Next]_(Join!vars)
  BY DEF Next, SenderSends, WhaleSend, ForkerThread, vars, joinVars, Join!vars,
         Join!monitorVars
<1> QED BY <1>1, <1>2, <1>3

\* The invariants of the classes hold while ThreadTest runs one of them.
LEMMA Invariance ==
  Spec => [](BoxInv /\ WhaleInv /\ JoinInv)
<1> DEFINE Inv == BoxInv /\ WhaleInv /\ JoinInv
<1>1. /\ Box!MailboxAssumption
      /\ Whale!WhaleAssumption
      /\ Join!JoinAssumption
  BY ThreadTestAssumption
<1>2. Init => Inv
  BY <1>1, InitBox, InitWhale, InitJoin DEF Init
<1>3. Inv /\ [Next]_vars => Inv'
  <2> SUFFICES ASSUME Inv, [Next]_vars PROVE Inv'
    OBVIOUS
  <2> QED BY <1>1, Steps, NextBox, NextWhale, NextJoin
<1> QED BY <1>2, <1>3, PTL DEF Spec

\* The test that -q names is the one that runs, and the classes keep their types
\* under any threads: a flag of Mailbox that has been set is 0 or 1, Whale counts no
\* call that was not made and lets no call through that was not made, and the locks,
\* conditions and places of the three are what their methods speak of.
THEOREM TypesOfTests == Spec => []TypeOK
<1>1. Init => testnum \in 10 .. 12
  BY DEF Init
<1>2. testnum \in 10 .. 12 /\ [Next]_vars => (testnum \in 10 .. 12)'
  BY DEF Next, SenderSends, WhaleSend, ForkerThread, vars
<1>3. BoxInv /\ WhaleInv /\ JoinInv /\ testnum \in 10 .. 12 => TypeOK
  BY DEF BoxInv, WhaleInv, JoinInv, Basic, TypeOK
<1> QED BY <1>1, <1>2, <1>3, Invariance, PTL DEF Spec

\* Mailbox hands each message over once and in order (Send and Receive of class
\* Mailbox): none is overwritten in buff, and none is taken twice, for any
\* finite number of threads and any numbers of calls.
THEOREM OnceEach == Spec => []EachReceivedOnce
<1>1. BoxInv => EachReceivedOnce
  BY DEF BoxInv, EachReceivedOnce
<1> QED BY <1>1, Invariance, PTL

\* A message is put in buff only for a receiver that is there and is, or will be,
\* awake: receiveBool counts the receivers, and the Signal of Send reaches one
\* when all of them wait.
THEOREM ReceiverIsThere == Spec => []MessageHasReceiver
<1>1. BoxInv => MessageHasReceiver
  BY DEF BoxInv, MessageHasReceiver
<1> QED BY <1>1, Invariance, PTL

\* Class Whale lets the k-th call of a method through only after k calls of each
\* of the others, for any numbers of threads and calls and any roles.
THEOREM InThrees == Spec => []MatesInThrees
<1>1. WhaleInv => MatesInThrees
  BY TrioMates DEF WhaleInv, MatesInThrees
<1> QED BY <1>1, Invariance, PTL

\* Join returns only after the joinee's procedure has (Thread::Join), however many
\* threads call Join on it and in whatever state its memory was.
THEOREM ReturnsAfterFinish == Spec => []JoinWaitsForFinish
<1>1. JoinInv => JoinWaitsForFinish
  BY DEF JoinInv, Awaited, Join!JoinWaitsForFinish,
     JoinWaitsForFinish
<1> QED BY <1>1, Invariance, PTL

\* A joinee leaves Finish's monitor, and could be destroyed, only when its joiner
\* has left Join's (Thread::Finish).
THEOREM Outlives == Spec => []JoineeOutlivesJoin
<1>1. JoinInv => JoineeOutlivesJoin
  BY DEF JoinInv, Orderly, Called,
     Join!JoineeOutlivesJoin, JoineeOutlivesJoin
<1> QED BY <1>1, Invariance, PTL

=============================================================================
