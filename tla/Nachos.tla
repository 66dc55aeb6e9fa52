------------------------------- MODULE Nachos -------------------------------
(***************************************************************************)
(* main (threads/main.cc): one Nachos runs one of its test programs, which *)
(* the command line and the build choose: the console's (-c), a user       *)
(* program (-x) or the network's (-o).  Each is a module of its own; the   *)
(* objects of the others stay as they were made.  The tests of threads     *)
(* (-q) are in ThreadTest, the commands of the file system in FileSystem.  *)
(***************************************************************************)
EXTENDS Integers, Sequences, FiniteSets

CONSTANTS
  NoThread,
  Machine, Client, HomeOf, Box, NoPacket, MaxSends, MaxReceives,  \* PostOffice
  Char, Quit, EOF, MaxTyped,                                      \* Console
  WordBits, Registers, NumPages, PageSize, NumPhysPages, Image,   \* UserProgram
  Operands, Immediates, Shifts, Targets, Rs, Rt, Rd, MaxSteps

VARIABLES
  command,
  mailOwner, mailCount, mailDoing, mailWire, mailSending, mailInbox,
  mailBoxes, mailPc, mailPacket, mailBox, mailCalls, mailOnWire, mailGot,
  echoKeyboard, echoIncoming, echoPutBusy, echoWriting, echoReadAvail,
  echoWriteDone, echoPc, echoCh, echoTyped, echoDisplay,
  userRegisters, userPc, userNextPc, userLoad, userMemory, userStatus,
  userSteps, userLast

mailVars ==
  <<mailOwner, mailCount, mailDoing, mailWire, mailSending, mailInbox,
    mailBoxes, mailPc, mailPacket, mailBox, mailCalls, mailOnWire, mailGot>>
echoVars ==
  <<echoKeyboard, echoIncoming, echoPutBusy, echoWriting, echoReadAvail,
    echoWriteDone, echoPc, echoCh, echoTyped, echoDisplay>>
userVars ==
  <<userRegisters, userPc, userNextPc, userLoad, userMemory, userStatus,
    userSteps, userLast>>
vars == <<command, mailVars, echoVars, userVars>>

Mail == INSTANCE PostOffice WITH
  owner <- mailOwner, count <- mailCount, doing <- mailDoing,
  wire <- mailWire, sending <- mailSending, inbox <- mailInbox,
  boxes <- mailBoxes, pc <- mailPc, packet <- mailPacket, box <- mailBox,
  calls <- mailCalls, onWire <- mailOnWire, got <- mailGot

Echo == INSTANCE Console WITH
  keyboard <- echoKeyboard, incoming <- echoIncoming, putBusy <- echoPutBusy,
  writing <- echoWriting, readAvail <- echoReadAvail,
  writeDone <- echoWriteDone, pc <- echoPc, ch <- echoCh, typed <- echoTyped,
  display <- echoDisplay

User == INSTANCE UserProgram WITH
  registers <- userRegisters, pc <- userPc, nextPc <- userNextPc,
  load <- userLoad, memory <- userMemory, status <- userStatus,
  steps <- userSteps, last <- userLast

ASSUME NachosAssumption ==
  Mail!PostOfficeAssumption /\ Echo!ConsoleAssumption /\ User!UserProgramAssumption

\* The type invariant of the program that runs, and of the others.
TypeOK ==
  /\ command \in {"-o", "-c", "-x"}
  /\ Mail!TypeOK /\ Echo!TypeOK /\ User!TypeOK

\* A user program has its operands only when it is run.
Init ==
  /\ command \in {"-o", "-c", "-x"}
  /\ Mail!Init /\ Echo!Init /\ User!Init
  /\ command # "-x" => /\ \A r \in DOMAIN userRegisters : userRegisters[r] = 0
                       /\ userPc = 0

-----------------------------------------------------------------------------

\* MailTest sends and receives twice, as any thread may; the sends and receives
\* here are those that any threads make, in any order, on each machine.
MailTest ==
  /\ command = "-o"
  /\ Mail!Next
  /\ UNCHANGED <<command, echoVars, userVars>>

ConsoleTest ==
  /\ command = "-c"
  /\ Echo!Next
  /\ UNCHANGED <<command, mailVars, userVars>>

StartProcess ==
  /\ command = "-x"
  /\ User!Next
  /\ UNCHANGED <<command, mailVars, echoVars>>

Next == MailTest \/ ConsoleTest \/ StartProcess

Spec == Init /\ [][Next]_vars

\* The fairness of each program; it says nothing of those that do not run.
Fairness ==
  /\ \A c \in Client : WF_mailVars(Mail!ClientStep(c))
  /\ \A m \in Machine : /\ WF_mailVars(Mail!WorkerStep(m))
                         /\ WF_mailVars(Mail!SendDone(m)) /\ WF_mailVars(Mail!CheckPktAvail(m))
  /\ WF_echoVars(Echo!CheckCharAvail) /\ WF_echoVars(Echo!ConsoleWriteDone)
  /\ WF_echoVars(Echo!ConsoleTest)

FairSpec == Spec /\ Fairness

-----------------------------------------------------------------------------

\* What PostOffice says of its mail (network/post.cc): it arrives once, in order,
\* one send at a time, in the hands of a thread that waits for it, and at last.
MailInOrder     == Mail!MailInOrder
OneSend         == Mail!OneSend
NoMailForgotten == Mail!NoMailForgotten
MailArrives     == Mail!MailArrives

\* What Console says of what is typed (machine/console.cc): it is echoed in order,
\* and at last.
EchoInOrder == Echo!EchoInOrder
AllEchoed   == Echo!AllEchoed

\* What UserProgram says of the simulated machine (machine/mipssim.cc): it computes
\* as arithmetic says, and its traps are precise.
ExactArithmetic == User!ExactArithmetic
PreciseTraps    == User!PreciseTraps

=============================================================================
