------------------------------- MODULE Console ------------------------------
(***************************************************************************)
(* The console device (machine/console.cc) and ConsoleTest                 *)
(* (userprog/progtest.cc), which echoes what is typed until a 'q'.  The    *)
(* device polls the keyboard for ever, buffers one character, and writes   *)
(* one character at a time; its interrupt handlers call V of two           *)
(* semaphores.                                                             *)
(*                                                                         *)
(* Nothing but OneTick runs handlers, and ConsoleTest reaches it only in   *)
(* P: the console has its semaphores before the first interrupt.           *)
(***************************************************************************)
EXTENDS Naturals, Sequences

CONSTANTS
  Char,      \* what may be typed; not the byte that is EOF as a char
  Quit,      \* 'q'
  EOF,       \* no character in incoming
  MaxTyped   \* a bound on the characters typed in a run

ConsoleAssumption == EOF \notin Char

VARIABLES
  keyboard,   \* what was typed and not read by the device yet, readFileNo
  incoming,
  putBusy,
  writing,    \* the number of ConsoleWriteDone interrupts scheduled
  readAvail, writeDone,  \* the semaphores
  pc,         \* where ConsoleTest is
  ch,
  typed, display         \* history: all that was typed, and written

device == <<keyboard, incoming, putBusy, writing>>
semaphores == <<readAvail, writeDone>>
vars == <<device, semaphores, pc, ch, typed, display>>

\* The type invariant: in particular the semaphores are never above 1.
TypeOK ==
  /\ keyboard \in Seq(Char)
  /\ incoming \in Char \cup {EOF}
  /\ putBusy \in BOOLEAN
  /\ writing \in 0 .. 1
  /\ readAvail \in 0 .. 1 /\ writeDone \in 0 .. 1
  /\ pc \in {"readAvail->P", "PutChar", "writeDone->P", "halted", "aborted"}
  /\ ch \in Char \cup {EOF}
  /\ typed \in Seq(Char) /\ display \in Seq(Char)

Init ==
  /\ keyboard = <<>> /\ incoming = EOF
  /\ putBusy = FALSE /\ writing = 0
  /\ readAvail = 0 /\ writeDone = 0
  /\ pc = "readAvail->P"
  /\ ch = EOF
  /\ typed = <<>> /\ display = <<>>

Running == pc \notin {"halted", "aborted"}

-----------------------------------------------------------------------------

Type(c) ==
  /\ Running
  /\ Len(typed) < MaxTyped
  /\ keyboard' = Append(keyboard, c)
  /\ typed' = Append(typed, c)
  /\ UNCHANGED <<incoming, putBusy, writing, semaphores, pc, ch, display>>

\* Mutants of CheckCharAvail: the buffer is not tested; the handler is not called.
CheckCharOverwrites ==
  /\ Running
  /\ keyboard # <<>>
  /\ incoming' = Head(keyboard)
  /\ keyboard' = Tail(keyboard)
  /\ readAvail' = readAvail + 1
  /\ UNCHANGED <<putBusy, writing, writeDone, pc, ch, typed, display>>

CheckCharSilent ==
  /\ Running
  /\ incoming = EOF /\ keyboard # <<>>
  /\ incoming' = Head(keyboard)
  /\ keyboard' = Tail(keyboard)
  /\ UNCHANGED <<putBusy, writing, semaphores, pc, ch, typed, display>>

\* CheckCharAvail when there is a character and room for it, and ReadAvail.
CheckCharAvail ==
  /\ Running
  /\ incoming = EOF /\ keyboard # <<>>
  /\ incoming' = Head(keyboard)
  /\ keyboard' = Tail(keyboard)
  /\ readAvail' = readAvail + 1
  /\ UNCHANGED <<putBusy, writing, writeDone, pc, ch, typed, display>>

\* Console::WriteDone and the handler WriteDone.
ConsoleWriteDone ==
  /\ Running
  /\ writing > 0
  /\ writing' = writing - 1
  /\ putBusy' = FALSE
  /\ writeDone' = writeDone + 1
  /\ UNCHANGED <<keyboard, incoming, readAvail, pc, ch, typed, display>>

\* readAvail->P() and GetChar.
GetChar ==
  /\ pc = "readAvail->P"
  /\ readAvail > 0
  /\ readAvail' = readAvail - 1
  /\ ch' = incoming
  /\ incoming' = EOF
  /\ pc' = "PutChar"
  /\ UNCHANGED <<keyboard, putBusy, writing, writeDone, typed, display>>

\* PutChar, which asserts that the device is not busy.
PutChar ==
  /\ pc = "PutChar"
  /\ IF putBusy
     THEN /\ pc' = "aborted"
          /\ UNCHANGED <<putBusy, writing, display>>
     ELSE /\ display' = Append(display, ch)
          /\ putBusy' = TRUE
          /\ writing' = writing + 1
          /\ pc' = "writeDone->P"
  /\ UNCHANGED <<keyboard, incoming, semaphores, ch, typed>>

\* writeDone->P(); ConsoleTest returns after a 'q', and main calls Halt.
Written ==
  /\ pc = "writeDone->P"
  /\ writeDone > 0
  /\ writeDone' = writeDone - 1
  /\ pc' = IF ch = Quit THEN "halted" ELSE "readAvail->P"
  /\ UNCHANGED <<device, readAvail, ch, typed, display>>

ConsoleTest == GetChar \/ PutChar \/ Written

Next == (\E c \in Char : Type(c)) \/ CheckCharAvail \/ ConsoleWriteDone \/ ConsoleTest

Spec == Init /\ [][Next]_vars

\* Time goes on, and with it the device's interrupts; the thread runs when it can.
Fairness ==
  WF_vars(CheckCharAvail) /\ WF_vars(ConsoleWriteDone) /\ WF_vars(ConsoleTest)

FairSpec == Spec /\ Fairness

-----------------------------------------------------------------------------

Buffered == IF incoming = EOF THEN <<>> ELSE <<incoming>>
Taken == IF pc = "PutChar" THEN <<ch>> ELSE <<>>

\* What is displayed, held on the way and still in the keyboard is what was
\* typed, in order: no character is overwritten in the buffer between its
\* interrupt and GetChar, none is echoed twice, and PutChar's assertion holds
\* whenever the interrupts come.
EchoInOrder ==
  /\ display \o Taken \o Buffered \o keyboard = typed
  /\ pc # "aborted"

\* All that is typed is echoed, unless a 'q' has ended the test.
AllEchoed == (display # typed) ~> (display = typed \/ pc = "halted")

=============================================================================
