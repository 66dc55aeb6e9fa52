----------------------------- MODULE PostOffice -----------------------------
(***************************************************************************)
(* The post offices of several machines (network/post.cc), each over its   *)
(* Network (machine/network.cc) and with one SynchList                     *)
(* (threads/synchlist.cc) for each mailbox.  Threads send and receive; a   *)
(* postal worker on each machine moves the packets from the network to the *)
(* mailboxes.                                                              *)
(*                                                                         *)
(* The network loses packets, and interrupts whether or not it has lost    *)
(* one.  The semaphores, locks and conditions are those of Monitor, which  *)
(* Synch implements; the code between two operations on them is one step.  *)
(* The sockets keep the order of the packets and lose none.                *)
(***************************************************************************)
EXTENDS Integers, Sequences, FiniteSets

CONSTANTS
  Machine,     \* each is also the name of its postal worker
  Client,      \* the threads that send and receive
  HomeOf,      \* HomeOf[c]: the machine of thread c
  Box,         \* the mailboxes of a post office
  NoThread, NoPacket,
  MaxSends,    \* bounds on the calls of Send and
  MaxReceives  \* of Receive in a run

PostOfficeAssumption ==
  /\ HomeOf \in [Client -> Machine] /\ IsFiniteSet(Client)
  /\ Machine \cap Client = {} /\ NoThread \notin Machine \cup Client
  /\ Box # {} /\ NoPacket \notin [id : Nat, to : Machine, box : Box]
  /\ MaxSends \in Nat /\ MaxReceives \in Nat

VARIABLES
  owner, count, doing,  \* the locks, semaphores and conditions, see Monitor
  wire,        \* wire[m]: the packets in m's socket
  sending,     \* sending[m]: the completion interrupts scheduled on m
  inbox,       \* inbox[m]: the packet that m's Network holds, inHdr and inbox
  boxes,       \* boxes[m][b]: the mail in a mailbox
  pc,          \* pc[t]: what t is to do next
  packet,      \* packet[t]: the mail that t sends, delivers or has received
  box,         \* box[c]: the mailbox that c receives from
  calls,       \* the numbers of calls of Send and Receive so far
  onWire,      \* history: onWire[m]: the packets for m that were not lost
  got          \* history: got[m][b]: what was received from a mailbox

monitorVars == <<owner, count, doing>>
networkVars == <<wire, sending, inbox>>
threadVars == <<pc, packet, box, calls>>
history == <<onWire, got>>
vars == <<monitorVars, networkVars, boxes, threadVars, history>>

Thread == Machine \cup Client

Sems  == {"messageAvailable", "messageSent"} \X Machine
Locks == ({"sendLock"} \X Machine) \cup ({"listLock"} \X Machine \X Box)
Conds == {"listEmpty"} \X Machine \X Box

Mon == INSTANCE Monitor WITH
  Sem <- Sems, Lock <- Locks, Cond <- Conds, NoObject <- <<"none">>

Available(m) == <<"messageAvailable", m>>
Sent(m)      == <<"messageSent", m>>
SendLock(m)  == <<"sendLock", m>>
ListLock(m, b)  == <<"listLock", m, b>>
ListEmpty(m, b) == <<"listEmpty", m, b>>

Packets == [id : 1 .. MaxSends, to : Machine, box : Box]

WorkerPlaces == {"PostalDelivery", "Append", "Put", "AppendDone"}
ClientPlaces == {"outside", "Send", "NetworkSend", "P", "SendDone",
                 "Remove", "Test", "RemoveDone"}

\* The type invariant: in particular one packet at most is announced at a time.
TypeOK ==
  /\ owner \in [Locks -> Thread \cup {NoThread}]
  /\ count \in [Sems -> {0, 1}]
  /\ doing \in [Thread -> Mon!Activities]
  /\ wire \in [Machine -> Seq(Packets)]
  /\ sending \in [Machine -> Nat]
  /\ inbox \in [Machine -> Packets \cup {NoPacket}]
  /\ boxes \in [Machine -> [Box -> Seq(Packets)]]
  /\ \A m \in Machine : pc[m] \in WorkerPlaces
  /\ \A c \in Client : pc[c] \in ClientPlaces
  /\ packet \in [Thread -> Packets \cup {NoPacket}]
  /\ box \in [Client -> Box]
  /\ calls \in [{"Send", "Receive"} -> Nat]
  /\ onWire \in [Machine -> Seq(Packets)]
  /\ got \in [Machine -> [Box -> Seq(Packets)]]

Init ==
  /\ owner = [l \in Locks |-> NoThread]
  /\ count = [s \in Sems |-> 0]
  /\ doing = [t \in Thread |-> Mon!NotWaiting]
  /\ wire = [m \in Machine |-> <<>>]
  /\ sending = [m \in Machine |-> 0]
  /\ inbox = [m \in Machine |-> NoPacket]
  /\ boxes = [m \in Machine |-> [b \in Box |-> <<>>]]
  /\ pc = [t \in Thread |-> IF t \in Machine THEN "PostalDelivery" ELSE "outside"]
  /\ packet = [t \in Thread |-> NoPacket]
  /\ box = [c \in Client |-> CHOOSE b \in Box : TRUE]
  /\ calls = [f \in {"Send", "Receive"} |-> 0]
  /\ onWire = [m \in Machine |-> <<>>]
  /\ got = [m \in Machine |-> [b \in Box |-> <<>>]]

-----------------------------------------------------------------------------

At(t, place) == pc[t] = place /\ doing[t] = Mon!NotWaiting

Goto(t, place) == pc' = [pc EXCEPT ![t] = place]

\* t acquires l and goes on.
Acquires(t, from, l, to) ==
  /\ At(t, from)
  /\ Mon!Take(t, l)
  /\ Goto(t, to)
  /\ UNCHANGED <<networkVars, boxes, packet, box, calls, history>>

Releases(t, from, l, to) ==
  /\ At(t, from)
  /\ Mon!Give(t, l)
  /\ Goto(t, to)
  /\ UNCHANGED <<networkVars, boxes, packet, box, calls, history>>

(* Sending.                                                                *)

CallSend(c) ==
  /\ At(c, "outside")
  /\ calls["Send"] < MaxSends
  /\ calls' = [calls EXCEPT !["Send"] = @ + 1]
  /\ \E m \in Machine, b \in Box :
       packet' = [packet EXCEPT ![c] = [id |-> calls["Send"] + 1, to |-> m, box |-> b]]
  /\ Goto(c, "Send")
  /\ UNCHANGED <<monitorVars, networkVars, boxes, box, history>>

\* Mutant of SendAcquires: sendLock is not taken.
SendAcquiresNothing(c) ==
  /\ At(c, "Send")
  /\ Goto(c, "NetworkSend")
  /\ UNCHANGED <<monitorVars, networkVars, boxes, packet, box, calls, history>>

SendAcquires(c) == Acquires(c, "Send", SendLock(HomeOf[c]), "NetworkSend")

\* Network::Send: the completion interrupt is scheduled, and the packet is lost
\* or put in the socket of the other machine.
NetworkSend(c, lost) ==
  /\ At(c, "NetworkSend")
  /\ LET p == packet[c]
     IN  /\ sending' = [sending EXCEPT ![HomeOf[c]] = @ + 1]
         /\ IF lost THEN UNCHANGED <<wire, onWire>>
            ELSE /\ wire' = [wire EXCEPT ![p.to] = Append(@, p)]
                 /\ onWire' = [onWire EXCEPT ![p.to] = Append(@, p)]
  /\ Goto(c, "P")
  /\ UNCHANGED <<monitorVars, inbox, boxes, packet, box, calls, got>>

\* Mutant of SendDone: nobody is told.
SendDoneSilent(m) ==
  /\ sending[m] > 0
  /\ sending' = [sending EXCEPT ![m] = @ - 1]
  /\ UNCHANGED <<monitorVars, wire, inbox, boxes, threadVars, history>>

\* Network::SendDone and PostOffice::PacketSent, the interrupt handlers.
SendDone(m) ==
  /\ sending[m] > 0
  /\ sending' = [sending EXCEPT ![m] = @ - 1]
  /\ Mon!Up(Sent(m))
  /\ UNCHANGED <<wire, inbox, boxes, threadVars, history>>

\* messageSent->P().
WaitsForSent(c) ==
  /\ At(c, "P")
  /\ Mon!Down(c, Sent(HomeOf[c]))
  /\ Goto(c, "SendDone")
  /\ UNCHANGED <<networkVars, boxes, packet, box, calls, history>>

SendReturns(c) == Releases(c, "SendDone", SendLock(HomeOf[c]), "outside")

(* Arriving.                                                               *)

\* Mutant of CheckPktAvail: inHdr.length is not tested.
CheckPktAvailAlways(m) ==
  /\ wire[m] # <<>>
  /\ inbox' = [inbox EXCEPT ![m] = Head(wire[m])]
  /\ wire' = [wire EXCEPT ![m] = Tail(@)]
  /\ Mon!Up(Available(m))
  /\ UNCHANGED <<sending, boxes, threadVars, history>>

\* Network::CheckPktAvail when there is a packet and room for it, and
\* PostOffice::IncomingPacket: the interrupt handlers.
CheckPktAvail(m) ==
  /\ inbox[m] = NoPacket
  /\ wire[m] # <<>>
  /\ inbox' = [inbox EXCEPT ![m] = Head(wire[m])]
  /\ wire' = [wire EXCEPT ![m] = Tail(@)]
  /\ Mon!Up(Available(m))
  /\ UNCHANGED <<sending, boxes, threadVars, history>>

\* The loop of PostalDelivery: messageAvailable->P() and Network::Receive ...
PostalDelivery(m) ==
  /\ At(m, "PostalDelivery")
  /\ Mon!Down(m, Available(m))
  /\ packet' = [packet EXCEPT ![m] = inbox[m]]
  /\ inbox' = [inbox EXCEPT ![m] = NoPacket]
  /\ Goto(m, "Append")
  /\ UNCHANGED <<wire, sending, boxes, box, calls, history>>

\* ... and MailBox::Put, which is SynchList::Append.
AppendAcquires(m) == Acquires(m, "Append", ListLock(m, packet[m].box), "Put")

\* Mutant of Put: nobody is signalled.
PutSilently(m) ==
  LET b == packet[m].box IN
  /\ At(m, "Put")
  /\ boxes' = [boxes EXCEPT ![m][b] = Append(@, packet[m])]
  /\ Goto(m, "AppendDone")
  /\ UNCHANGED <<monitorVars, networkVars, packet, box, calls, history>>

Put(m) ==
  LET b == packet[m].box
      Waiting == {t \in Thread : doing[t].wants = ListEmpty(m, b)}
  IN
  /\ At(m, "Put")
  /\ boxes' = [boxes EXCEPT ![m][b] = Append(@, packet[m])]
  /\ IF Waiting = {} THEN UNCHANGED monitorVars
     ELSE \E t \in Waiting : Mon!Signal(m, ListEmpty(m, b), t)
  /\ Goto(m, "AppendDone")
  /\ UNCHANGED <<networkVars, packet, box, calls, history>>

AppendReleases(m) ==
  /\ At(m, "AppendDone")
  /\ Mon!Give(m, ListLock(m, packet[m].box))
  /\ packet' = [packet EXCEPT ![m] = NoPacket]
  /\ Goto(m, "PostalDelivery")
  /\ UNCHANGED <<networkVars, boxes, box, calls, history>>

(* Receiving: MailBox::Get, which is SynchList::Remove.                    *)

CallReceive(c) ==
  /\ At(c, "outside")
  /\ calls["Receive"] < MaxReceives
  /\ calls' = [calls EXCEPT !["Receive"] = @ + 1]
  /\ \E b \in Box : box' = [box EXCEPT ![c] = b]
  /\ Goto(c, "Remove")
  /\ UNCHANGED <<monitorVars, networkVars, boxes, packet, history>>

RemoveAcquires(c) == Acquires(c, "Remove", ListLock(HomeOf[c], box[c]), "Test")

RemoveWaits(c) ==
  LET m == HomeOf[c] IN
  /\ At(c, "Test")
  /\ boxes[m][box[c]] = <<>>
  /\ Mon!Wait(c, ListEmpty(m, box[c]), ListLock(m, box[c]))
  /\ UNCHANGED <<networkVars, boxes, threadVars, history>>

\* The end of Wait: a thread that was signalled acquires the lock again.
WaitReturns(c) ==
  LET l == ListLock(HomeOf[c], box[c]) IN
  /\ doing[c] = Mon!Wants(l)
  /\ Mon!Take(c, l)
  /\ UNCHANGED <<networkVars, boxes, threadVars, history>>

RemoveTakes(c) ==
  LET m == HomeOf[c]
      mail == boxes[m][box[c]]
  IN
  /\ At(c, "Test")
  /\ mail # <<>>
  /\ boxes' = [boxes EXCEPT ![m][box[c]] = Tail(mail)]
  /\ packet' = [packet EXCEPT ![c] = Head(mail)]
  /\ got' = [got EXCEPT ![m][box[c]] = Append(@, Head(mail))]
  /\ Goto(c, "RemoveDone")
  /\ UNCHANGED <<monitorVars, networkVars, box, calls, onWire>>

ReceiveReturns(c) == Releases(c, "RemoveDone", ListLock(HomeOf[c], box[c]), "outside")

-----------------------------------------------------------------------------

\* What a thread does inside Send and Receive, and the postal worker.
ClientStep(c) ==
  \/ SendAcquires(c) \/ WaitsForSent(c) \/ SendReturns(c)
  \/ \E lost \in BOOLEAN : NetworkSend(c, lost)
  \/ RemoveAcquires(c) \/ RemoveWaits(c) \/ WaitReturns(c) \/ RemoveTakes(c)
  \/ ReceiveReturns(c)

WorkerStep(m) ==
  PostalDelivery(m) \/ AppendAcquires(m) \/ Put(m) \/ AppendReleases(m)

Next ==
  \/ \E c \in Client : CallSend(c) \/ CallReceive(c) \/ ClientStep(c)
  \/ \E m \in Machine : SendDone(m) \/ CheckPktAvail(m) \/ WorkerStep(m)

Spec == Init /\ [][Next]_vars

\* The devices interrupt at last (CheckPktAvail schedules itself again), and the
\* scheduler runs every ready thread.  Nothing says that a packet is not lost.
Fairness ==
  /\ \A c \in Client : WF_vars(ClientStep(c))
  /\ \A m \in Machine : WF_vars(WorkerStep(m)) /\ WF_vars(SendDone(m))
                        /\ WF_vars(CheckPktAvail(m))

FairSpec == Spec /\ Fairness

-----------------------------------------------------------------------------

\* The packets of a sequence that are for a mailbox, in their order.
For(b, packets) ==
  LET places == {i \in DOMAIN packets : packets[i].box = b}
      rank(i) == Cardinality({j \in places : j <= i})
  IN  [k \in 1 .. Cardinality(places) |-> packets[CHOOSE i \in places : rank(i) = k]]

\* A packet in a machine's hands, as a sequence.
Held(p) == IF p = NoPacket THEN <<>> ELSE <<p>>

\* What the worker has taken from the network and not put in a mailbox yet.
Carried(m) == IF pc[m] \in {"Append", "Put"} THEN Held(packet[m]) ELSE <<>>

\* What is on its way to the mailboxes of m, and what has come to them.
Transit(m) == Carried(m) \o Held(inbox[m]) \o wire[m]
Delivered(m) == SubSeq(onWire[m], 1, Len(onWire[m]) - Len(Transit(m)))

\* Each packet that was not lost is received once, and a mailbox gives its mail
\* in the order in which it was put on the wire: the packet buffered by Network
\* is not overwritten before the worker has taken it, and the worker never takes
\* an empty buffer.
MailInOrder ==
  \A m \in Machine :
    /\ onWire[m] = Delivered(m) \o Transit(m)
    /\ \A b \in Box : got[m][b] \o boxes[m][b] = For(b, Delivered(m))
    /\ Carried(m) = <<>> => pc[m] \in {"PostalDelivery", "AppendDone"}

\* "only one message can be sent to the network at any one time" (Send), which
\* rests on sendLock alone, since sendBusy is never set: a completion interrupt
\* is for the thread that waits for it, the only one inside.
OneSend ==
  \A m \in Machine :
    sending[m] + count[Sent(m)] =
      Cardinality({c \in Client : HomeOf[c] = m /\ pc[c] = "P"})
    /\ sending[m] + count[Sent(m)] <= 1

\* A thread is not left waiting at a mailbox with mail: there are as many other
\* threads on their way to take it as there are messages.
NoMailForgotten ==
  \A m \in Machine, b \in Box :
    LET Here == {c \in Client : HomeOf[c] = m /\ box[c] = b}
        Waiting == {c \in Here : doing[c].wants = ListEmpty(m, b)}
        Coming == {c \in Here : pc[c] \in {"Remove", "Test"}} \ Waiting
    IN  Waiting # {} => Len(boxes[m][b]) <= Cardinality(Coming)

\* A packet on the wire comes to its mailbox, however many threads and packets
\* there are, and Send returns although its packet may be lost.
MailArrives ==
  /\ \A m \in Machine, p \in Packets :
       p \in {onWire[m][i] : i \in DOMAIN onWire[m]}
       ~> \E b \in Box : p \in {(got[m][b] \o boxes[m][b])[i] :
                                 i \in DOMAIN (got[m][b] \o boxes[m][b])}
  /\ \A c \in Client : pc[c] = "Send" ~> pc[c] = "outside"

=============================================================================
