----------------------------- MODULE NachosProofs ----------------------------
(***************************************************************************)
(* Theorems about Nachos, for any machines, mailboxes, threads, characters *)
(* and words: the mail is received once and in order, the console's echo   *)
(* is in order, traps are precise, and the sign tests, products, divisions *)
(* and loads of the simulated machine are exact.                           *)
(***************************************************************************)
EXTENDS Nachos, FiniteSetTheorems, SequenceTheorems, WellFoundedInduction, TLAPS

-----------------------------------------------------------------------------
(* The network's test: PostOffice.                                         *)

\* The operators of FiniteSets that PostOffice uses are those of the library.
LEMMA SameC == \A S : Mail!Cardinality(S) = Cardinality(S)
  BY DEF Mail!Cardinality, Cardinality

\* Likewise, a set is finite in the one sense when it is in the other.
LEMMA SameF == \A S : Mail!IsFiniteSet(S) <=> IsFiniteSet(S)
  BY DEF Mail!IsFiniteSet, IsFiniteSet

\* The state of each thread: what it waits for and has in its hands.  Only a
\* client waits, and only for the list of its mailbox; the clients inside Send are
\* the owners of sendLock; a packet is in the hands of those who move it.
Hands ==
  /\ mailPc \in [Mail!Thread -> Mail!WorkerPlaces \cup Mail!ClientPlaces]
  /\ \A m \in Machine :
       /\ mailDoing[m] = Mail!Mon!NotWaiting
       /\ mailPc[m] # "PostalDelivery" => mailPacket[m] \in Mail!Packets
  /\ \A c \in Client :
       /\ \/ mailDoing[c] = Mail!Mon!NotWaiting
          \/ /\ mailPc[c] = "Test"
             /\ mailDoing[c] \in {Mail!Mon!Wants(Mail!ListLock(HomeOf[c], mailBox[c])),
                              Mail!Mon!WaitsOn(Mail!ListEmpty(HomeOf[c], mailBox[c]),
                                          Mail!ListLock(HomeOf[c], mailBox[c]))}
       /\ mailPc[c] \in {"NetworkSend", "P", "SendDone"}
           <=> mailOwner[Mail!SendLock(HomeOf[c])] = c
       /\ mailPc[c] \in {"Send", "NetworkSend"} => mailPacket[c] \in Mail!Packets

\* The devices: an interrupt for the one client that waits for it, the announced
\* packet in the buffer.
DeviceState ==
  \A m \in Machine :
    /\ \/ mailSending[m] + mailCount[Mail!Sent(m)] = 0 /\ \A c \in Client : HomeOf[c] = m
                                                           => mailPc[c] # "P"
       \/ /\ mailSending[m] + mailCount[Mail!Sent(m)] = 1
          /\ mailOwner[Mail!SendLock(m)] \in Client /\ HomeOf[mailOwner[Mail!SendLock(m)]] = m
          /\ mailPc[mailOwner[Mail!SendLock(m)]] = "P"
    /\ mailCount[Mail!Available(m)] = IF mailInbox[m] = NoPacket THEN 0 ELSE 1

\* The mail: what came to the mailboxes is what was put on the wire and is not on
\* its way.
InOrder(m, d) ==
  /\ mailOnWire[m] = d \o Mail!Transit(m)
  /\ \A b \in Box : mailGot[m][b] \o mailBoxes[m][b] = Mail!For(b, d)

Order == \A m \in Machine : InOrder(m, Mail!Delivered(m))

\* The inductive invariant.
MailInv == Mail!TypeOK /\ Hands /\ DeviceState /\ Order /\ Mail!NoMailForgotten

\* The names of the semaphores, locks and conditions are those of the objects.
LEMMA Names ==
  /\ \A m, n \in Machine : Mail!Available(m) # Mail!Sent(n)
  /\ \A m, n \in Machine : Mail!Available(m) = Mail!Available(n) => m = n
  /\ \A m, n \in Machine : Mail!Sent(m) = Mail!Sent(n) => m = n
  /\ \A m, n \in Machine : Mail!SendLock(m) = Mail!SendLock(n) => m = n
  /\ \A m, n \in Machine, b \in Box : Mail!SendLock(m) # Mail!ListLock(n, b)
  /\ \A m, n \in Machine, b, d \in Box : Mail!ListLock(m, b) = Mail!ListLock(n, d) => m = n
      /\ b = d
  /\ \A m, n \in Machine, b, d \in Box : Mail!ListEmpty(m, b) = Mail!ListEmpty(n, d) => m = n
      /\ b = d
  /\ \A m, n \in Machine, b, d \in Box : Mail!ListLock(m, b) # Mail!ListEmpty(n, d)
  /\ \A m \in Machine, b \in Box : Mail!ListEmpty(m, b) # <<"none">>
      /\ Mail!ListLock(m, b) # <<"none">>
  /\ \A m \in Machine : Mail!Available(m) \in Mail!Sems /\ Mail!Sent(m) \in Mail!Sems
      /\ Mail!SendLock(m) \in Mail!Locks
  /\ \A m \in Machine, b \in Box : Mail!ListLock(m, b) \in Mail!Locks
      /\ Mail!ListEmpty(m, b) \in Mail!Conds
  BY DEF Mail!Available, Mail!Sent, Mail!SendLock, Mail!ListLock, Mail!ListEmpty, Mail!Sems,
         Mail!Locks, Mail!Conds


\* Different objects have different names, and a state of waiting tells its own.
LEMMA Different ==
  /\ \A l \in Mail!Locks, e \in Mail!Conds :
       /\ Mail!Mon!NotWaiting # Mail!Mon!Wants(l) /\ Mail!Mon!NotWaiting # Mail!Mon!WaitsOn(e, l)
       /\ Mail!Mon!Wants(l) # Mail!Mon!WaitsOn(e, l)
       /\ Mail!Mon!WaitsOn(e, l).wants = e /\ Mail!Mon!Wants(l).wants = l
       /\ Mail!Mon!WaitsOn(e, l).then = l
       /\ Mail!Mon!Wants(l) \in Mail!Mon!Activities
       /\ Mail!Mon!WaitsOn(e, l) \in Mail!Mon!Activities
       /\ e # <<"none">> /\ e # l
       /\ \A k \in Mail!Locks, d \in Mail!Conds : /\ Mail!Mon!WaitsOn(e, l) # Mail!Mon!Wants(k)
                                                  /\ Mail!Mon!WaitsOn(e, l)
                                                      = Mail!Mon!WaitsOn(d, k) => e = d /\ l = k
                                                  /\ Mail!Mon!Wants(k) = Mail!Mon!Wants(l)
                                                      => k = l
  /\ Mail!Mon!NotWaiting \in Mail!Mon!Activities /\ Mail!Mon!NotWaiting.wants = <<"none">>
<1>1. \A l \in Mail!Locks, e \in Mail!Conds : e # <<"none">> /\ l # <<"none">>
    /\ e[1] = "listEmpty" /\ l[1] # "listEmpty"
  BY DEF Mail!Locks, Mail!Conds
<1>2. \A l \in Mail!Locks, e \in Mail!Conds : e # l
  BY <1>1
<1>3. \A l \in Mail!Locks, e \in Mail!Conds :
        /\ Mail!Mon!WaitsOn(e, l).wants = e /\ Mail!Mon!Wants(l).wants = l
        /\ Mail!Mon!WaitsOn(e, l).then = l
        /\ Mail!Mon!Wants(l) \in Mail!Mon!Activities
        /\ Mail!Mon!WaitsOn(e, l) \in Mail!Mon!Activities
  BY DEF Mail!Mon!Wants, Mail!Mon!WaitsOn, Mail!Mon!Activities
<1>4. Mail!Mon!NotWaiting \in Mail!Mon!Activities /\ Mail!Mon!NotWaiting.wants = <<"none">>
  BY DEF Mail!Mon!NotWaiting, Mail!Mon!Activities
<1>5. ASSUME NEW l \in Mail!Locks, NEW e \in Mail!Conds, NEW k \in Mail!Locks,
    NEW d \in Mail!Conds
      PROVE  /\ Mail!Mon!NotWaiting # Mail!Mon!Wants(l)
             /\ Mail!Mon!NotWaiting # Mail!Mon!WaitsOn(e, l)
             /\ Mail!Mon!WaitsOn(e, l) # Mail!Mon!Wants(k)
             /\ Mail!Mon!WaitsOn(e, l) = Mail!Mon!WaitsOn(d, k) => e = d /\ l = k
             /\ Mail!Mon!Wants(k) = Mail!Mon!Wants(l) => k = l
  <2>1. e # k /\ e # <<"none">> /\ l # <<"none">>
    BY <1>1, <1>2
  <2>2. /\ Mail!Mon!WaitsOn(e, l).wants = e /\ Mail!Mon!WaitsOn(e, l).then = l
        /\ Mail!Mon!Wants(l).wants = l
        /\ Mail!Mon!WaitsOn(d, k).wants = d /\ Mail!Mon!WaitsOn(d, k).then = k
        /\ Mail!Mon!Wants(k).wants = k
    BY <1>3
  <2>3. Mail!Mon!NotWaiting.wants = <<"none">>
    BY <1>4
  <2> QED BY ONLY <2>1, <2>2, <2>3
<1>6. ASSUME NEW l \in Mail!Locks, NEW e \in Mail!Conds
      PROVE  Mail!Mon!Wants(l) # Mail!Mon!WaitsOn(e, l)
  BY <1>5
<1> QED BY <1>1, <1>2, <1>3, <1>4, <1>5, <1>6

\* A client that waits for mail, and one on its way to take some.
Waits(c, m, b) ==
  HomeOf[c] = m /\ mailBox[c] = b /\ mailDoing[c].wants = Mail!ListEmpty(m, b)
Comes(c, m, b) ==
  HomeOf[c] = m /\ mailBox[c] = b /\ mailDoing[c].wants # Mail!ListEmpty(m, b)
      /\ mailPc[c] \in {"Remove", "Test"}
Comers(m, b) == {c \in Client : Comes(c, m, b)}

\* NoMailForgotten, with the threads on their way to take mail named.
LEMMA ForgottenIs ==
  Mail!NoMailForgotten <=>
    \A m \in Machine, b \in Box :
      (\E c \in Client : Waits(c, m, b)) => Len(mailBoxes[m][b]) <= Cardinality(Comers(m, b))
<1> DEFINE Here(m, b) == {c \in Client : HomeOf[c] = m /\ mailBox[c] = b}
           Waiting(m, b) == {c \in Here(m, b) : mailDoing[c].wants = Mail!ListEmpty(m, b)}
           Coming(m, b) == {c \in Here(m, b) : mailPc[c] \in {"Remove", "Test"}} \ Waiting(m, b)
<1>1. \A m \in Machine, b \in Box : Coming(m, b) = Comers(m, b)
  BY Zenon DEF Comers, Comes
<1>2. \A m \in Machine, b \in Box : Waiting(m, b) # {} <=> \E c \in Client : Waits(c, m, b)
  BY DEF Waits
<1>3. Mail!NoMailForgotten <=> \A m \in Machine, b \in Box :
        Waiting(m, b) # {} => Len(mailBoxes[m][b]) <= Cardinality(Coming(m, b))
  BY SameC DEF Mail!NoMailForgotten
<1> HIDE DEF Waiting, Coming
<1> QED BY <1>1, <1>2, <1>3

\* The same of the next state.
LEMMA ForgottenNext ==
  Mail!NoMailForgotten' <=>
    \A m \in Machine, b \in Box :
      (\E c \in Client : Waits(c, m, b)') => Len(mailBoxes'[m][b]) <= Cardinality(Comers(m, b)')
<1>1. (Mail!NoMailForgotten <=>
         \A m \in Machine, b \in Box :
           (\E c \in Client : Waits(c, m, b))
               => Len(mailBoxes[m][b]) <= Cardinality(Comers(m, b)))'
  BY ForgottenIs, PTL
<1> QED BY <1>1

\* Nothing is forgotten by a step that changes no mailbox, where no client begins
\* to wait and none of those on their way leaves.
LEMMA ForgottenKept ==
  ASSUME Mail!PostOfficeAssumption, Mail!TypeOK, Mail!NoMailForgotten, UNCHANGED mailBoxes,
         \A c \in Client, m \in Machine, b \in Box :
           (Waits(c, m, b)' => Waits(c, m, b)) /\ (Comes(c, m, b) => Comes(c, m, b)')
  PROVE  Mail!NoMailForgotten'
<1>1. \A m \in Machine, b \in Box :
        Cardinality(Comers(m, b)) \in Nat /\ Cardinality(Comers(m, b)') \in Nat
        /\ Cardinality(Comers(m, b)) <= Cardinality(Comers(m, b)')
  <2> TAKE m \in Machine, b \in Box
  <2>1. Comers(m, b) \subseteq Comers(m, b)' /\ Comers(m, b)' \subseteq Client
    BY DEF Comers
  <2> QED BY <2>1, FS_Subset, FS_CardinalityType, SameF DEF Mail!PostOfficeAssumption
<1>3. \A m \in Machine, b \in Box : Len(mailBoxes[m][b]) \in Nat
  BY DEF Mail!TypeOK
<1> QED BY <1>1, <1>3, ForgottenIs, ForgottenNext

\* The places of the packets for b, and how many there are up to each.
PlacesFor(b, d) == {i \in DOMAIN d : d[i].box = b}
Rank(b, d, i) == Cardinality({j \in PlacesFor(b, d) : j <= i})

\* For, with the places and their ranks named.
LEMMA ForIs ==
  ASSUME NEW b, NEW d
  PROVE  Mail!For(b, d) = [k \in 1 .. Cardinality(PlacesFor(b, d)) |->
                        d[CHOOSE i \in PlacesFor(b, d) : Rank(b, d, i) = k]]
  BY Zenon DEF Mail!For, PlacesFor, Rank, Mail!Cardinality, Cardinality

\* Each rank is that of a place, as different places have different ranks.
LEMMA Ranked ==
  ASSUME NEW b, NEW d \in Seq(Mail!Packets)
  PROVE  /\ PlacesFor(b, d) \subseteq 1 .. Len(d) /\ IsFiniteSet(PlacesFor(b, d))
         /\ Cardinality(PlacesFor(b, d)) \in Nat
         /\ \A k \in 1 .. Cardinality(PlacesFor(b, d)) :
              \E i \in PlacesFor(b, d) : Rank(b, d, i) = k
<1> DEFINE P == PlacesFor(b, d)
           n == Cardinality(P)
           Upto(i) == {j \in P : j <= i}
           f == [i \in P |-> Rank(b, d, i)]
<1>1. P \subseteq 1 .. Len(d) /\ IsFiniteSet(P) /\ n \in Nat
  <2>1. DOMAIN d = 1 .. Len(d) /\ Len(d) \in Nat
    OBVIOUS
  <2>2. IsFiniteSet(1 .. Len(d)) /\ P \subseteq 1 .. Len(d)
    BY <2>1, FS_Interval DEF PlacesFor
  <2> QED BY <2>2, FS_Subset, FS_CardinalityType
<1> HIDE DEF P
<1>2. \A i \in P : IsFiniteSet(Upto(i)) /\ Cardinality(Upto(i)) \in 1 .. n
  <2> TAKE i \in P
  <2>1. IsFiniteSet(Upto(i)) /\ Cardinality(Upto(i)) <= n
    BY <1>1, FS_Subset
  <2>2. i \in Upto(i) /\ Cardinality(Upto(i)) \in Nat
    BY <1>1, <2>1, FS_CardinalityType
  <2> QED BY <1>1, <2>1, <2>2, FS_EmptySet
<1>3. f \in [P -> 1 .. n]
  BY <1>2 DEF Rank, P
<1>4. \A i, j \in P : i < j => f[i] # f[j]
  <2> TAKE i \in P, j \in P
  <2> SUFFICES ASSUME i < j PROVE f[i] # f[j]
    OBVIOUS
  <2>0. i \in P /\ j \in P /\ i < j /\ i \in Int /\ j \in Int /\ \A l \in P : l \in Int
    BY <1>1
  <2>1. \A l \in P : l <= i => l <= j
    BY ONLY <2>0
  <2>2. j <= j /\ ~ (j <= i)
    BY ONLY <2>0
  <2>3. Upto(i) \subseteq Upto(j) /\ j \in Upto(j) /\ j \notin Upto(i)
    BY ONLY <2>0, <2>1, <2>2, Zenon
  <2>4. Cardinality(Upto(i)) # Cardinality(Upto(j))
    BY <2>3, <1>2, FS_Subset
  <2> QED BY <2>4 DEF Rank, P
<1>5. \A i, j \in P : f[i] = f[j] => i = j
  BY <1>1, <1>4
<1>6. ASSUME NEW k \in 1 .. n, \A i \in P : f[i] # k PROVE FALSE
  <2>1. f \in [P -> (1 .. n) \ {k}]
    BY <1>3, <1>6
  <2>2. IsFiniteSet(1 .. n) /\ Cardinality(1 .. n) = n
    BY <1>1, FS_Interval
  <2>3. IsFiniteSet((1 .. n) \ {k}) /\ Cardinality((1 .. n) \ {k}) = n - 1
    BY <2>2, FS_RemoveElement
  <2> HIDE DEF f
  <2> QED BY <2>1, <2>3, <1>1, <1>5, FS_PigeonHole
<1> QED BY <1>1, <1>6 DEF P

\* A packet more for b is the last of its mail, and one for another mailbox no
\* part of it.
LEMMA ForAppend ==
  ASSUME NEW b, NEW d \in Seq(Mail!Packets), NEW p \in Mail!Packets,
      Mail!For(b, d) \in Seq(Mail!Packets)
  PROVE  Mail!For(b, Append(d, p)) = IF p.box = b THEN Append(Mail!For(b, d), p)
      ELSE Mail!For(b, d)
<1> DEFINE e == Append(d, p)
           P == PlacesFor(b, d)
           Q == PlacesFor(b, e)
           n == Cardinality(P)
<1>1. e \in Seq(Mail!Packets) /\ Len(e) = Len(d) + 1 /\ e[Len(d) + 1] = p /\ \A i \in 1 .. Len(d) : e[i] = d[i]
  OBVIOUS
<1>2. DOMAIN d = 1 .. Len(d) /\ DOMAIN e = 1 .. Len(d) + 1 /\ Len(d) \in Nat
  BY <1>1
<1>3. P \subseteq 1 .. Len(d) /\ IsFiniteSet(P) /\ n \in Nat /\ Len(d) + 1 \notin P
  BY <1>2, Ranked
<1>4. Q = IF p.box = b THEN P \cup {Len(d) + 1} ELSE P
  BY <1>1, <1>2 DEF PlacesFor
<1>5. Cardinality(Q) = IF p.box = b THEN n + 1 ELSE n
  BY <1>3, <1>4, FS_AddElement
<1> HIDE DEF e
<1>6. \A i \in P : i <= Len(d) /\ i \in Int
  BY <1>3, <1>2
<1>7. \A i \in P : Rank(b, e, i) = Rank(b, d, i)
  <2> TAKE i \in P
  <2>1. {j \in Q : j <= i} = {j \in P : j <= i}
    BY <1>2, <1>4, <1>6
  <2> QED BY <2>1 DEF Rank
<1>8. p.box = b => Rank(b, e, Len(d) + 1) = n + 1
  <2> SUFFICES ASSUME p.box = b PROVE Rank(b, e, Len(d) + 1) = n + 1
    OBVIOUS
  <2>1. {j \in Q : j <= Len(d) + 1} = Q
    BY <1>2, <1>4, <1>6
  <2> QED BY <2>1, <1>5 DEF Rank
<1> DEFINE inP(k) == CHOOSE i \in P : Rank(b, d, i) = k
           inQ(k) == CHOOSE i \in Q : Rank(b, e, i) = k
<1>9. \A k \in 1 .. n : inQ(k) = inP(k) /\ inP(k) \in P
  <2> TAKE k \in 1 .. n
  <2>1. \A i : (i \in Q /\ Rank(b, e, i) = k) <=> (i \in P /\ Rank(b, d, i) = k)
    BY <1>3, <1>4, <1>7, <1>8
  <2>2. \E i \in P : Rank(b, d, i) = k
    BY Ranked
  <2> QED BY <2>1, <2>2, Zenon
<1>10. p.box = b => inQ(n + 1) = Len(d) + 1
  <2> SUFFICES ASSUME p.box = b PROVE inQ(n + 1) = Len(d) + 1
    OBVIOUS
  <2>1. \A i \in P : Rank(b, d, i) # n + 1
    <3> TAKE i \in P
    <3>1. Rank(b, d, i) <= n
      BY <1>3, FS_Subset DEF Rank
    <3> QED BY <3>1, <1>3
  <2>2. \A i \in Q : Rank(b, e, i) = n + 1 <=> i = Len(d) + 1
    BY <2>1, <1>3, <1>4, <1>7, <1>8
  <2>3. Len(d) + 1 \in Q
    BY <1>4
  <2> QED BY <2>2, <2>3, Zenon
<1>11. /\ Mail!For(b, d) = [k \in 1 .. n |-> d[inP(k)]]
       /\ Mail!For(b, e) = [k \in 1 .. Cardinality(Q) |-> e[inQ(k)]]
  BY ForIs
<1> HIDE DEF inP, inQ, P, Q
<1> DEFINE F == Mail!For(b, d)
           G == Mail!For(b, e)
<1>12. F \in Seq(Mail!Packets) /\ Len(F) = n
  BY <1>3, <1>11
<1>13. \A k \in 1 .. n : e[inQ(k)] = d[inP(k)]
  BY <1>1, <1>3, <1>9
<1>14. CASE p.box = b
  <2>1. G = [k \in 1 .. n + 1 |-> e[inQ(k)]] /\ e[inQ(n + 1)] = p
    BY <1>14, <1>1, <1>5, <1>10, <1>11
  <2>2. \A k \in 1 .. n + 1 : e[inQ(k)] = IF k = n + 1 THEN p ELSE F[k]
    BY <2>1, <1>3, <1>11, <1>13
  <2>3. G \in Seq(Mail!Packets) /\ Len(G) = n + 1 /\ \A k \in 1 .. n + 1 : G[k] = IF k
                                                      = n + 1 THEN p ELSE F[k]
    BY <2>1, <2>2, <1>3, <1>12
  <2> HIDE DEF F, G
  <2> QED BY <2>3, <1>3, <1>12, <1>14, AppendProperties, SeqEqual DEF e, F, G
<1>15. CASE p.box # b
  <2>1. G = [k \in 1 .. n |-> e[inQ(k)]]
    BY <1>5, <1>11, <1>15
  <2> QED BY <2>1, <1>11, <1>13, <1>15 DEF e
<1> QED BY <1>14, <1>15

\* What is on its way to the mailboxes of a machine is a sequence of packets.
LEMMA TransitIs ==
  Mail!TypeOK /\ Hands =>
    \A m \in Machine : /\ Mail!Carried(m) \in Seq(Mail!Packets)
                       /\ Mail!Held(mailInbox[m]) \in Seq(Mail!Packets)
                       /\ mailWire[m] \in Seq(Mail!Packets)
                       /\ Mail!Transit(m) \in Seq(Mail!Packets)
<1> SUFFICES ASSUME Mail!TypeOK, Hands, NEW m \in Machine
             PROVE  /\ Mail!Carried(m) \in Seq(Mail!Packets)
                    /\ Mail!Held(mailInbox[m]) \in Seq(Mail!Packets)
                    /\ mailWire[m] \in Seq(Mail!Packets) /\ Mail!Transit(m) \in Seq(Mail!Packets)
  OBVIOUS
<1>1. Mail!Carried(m) \in Seq(Mail!Packets)
  BY DEF Mail!TypeOK, Hands, Mail!Carried, Mail!Held, Mail!Thread
<1>2. Mail!Held(mailInbox[m]) \in Seq(Mail!Packets) /\ mailWire[m] \in Seq(Mail!Packets)
  BY DEF Mail!TypeOK, Mail!Held
<1> QED BY <1>1, <1>2, ConcatProperties DEF Mail!Transit

\* Any way to split what was put on the wire gives what was delivered.
LEMMA SplitIs ==
  ASSUME NEW d \in Seq(Mail!Packets), NEW t \in Seq(Mail!Packets)
  PROVE  SubSeq(d \o t, 1, Len(d \o t) - Len(t)) = d
<1> DEFINE s == d \o t
<1>1. s \in Seq(Mail!Packets) /\ Len(s) = Len(d) + Len(t) /\ \A i \in 1 .. Len(d) : s[i] = d[i]
  BY ConcatProperties
<1>2. Len(s) - Len(t) = Len(d)
  BY <1>1
<1> HIDE DEF s
<1>3. SubSeq(s, 1, Len(d)) = d
  BY <1>1, SubSeqProperties, SeqEqual
<1> QED BY <1>2, <1>3 DEF s

\* The order of the mail, for any split of what was put on the wire.
LEMMA OrderIs ==
  Mail!TypeOK /\ Hands => (Order
      <=> \A m \in Machine : \E d \in Seq(Mail!Packets) : InOrder(m, d))
<1> SUFFICES ASSUME Mail!TypeOK, Hands
             PROVE  Order <=> \A m \in Machine : \E d \in Seq(Mail!Packets) : InOrder(m, d)
  OBVIOUS
<1>1. ASSUME NEW m \in Machine, NEW d \in Seq(Mail!Packets), InOrder(m, d)
      PROVE  InOrder(m, Mail!Delivered(m))
  BY <1>1, TransitIs, SplitIs DEF InOrder, Mail!Delivered
<1>2. \A m \in Machine : Mail!Delivered(m) \in Seq(Mail!Packets)
  BY TransitIs, SubSeqProperties DEF Mail!Delivered, Mail!TypeOK
<1> QED BY <1>1, <1>2 DEF Order

\* The split that the invariant gives of one machine.
LEMMA OrderAt ==
  ASSUME MailInv, NEW m \in Machine PROVE \E d \in Seq(Mail!Packets) : InOrder(m, d)
  BY OrderIs DEF MailInv

\* Such a split of each machine gives the order of the next state.
LEMMA OrderNext ==
  ASSUME Mail!TypeOK', Hands', \A m \in Machine : \E d \in Seq(Mail!Packets) : InOrder(m, d)'
  PROVE  Order'
<1>1. (Mail!TypeOK /\ Hands => (Order
    <=> \A m \in Machine : \E d \in Seq(Mail!Packets) : InOrder(m, d)))'
  BY OrderIs, PTL
<1> QED BY <1>1

\* The same of the next state.
LEMMA TransitNext ==
  (Mail!TypeOK /\ Hands =>
     \A m \in Machine : /\ Mail!Carried(m) \in Seq(Mail!Packets)
                        /\ Mail!Held(mailInbox[m]) \in Seq(Mail!Packets)
                        /\ mailWire[m] \in Seq(Mail!Packets)
                        /\ Mail!Transit(m) \in Seq(Mail!Packets))'
  BY TransitIs, PTL

\* Concatenation of packets is associative.
LEMMA Associative ==
  \A s, t, u \in Seq(Mail!Packets) : (s \o t) \o u = s \o (t \o u)
  BY ConcatAssociative

\* A packet appended to the second of two sequences.
LEMMA AppendConcat ==
  ASSUME NEW s \in Seq(Mail!Packets), NEW t \in Seq(Mail!Packets), NEW p \in Mail!Packets
  PROVE  Append(s \o t, p) = s \o Append(t, p)
<1>1. s \o t \in Seq(Mail!Packets) /\ <<p>> \in Seq(Mail!Packets)
  BY ConcatProperties
<1>2. Append(s \o t, p) = (s \o t) \o <<p>> /\ Append(t, p) = t \o <<p>>
  BY <1>1, AppendIsConcat
<1>3. (s \o t) \o <<p>> = s \o (t \o <<p>>)
  BY <1>1, ConcatAssociative
<1> QED BY <1>2, <1>3

\* The post office that Initialize makes.
LEMMA InitMail ==
  ASSUME Mail!PostOfficeAssumption PROVE Mail!Init => MailInv
<1> SUFFICES ASSUME Mail!Init PROVE MailInv
  OBVIOUS
<1>1. Mail!TypeOK
  BY Different DEF Mail!Init, Mail!TypeOK, Mail!PostOfficeAssumption, Mail!WorkerPlaces,
                   Mail!ClientPlaces, Mail!Thread
<1>2. Hands
  BY Names DEF Mail!Init, Hands, Mail!PostOfficeAssumption, Mail!WorkerPlaces, Mail!ClientPlaces,
               Mail!Thread
<1>3. DeviceState
  BY Names DEF Mail!Init, DeviceState, Mail!PostOfficeAssumption, Mail!Thread
<1>4. \A b \in Box : Mail!For(b, <<>>) = <<>>
  <2> TAKE b \in Box
  <2>1. PlacesFor(b, <<>>) = {}
    BY DEF PlacesFor
  <2>2. Cardinality(PlacesFor(b, <<>>)) = 0
    BY <2>1, FS_EmptySet
  <2>3. Mail!For(b, <<>>) \in Seq({}) /\ Len(Mail!For(b, <<>>)) = 0
    BY <2>2, ForIs
  <2> QED BY <2>3
<1>5. \A m \in Machine : InOrder(m, <<>>)
  BY <1>4 DEF Mail!Init, InOrder, Mail!Transit, Mail!Carried, Mail!Held, Mail!Thread
<1>6. Order
  <2>1. <<>> \in Seq(Mail!Packets)
    OBVIOUS
  <2> QED BY <2>1, <1>1, <1>2, <1>5, OrderIs
<1>7. \A c \in Client, m \in Machine, b \in Box : ~ Waits(c, m, b)
  BY Names, Different DEF Mail!Init, Waits, Mail!Thread
<1> QED BY <1>1, <1>2, <1>3, <1>6, <1>7, ForgottenIs DEF MailInv

\* The mail is in order still when nothing of it moves.
LEMMA OrderKept ==
  ASSUME Mail!PostOfficeAssumption, MailInv, Mail!TypeOK', Hands',
         UNCHANGED <<mailOnWire, mailGot, mailBoxes, mailInbox, mailWire>>,
         \A m \in Machine : Mail!Carried(m)' = Mail!Carried(m)
  PROVE  Order'
<1>1. \A m \in Machine : InOrder(m, Mail!Delivered(m))' /\ Mail!Delivered(m)' = Mail!Delivered(m)
  BY DEF MailInv, Order, InOrder, Mail!Transit, Mail!Delivered
<1> QED BY <1>1 DEF Order

\* A step of t that moves no mail: what it has to say is in the hypotheses.
LEMMA Quiet ==
  ASSUME Mail!PostOfficeAssumption, MailInv, Mail!TypeOK', Hands',
         NEW t \in Mail!Thread, NEW to, mailPc' = [mailPc EXCEPT ![t] = to],
         UNCHANGED <<mailOnWire, mailGot, mailBoxes, mailInbox, mailWire, mailDoing, mailPacket,
             mailBox>>,
         mailPc[t] \in {"Append", "Put"} <=> to \in {"Append", "Put"},
         mailPc[t] \in {"Remove", "Test"} => to \in {"Remove", "Test"}
  PROVE  Order' /\ Mail!NoMailForgotten'
<1>1. \A m \in Machine : Mail!Carried(m)' = Mail!Carried(m)
  BY DEF Mail!Carried, MailInv, Hands, Mail!Thread, Mail!Held
<1>2. \A c \in Client, m \in Machine, b \in Box :
        (Waits(c, m, b)' => Waits(c, m, b)) /\ (Comes(c, m, b) => Comes(c, m, b)')
  BY DEF Waits, Comes, MailInv, Hands, Mail!Thread
<1> QED BY <1>1, <1>2, OrderKept, ForgottenKept DEF MailInv

\* What a thread that acquires a lock changes.
LEMMA AcquiresIs ==
  ASSUME MailInv, NEW t \in Mail!Thread, NEW from, NEW l \in Mail!Locks, NEW to,
      Mail!Acquires(t, from, l, to)
  PROVE  /\ mailPc[t] = from /\ mailPc' = [mailPc EXCEPT ![t] = to]
         /\ mailOwner[l] = NoThread /\ mailOwner' = [mailOwner EXCEPT ![l] = t]
         /\ UNCHANGED <<mailCount, mailDoing, Mail!networkVars, mailBoxes, mailPacket, mailBox,
             mailCalls, Mail!history>>
<1>1. mailDoing' = [mailDoing EXCEPT ![t] = mailDoing[t]]
  BY DEF Mail!Acquires, Mail!At, Mail!Mon!Take, Mail!Mon!Become
<1>2. UNCHANGED mailDoing
  BY <1>1 DEF MailInv, Mail!TypeOK
<1> QED BY <1>2 DEF Mail!Acquires, Mail!At, Mail!Goto, Mail!Mon!Take

\* What a thread that releases a lock changes.
LEMMA ReleasesIs ==
  ASSUME MailInv, NEW t \in Mail!Thread, NEW from, NEW l \in Mail!Locks, NEW to,
      Mail!Releases(t, from, l, to)
  PROVE  /\ mailPc[t] = from /\ mailPc' = [mailPc EXCEPT ![t] = to]
         /\ mailOwner[l] = t /\ mailOwner' = [mailOwner EXCEPT ![l] = NoThread]
         /\ UNCHANGED <<mailCount, mailDoing, Mail!networkVars, mailBoxes, mailPacket, mailBox,
             mailCalls, Mail!history>>
  BY DEF Mail!Releases, Mail!At, Mail!Goto, Mail!Mon!Give

\* The lock of a list, of a worker or of a client.
LEMMA ListLockStep ==
  ASSUME Mail!PostOfficeAssumption, MailInv, NEW t \in Mail!Thread,
         NEW to, NEW m \in Machine, NEW b \in Box, NEW h \in Mail!Thread \cup {NoThread},
         \/ t \in Machine /\ mailPc[t] = "Append" /\ to = "Put"
         \/ t \in Client /\ mailPc[t] = "Remove" /\ to = "Test"
         \/ t \in Client /\ mailPc[t] = "RemoveDone" /\ to = "outside",
         mailPc' = [mailPc EXCEPT ![t] = to],
             mailOwner' = [mailOwner EXCEPT ![Mail!ListLock(m, b)] = h],
         mailDoing[t] = Mail!Mon!NotWaiting,
         UNCHANGED <<mailCount, mailDoing, Mail!networkVars, mailBoxes, mailPacket, mailBox,
             mailCalls, Mail!history>>
  PROVE  MailInv'
<1>1. Mail!TypeOK'
  <2>1. mailOwner' \in [Mail!Locks -> Mail!Thread \cup {NoThread}]
    BY DEF MailInv, Mail!TypeOK
  <2>2. (\A n \in Machine : mailPc'[n] \in Mail!WorkerPlaces)
      /\ (\A c \in Client : mailPc'[c] \in Mail!ClientPlaces)
    BY DEF MailInv, Mail!TypeOK, Hands, Mail!PostOfficeAssumption, Mail!WorkerPlaces,
           Mail!ClientPlaces, Mail!Thread
  <2> QED BY <2>1, <2>2 DEF MailInv, Mail!TypeOK, Mail!networkVars, Mail!history
<1>2. \A n \in Machine : mailOwner'[Mail!SendLock(n)] = mailOwner[Mail!SendLock(n)]
  BY Names DEF MailInv, Mail!TypeOK
<1>3. Hands'
  BY <1>2 DEF MailInv, Hands, Mail!Thread, Mail!WorkerPlaces, Mail!ClientPlaces,
              Mail!PostOfficeAssumption
<1>4. DeviceState'
  BY <1>2 DEF MailInv, Hands, DeviceState, Mail!Thread, Mail!PostOfficeAssumption,
              Mail!networkVars
<1>5. Order' /\ Mail!NoMailForgotten'
  BY <1>1, <1>3, Quiet DEF Mail!networkVars, Mail!history
<1> QED BY <1>1, <1>3, <1>4, <1>5 DEF MailInv

\* sendLock: the client that has it is the one inside Send.
LEMMA SendLockStep ==
  ASSUME Mail!PostOfficeAssumption, MailInv, NEW c \in Client,
         Mail!SendAcquires(c) \/ Mail!SendReturns(c)
  PROVE  MailInv'
<1> DEFINE l == Mail!SendLock(HomeOf[c])
<1>1. PICK to \in {"NetworkSend", "outside"}, h \in Mail!Thread \cup {NoThread} :
        /\ \/ mailPc[c] = "Send" /\ to = "NetworkSend" /\ mailOwner[l] = NoThread /\ h = c
           \/ mailPc[c] = "SendDone" /\ to = "outside" /\ mailOwner[l] = c /\ h = NoThread
        /\ mailPc' = [mailPc EXCEPT ![c] = to] /\ mailOwner' = [mailOwner EXCEPT ![l] = h]
        /\ UNCHANGED <<mailCount, mailDoing, Mail!networkVars, mailBoxes, mailPacket, mailBox,
            mailCalls, Mail!history>>
  <2>1. l \in Mail!Locks /\ c \in Mail!Thread
    BY Names DEF Mail!PostOfficeAssumption, Mail!Thread
  <2> HIDE DEF l
  <2>2. CASE Mail!SendAcquires(c)
    BY <2>1, <2>2, AcquiresIs DEF Mail!SendAcquires, l
  <2>3. CASE Mail!SendReturns(c)
    BY <2>1, <2>3, ReleasesIs DEF Mail!SendReturns, l
  <2> QED BY <2>2, <2>3
<1>2. \A n \in Machine : mailOwner'[Mail!SendLock(n)] = IF n = HomeOf[c] THEN h
    ELSE mailOwner[Mail!SendLock(n)]
  BY <1>1, Names DEF MailInv, Mail!TypeOK, Mail!PostOfficeAssumption
<1>3. Mail!TypeOK'
  <2>1. mailOwner' \in [Mail!Locks -> Mail!Thread \cup {NoThread}]
    BY <1>1 DEF MailInv, Mail!TypeOK
  <2>2. (\A n \in Machine : mailPc'[n] \in Mail!WorkerPlaces)
      /\ (\A d \in Client : mailPc'[d] \in Mail!ClientPlaces)
    BY <1>1 DEF MailInv, Mail!TypeOK, Hands, Mail!PostOfficeAssumption, Mail!WorkerPlaces,
                Mail!ClientPlaces, Mail!Thread
  <2> QED BY <1>1, <2>1, <2>2 DEF MailInv, Mail!TypeOK, Mail!networkVars, Mail!history
<1>4. Hands'
  BY <1>1, <1>2 DEF MailInv, Hands, Mail!Thread, Mail!WorkerPlaces, Mail!ClientPlaces,
                    Mail!PostOfficeAssumption
<1>5. DeviceState'
  BY <1>1, <1>2 DEF MailInv, Hands, DeviceState, Mail!Thread, Mail!PostOfficeAssumption,
                    Mail!networkVars
<1>6. Order' /\ Mail!NoMailForgotten'
  BY <1>1, <1>3, <1>4, Quiet DEF Mail!networkVars, Mail!history, Mail!Thread
<1> QED BY <1>3, <1>4, <1>5, <1>6 DEF MailInv

\* A call of Send makes a packet.
LEMMA CallSendStep ==
  ASSUME Mail!PostOfficeAssumption, MailInv, NEW c \in Client, Mail!CallSend(c)
  PROVE  MailInv'
<1>1. PICK p : /\ p \in Mail!Packets
               /\ mailPc[c] = "outside" /\ mailPc' = [mailPc EXCEPT ![c] = "Send"]
               /\ mailPacket' = [mailPacket EXCEPT ![c] = p]
  <2>1. PICK m \in Machine, b \in Box :
          mailPacket' = [mailPacket EXCEPT ![c] = [id |-> mailCalls["Send"] + 1, to |-> m, box |-> b]]
    BY DEF Mail!CallSend
  <2>2. mailCalls["Send"] + 1 \in 1 .. MaxSends
    <3>1. mailCalls["Send"] \in Nat /\ MaxSends \in Nat
      BY DEF MailInv, Mail!TypeOK, Mail!PostOfficeAssumption
    <3> QED BY <3>1 DEF Mail!CallSend
  <2>3. [id |-> mailCalls["Send"] + 1, to |-> m, box |-> b] \in Mail!Packets
    BY <2>2 DEF Mail!Packets
  <2> QED BY <2>1, <2>3 DEF Mail!CallSend, Mail!At, Mail!Goto
<1>2. mailCalls' \in [{"Send", "Receive"} -> Nat]
      /\ UNCHANGED <<Mail!monitorVars, Mail!networkVars, mailBoxes, mailBox, Mail!history>>
  BY DEF Mail!CallSend, MailInv, Mail!TypeOK
<1>3. Mail!TypeOK'
  <2>1. (\A n \in Machine : mailPc'[n] \in Mail!WorkerPlaces)
      /\ (\A d \in Client : mailPc'[d] \in Mail!ClientPlaces)
    BY <1>1 DEF MailInv, Mail!TypeOK, Hands, Mail!PostOfficeAssumption, Mail!WorkerPlaces,
                Mail!ClientPlaces, Mail!Thread
  <2>2. mailPacket' \in [Mail!Thread -> Mail!Packets \cup {NoPacket}]
    BY <1>1 DEF MailInv, Mail!TypeOK
  <2> QED BY <1>2, <2>1, <2>2 DEF MailInv, Mail!TypeOK, Mail!monitorVars, Mail!networkVars,
                                  Mail!history
<1>4. Hands'
  BY <1>1, <1>2 DEF MailInv, Hands, Mail!TypeOK, Mail!Thread, Mail!WorkerPlaces,
                    Mail!ClientPlaces, Mail!PostOfficeAssumption, Mail!monitorVars
<1>5. DeviceState'
  BY <1>1, <1>2 DEF MailInv, Hands, DeviceState, Mail!Thread, Mail!PostOfficeAssumption,
                    Mail!networkVars, Mail!monitorVars
<1>6. Order'
  <2>1. \A m \in Machine : Mail!Carried(m)' = Mail!Carried(m)
    BY <1>1 DEF Mail!Carried, MailInv, Mail!TypeOK, Hands, Mail!Thread,
                Mail!PostOfficeAssumption, Mail!Held
  <2> QED BY <2>1, <1>2, <1>3, <1>4, OrderKept DEF Mail!networkVars, Mail!history
<1>7. Mail!NoMailForgotten'
  <2>1. \A d \in Client, m \in Machine, b \in Box :
          (Waits(d, m, b)' => Waits(d, m, b)) /\ (Comes(d, m, b) => Comes(d, m, b)')
    BY <1>1, <1>2 DEF Waits, Comes, MailInv, Hands, Mail!Thread, Mail!monitorVars
  <2> QED BY <2>1, <1>2, ForgottenKept DEF MailInv
<1> QED BY <1>3, <1>4, <1>5, <1>6, <1>7 DEF MailInv

\* A call of Receive names a mailbox.
LEMMA CallReceiveStep ==
  ASSUME Mail!PostOfficeAssumption, MailInv, NEW c \in Client, Mail!CallReceive(c)
  PROVE  MailInv'
<1>1. PICK b \in Box : /\ mailPc[c] = "outside" /\ mailPc' = [mailPc EXCEPT ![c] = "Remove"]
                       /\ mailDoing[c] = Mail!Mon!NotWaiting
                       /\ mailBox' = [mailBox EXCEPT ![c] = b]
  BY DEF Mail!CallReceive, Mail!At, Mail!Goto
<1>2. mailCalls' \in [{"Send", "Receive"} -> Nat]
      /\ UNCHANGED <<Mail!monitorVars, Mail!networkVars, mailBoxes, mailPacket, Mail!history>>
  BY DEF Mail!CallReceive, MailInv, Mail!TypeOK
<1>3. Mail!TypeOK'
  <2>1. (\A n \in Machine : mailPc'[n] \in Mail!WorkerPlaces)
      /\ (\A d \in Client : mailPc'[d] \in Mail!ClientPlaces)
    BY <1>1 DEF MailInv, Mail!TypeOK, Hands, Mail!PostOfficeAssumption, Mail!WorkerPlaces,
                Mail!ClientPlaces, Mail!Thread
  <2>2. mailBox' \in [Client -> Box]
    BY <1>1 DEF MailInv, Mail!TypeOK
  <2> QED BY <1>2, <2>1, <2>2 DEF MailInv, Mail!TypeOK, Mail!monitorVars, Mail!networkVars,
                                  Mail!history
<1>4. Hands'
  <2>1. /\ c \notin Machine /\ UNCHANGED <<mailDoing, mailOwner, mailPacket>>
        /\ \A t \in Mail!Thread : mailPc'[t] = IF t = c THEN "Remove" ELSE mailPc[t]
        /\ \A d \in Client : d # c => mailBox'[d] = mailBox[d]
    <3>1. c \notin Machine
      BY DEF Mail!PostOfficeAssumption
    <3>2. mailPc \in [Mail!Thread -> Mail!WorkerPlaces \cup Mail!ClientPlaces]
      BY DEF MailInv, Hands
    <3>3. \A t \in Mail!Thread : mailPc'[t] = IF t = c THEN "Remove" ELSE mailPc[t]
      BY <1>1, <3>2
    <3>4. mailBox \in [Client -> Box]
      BY DEF MailInv, Mail!TypeOK
    <3>5. \A d \in Client : d # c => mailBox'[d] = mailBox[d]
      BY <1>1, <3>4
    <3>6. UNCHANGED <<mailDoing, mailOwner, mailPacket>>
      BY <1>2 DEF Mail!monitorVars
    <3> QED BY <3>1, <3>3, <3>5, <3>6
  <2>2. mailPc' \in [Mail!Thread -> Mail!WorkerPlaces \cup Mail!ClientPlaces]
    BY <1>1 DEF MailInv, Hands, Mail!ClientPlaces
  <2>3. \A m \in Machine :
          /\ mailDoing'[m] = Mail!Mon!NotWaiting
          /\ mailPc'[m] # "PostalDelivery" => mailPacket'[m] \in Mail!Packets
    BY <2>1 DEF MailInv, Hands, Mail!Thread
  <2>4. ASSUME NEW d \in Client
        PROVE  /\ \/ mailDoing'[d] = Mail!Mon!NotWaiting
                  \/ /\ mailPc'[d] = "Test"
                     /\ mailDoing'[d] \in
                          {Mail!Mon!Wants(Mail!ListLock(HomeOf[d], mailBox'[d])),
                           Mail!Mon!WaitsOn(Mail!ListEmpty(HomeOf[d], mailBox'[d]),
                                            Mail!ListLock(HomeOf[d], mailBox'[d]))}
               /\ mailPc'[d] \in {"NetworkSend", "P", "SendDone"}
                    <=> mailOwner'[Mail!SendLock(HomeOf[d])] = d
               /\ mailPc'[d] \in {"Send", "NetworkSend"} => mailPacket'[d] \in Mail!Packets
    <3>1. CASE d = c
      BY <3>1, <1>1, <2>1 DEF MailInv, Hands, Mail!Thread
    <3>2. CASE d # c
      BY <3>2, <2>1 DEF MailInv, Hands, Mail!Thread
    <3> QED BY <3>1, <3>2
  <2> QED BY <2>2, <2>3, <2>4 DEF Hands
<1>5. DeviceState'
  BY <1>1, <1>2 DEF MailInv, Hands, DeviceState, Mail!Thread, Mail!PostOfficeAssumption,
                    Mail!networkVars, Mail!monitorVars
<1>6. Order'
  <2>1. \A m \in Machine : Mail!Carried(m)' = Mail!Carried(m)
    BY <1>1, <1>2 DEF Mail!Carried, MailInv, Mail!TypeOK, Hands, Mail!Thread,
                      Mail!PostOfficeAssumption, Mail!Held
  <2> QED BY <2>1, <1>2, <1>3, <1>4, OrderKept DEF Mail!networkVars, Mail!history
<1>7. Mail!NoMailForgotten'
  <2>1. \A d \in Client, m \in Machine, n \in Box :
          (Waits(d, m, n)' => Waits(d, m, n)) /\ (Comes(d, m, n) => Comes(d, m, n)')
    <3> TAKE d \in Client, m \in Machine, n \in Box
    <3>1. CASE d = c
      <4>1. mailDoing'[c].wants # Mail!ListEmpty(m, n)
        BY <1>1, <1>2, Names, Different DEF Mail!monitorVars
      <4> QED BY <3>1, <4>1, <1>1 DEF Waits, Comes
    <3>2. CASE d # c
      BY <3>2, <1>1, <1>2 DEF Waits, Comes, MailInv, Mail!TypeOK, Hands, Mail!Thread,
                              Mail!monitorVars
    <3> QED BY <3>1, <3>2
  <2> QED BY <2>1, <1>2, ForgottenKept DEF MailInv
<1> QED BY <1>3, <1>4, <1>5, <1>6, <1>7 DEF MailInv

\* A packet is lost, or the last on the wire.
LEMMA NetworkSendStep ==
  ASSUME Mail!PostOfficeAssumption, MailInv, NEW c \in Client, NEW lost \in BOOLEAN,
         Mail!NetworkSend(c, lost)
  PROVE  MailInv'
<1> DEFINE m == HomeOf[c]
           p == mailPacket[c]
<1>1. /\ mailPc[c] = "NetworkSend" /\ mailPc' = [mailPc EXCEPT ![c] = "P"]
      /\ mailSending' = [mailSending EXCEPT ![m] = @ + 1]
      /\ UNCHANGED <<Mail!monitorVars, mailInbox, mailBoxes, mailPacket, mailBox, mailCalls,
          mailGot>>
  BY DEF Mail!NetworkSend, Mail!At, Mail!Goto
<1>2. p \in Mail!Packets /\ p.to \in Machine /\ m \in Machine /\ mailOwner[Mail!SendLock(m)] = c
  BY <1>1 DEF MailInv, Hands, Mail!Packets, Mail!PostOfficeAssumption
<1>3. \/ UNCHANGED <<mailWire, mailOnWire>>
      \/ /\ mailWire' = [mailWire EXCEPT ![p.to] = Append(mailWire[p.to], p)]
         /\ mailOnWire' = [mailOnWire EXCEPT ![p.to] = Append(mailOnWire[p.to], p)]
  BY DEF Mail!NetworkSend
<1> HIDE DEF p, m
<1>4. Mail!TypeOK'
  <2>1. (\A n \in Machine : mailPc'[n] \in Mail!WorkerPlaces)
      /\ (\A d \in Client : mailPc'[d] \in Mail!ClientPlaces)
    BY <1>1 DEF MailInv, Mail!TypeOK, Hands, Mail!PostOfficeAssumption, Mail!WorkerPlaces,
                Mail!ClientPlaces, Mail!Thread
  <2>2. mailWire' \in [Machine -> Seq(Mail!Packets)]
      /\ mailOnWire' \in [Machine -> Seq(Mail!Packets)]
    <3>1. /\ mailWire \in [Machine -> Seq(Mail!Packets)]
          /\ mailOnWire \in [Machine -> Seq(Mail!Packets)]
      BY DEF MailInv, Mail!TypeOK
    <3>2. Append(mailWire[p.to], p) \in Seq(Mail!Packets)
        /\ Append(mailOnWire[p.to], p) \in Seq(Mail!Packets)
      BY <3>1, <1>2, AppendProperties
    <3> QED BY <3>1, <3>2, <1>2, <1>3
  <2>3. mailSending' \in [Machine -> Nat]
    BY <1>1, <1>2 DEF MailInv, Mail!TypeOK
  <2> QED BY <1>1, <2>1, <2>2, <2>3 DEF MailInv, Mail!TypeOK, Mail!monitorVars
<1>5. Hands'
  BY <1>1 DEF MailInv, Hands, Mail!Thread, Mail!WorkerPlaces, Mail!ClientPlaces,
              Mail!PostOfficeAssumption, Mail!monitorVars
<1>6. DeviceState'
  <2>1. mailSending[m] + mailCount[Mail!Sent(m)] = 0
    BY <1>1, <1>2 DEF MailInv, DeviceState
  <2>2. mailSending'[m] = 1 /\ mailCount[Mail!Sent(m)] = 0
    BY <2>1, <1>1, <1>2, Names DEF MailInv, Mail!TypeOK
  <2>3. \A n \in Machine : n # m => mailSending'[n] = mailSending[n]
    BY <1>1 DEF MailInv, Mail!TypeOK
  <2>4. \A d \in Client : d # c => mailPc'[d] = mailPc[d]
    BY <1>1 DEF MailInv, Hands
  <2>5. mailPc'[c] = "P"
    BY <1>1 DEF MailInv, Hands, Mail!Thread
  <2>6. \A d \in Client : HomeOf[d] \in Machine
    BY DEF Mail!PostOfficeAssumption
  <2>7. HomeOf[c] = m
    BY DEF m
  <2> QED BY <1>1, <1>2, <2>1, <2>2, <2>3, <2>4, <2>5, <2>6, <2>7 DEF MailInv, DeviceState,
         Mail!monitorVars
<1>7. Order'
  <2>1. \A n \in Machine : Mail!Carried(n)' = Mail!Carried(n)
    BY <1>1 DEF Mail!Carried, MailInv, Hands, Mail!Thread, Mail!PostOfficeAssumption, Mail!Held
  <2>2. ASSUME NEW n \in Machine PROVE \E d \in Seq(Mail!Packets) : InOrder(n, d)'
    <3>1. PICK d \in Seq(Mail!Packets) : InOrder(n, d)
      BY OrderAt
    <3>2. CASE mailWire'[n] = mailWire[n] /\ mailOnWire'[n] = mailOnWire[n]
      BY <3>1, <3>2, <2>1, <1>1 DEF InOrder, Mail!Transit
    <3>3. CASE mailWire'[n] = Append(mailWire[n], p) /\ mailOnWire'[n] = Append(mailOnWire[n], p)
      <4>1. /\ Mail!Carried(n) \in Seq(Mail!Packets)
            /\ Mail!Held(mailInbox[n]) \in Seq(Mail!Packets)
            /\ mailWire[n] \in Seq(Mail!Packets) /\ Mail!Transit(n) \in Seq(Mail!Packets)
            /\ (Mail!Carried(n) \o Mail!Held(mailInbox[n])) \in Seq(Mail!Packets)
        BY TransitIs, ConcatProperties DEF MailInv
      <4>2. Mail!Transit(n)' = Append(Mail!Transit(n), p)
        <5>1. Append((Mail!Carried(n) \o Mail!Held(mailInbox[n])) \o mailWire[n], p)
                = (Mail!Carried(n) \o Mail!Held(mailInbox[n])) \o Append(mailWire[n], p)
          BY <4>1, <1>2, AppendConcat
        <5> QED BY <5>1, <3>3, <2>1, <1>1 DEF Mail!Transit
      <4>3. mailOnWire'[n] = d \o Append(Mail!Transit(n), p)
        <5>1. Append(d \o Mail!Transit(n), p) = d \o Append(Mail!Transit(n), p)
          BY <4>1, <1>2, AppendConcat
        <5> QED BY <5>1, <3>1, <3>3 DEF InOrder
      <4> QED BY <3>1, <4>2, <4>3, <1>1 DEF InOrder
    <3> QED BY <1>2, <1>3, <3>2, <3>3 DEF MailInv, Mail!TypeOK
  <2> QED BY <2>2, <1>4, <1>5, OrderNext
<1>8. Mail!NoMailForgotten'
  <2>1. \A d \in Client, n \in Machine, b \in Box :
          (Waits(d, n, b)' => Waits(d, n, b)) /\ (Comes(d, n, b) => Comes(d, n, b)')
    BY <1>1 DEF Waits, Comes, MailInv, Hands, Mail!Thread, Mail!monitorVars
  <2> QED BY <2>1, <1>1, ForgottenKept DEF MailInv
<1> QED BY <1>4, <1>5, <1>6, <1>7, <1>8 DEF MailInv

\* The completion interrupt becomes a unit of messageSent.
LEMMA SendDoneStep ==
  ASSUME Mail!PostOfficeAssumption, MailInv, NEW m \in Machine, Mail!SendDone(m)
  PROVE  MailInv'
<1>1. /\ mailSending[m] > 0 /\ mailSending' = [mailSending EXCEPT ![m] = @ - 1]
      /\ mailCount' = [mailCount EXCEPT ![Mail!Sent(m)] = @ + 1]
      /\ UNCHANGED <<mailOwner, mailDoing, mailWire, mailInbox, mailBoxes, Mail!threadVars,
          Mail!history>>
  BY DEF Mail!SendDone, Mail!Mon!Up
<1>2. mailSending[m] = 1 /\ mailCount[Mail!Sent(m)] = 0
  <2>1. mailSending[m] \in Nat /\ mailCount[Mail!Sent(m)] \in {0, 1}
    BY Names DEF MailInv, Mail!TypeOK
  <2>2. mailSending[m] + mailCount[Mail!Sent(m)] \in {0, 1}
    BY DEF MailInv, DeviceState
  <2> QED BY <1>1, <2>1, <2>2
<1>3. mailSending'[m] = 0 /\ mailCount'[Mail!Sent(m)] = 1 /\ \A n \in Machine : n # m
                                                              => mailSending'[n] = mailSending[n]
  BY <1>1, <1>2, Names DEF MailInv, Mail!TypeOK
<1>4. /\ \A n \in Machine : mailCount'[Mail!Available(n)] = mailCount[Mail!Available(n)]
      /\ \A n \in Machine : n # m => mailCount'[Mail!Sent(n)] = mailCount[Mail!Sent(n)]
  BY <1>1, Names DEF MailInv, Mail!TypeOK
<1>5. Mail!TypeOK'
  <2>1. mailCount' \in [Mail!Sems -> {0, 1}]
    BY <1>1, <1>2, Names DEF MailInv, Mail!TypeOK
  <2>2. mailSending' \in [Machine -> Nat]
    BY <1>1, <1>2 DEF MailInv, Mail!TypeOK
  <2> QED BY <1>1, <2>1, <2>2 DEF MailInv, Mail!TypeOK, Mail!threadVars, Mail!history
<1>6. Hands'
  BY <1>1 DEF MailInv, Hands, Mail!threadVars
<1>7. DeviceState'
  BY <1>1, <1>2, <1>3, <1>4 DEF MailInv, DeviceState, Mail!threadVars
<1>8. Order'
  <2>1. \A n \in Machine : Mail!Carried(n)' = Mail!Carried(n)
    BY <1>1 DEF Mail!Carried, Mail!Held, Mail!threadVars
  <2> QED BY <2>1, <1>1, <1>5, <1>6, OrderKept DEF Mail!history
<1>9. Mail!NoMailForgotten'
  <2>1. \A d \in Client, n \in Machine, b \in Box :
          (Waits(d, n, b)' => Waits(d, n, b)) /\ (Comes(d, n, b) => Comes(d, n, b)')
    BY <1>1 DEF Waits, Comes, Mail!threadVars
  <2> QED BY <2>1, <1>1, ForgottenKept DEF MailInv
<1> QED BY <1>5, <1>6, <1>7, <1>8, <1>9 DEF MailInv

\* The client inside Send takes it.
LEMMA WaitsForSentStep ==
  ASSUME Mail!PostOfficeAssumption, MailInv, NEW c \in Client, Mail!WaitsForSent(c)
  PROVE  MailInv'
<1> DEFINE m == HomeOf[c]
<1>0. m \in Machine /\ c \in Mail!Thread
  BY DEF Mail!PostOfficeAssumption, Mail!Thread
<1>1. /\ mailPc[c] = "P" /\ mailPc' = [mailPc EXCEPT ![c] = "SendDone"]
      /\ mailCount[Mail!Sent(m)] > 0 /\ mailCount' = [mailCount EXCEPT ![Mail!Sent(m)] = @ - 1]
      /\ mailDoing' = [mailDoing EXCEPT ![c] = Mail!Mon!NotWaiting]
      /\ UNCHANGED <<mailOwner, Mail!networkVars, mailBoxes, mailPacket, mailBox, mailCalls,
          Mail!history>>
  BY DEF Mail!WaitsForSent, Mail!At, Mail!Goto, Mail!Mon!Down, Mail!Mon!Become
<1>2. mailDoing' = mailDoing
  BY <1>1 DEF Mail!WaitsForSent, Mail!At, MailInv, Mail!TypeOK
<1>3. mailSending[m] = 0 /\ mailCount[Mail!Sent(m)] = 1 /\ mailOwner[Mail!SendLock(m)] = c
  <2>1. mailSending[m] \in Nat /\ mailCount[Mail!Sent(m)] \in {0, 1}
    BY <1>0, Names DEF MailInv, Mail!TypeOK
  <2>2. mailSending[m] + mailCount[Mail!Sent(m)] \in {0, 1}
    BY <1>0 DEF MailInv, DeviceState
  <2>3. mailOwner[Mail!SendLock(m)] = c
    BY <1>1 DEF MailInv, Hands
  <2> QED BY <1>1, <2>1, <2>2, <2>3
<1>4. mailCount'[Mail!Sent(m)] = 0
  BY <1>0, <1>1, <1>3, Names DEF MailInv, Mail!TypeOK
<1>5. /\ \A n \in Machine : mailCount'[Mail!Available(n)] = mailCount[Mail!Available(n)]
      /\ \A n \in Machine : n # m => mailCount'[Mail!Sent(n)] = mailCount[Mail!Sent(n)]
  BY <1>0, <1>1, Names DEF MailInv, Mail!TypeOK
<1>6. \A t \in Mail!Thread : mailPc'[t] = IF t = c THEN "SendDone" ELSE mailPc[t]
  BY <1>1 DEF MailInv, Hands
<1>7. Mail!TypeOK'
  <2>1. mailCount' \in [Mail!Sems -> {0, 1}]
    BY <1>0, <1>1, <1>3, Names DEF MailInv, Mail!TypeOK
  <2>2. (\A n \in Machine : mailPc'[n] \in Mail!WorkerPlaces)
      /\ (\A d \in Client : mailPc'[d] \in Mail!ClientPlaces)
    BY <1>6 DEF MailInv, Mail!TypeOK, Mail!PostOfficeAssumption, Mail!WorkerPlaces,
                Mail!ClientPlaces, Mail!Thread
  <2> QED BY <1>1, <1>2, <2>1, <2>2 DEF MailInv, Mail!TypeOK, Mail!networkVars, Mail!history
<1> HIDE DEF m
<1>8. Hands'
  BY <1>1, <1>2, <1>6 DEF MailInv, Hands, Mail!Thread, Mail!WorkerPlaces, Mail!ClientPlaces,
                          Mail!PostOfficeAssumption
<1>9. DeviceState'
  <2>1. \A d \in Client : d # c /\ HomeOf[d] = m => mailPc[d] # "P"
    BY <1>3 DEF MailInv, Hands
  <2>2. \A n \in Machine : n # m => mailOwner[Mail!SendLock(n)] # c
      \/ HomeOf[mailOwner[Mail!SendLock(n)]] # n
    BY DEF m
  <2>3. \A d \in Client : d # c => mailPc'[d] = mailPc[d] /\ mailPc'[c] # "P"
    BY <1>6 DEF Mail!Thread
  <2>4. mailSending' = mailSending /\ mailInbox' = mailInbox /\ mailOwner' = mailOwner
    BY <1>1 DEF Mail!networkVars
  <2>5. \A d \in Client : HomeOf[d] = m => mailPc'[d] # "P"
    BY <2>1, <2>3, <1>6, <1>0
  <2>6. ASSUME NEW n \in Machine, n # m
        PROVE  /\ mailSending'[n] + mailCount'[Mail!Sent(n)]
                   = mailSending[n] + mailCount[Mail!Sent(n)]
               /\ \A d \in Client : HomeOf[d] = n => mailPc'[d] = mailPc[d]
    BY <2>6, <2>3, <2>4, <1>5 DEF m
  <2>7. ASSUME NEW n \in Machine, n # m, mailOwner[Mail!SendLock(n)] \in Client,
               HomeOf[mailOwner[Mail!SendLock(n)]] = n
        PROVE  mailPc'[mailOwner[Mail!SendLock(n)]] = mailPc[mailOwner[Mail!SendLock(n)]]
    BY <2>6, <2>7
  <2>8. \A n \in Machine : mailCount'[Mail!Available(n)] = mailCount[Mail!Available(n)]
    BY <1>5
  <2>9. mailSending'[m] + mailCount'[Mail!Sent(m)] = 0
    BY <1>3, <1>4, <2>4
  <2> QED BY <2>4, <2>5, <2>6, <2>7, <2>8, <2>9 DEF MailInv, DeviceState
<1>10. Order' /\ Mail!NoMailForgotten'
  BY <1>0, <1>1, <1>2, <1>7, <1>8, Quiet DEF Mail!networkVars, Mail!history
<1> QED BY <1>7, <1>8, <1>9, <1>10 DEF MailInv

\* The end of Wait.
LEMMA WaitReturnsStep ==
  ASSUME Mail!PostOfficeAssumption, MailInv, NEW c \in Client, Mail!WaitReturns(c)
  PROVE  MailInv'
<1> DEFINE l == Mail!ListLock(HomeOf[c], mailBox[c])
<1>0. l \in Mail!Locks /\ c \in Mail!Thread
  BY Names DEF MailInv, Mail!TypeOK, Mail!PostOfficeAssumption, Mail!Thread
<1>1. /\ mailDoing[c] = Mail!Mon!Wants(l) /\ mailDoing'
          = [mailDoing EXCEPT ![c] = Mail!Mon!NotWaiting]
      /\ mailOwner' = [mailOwner EXCEPT ![l] = c]
      /\ UNCHANGED <<mailCount, Mail!networkVars, mailBoxes, Mail!threadVars, Mail!history>>
  BY DEF Mail!WaitReturns, Mail!Mon!Take, Mail!Mon!Become
<1>2. \A n \in Machine : mailOwner'[Mail!SendLock(n)] = mailOwner[Mail!SendLock(n)]
  BY <1>1, Names DEF MailInv, Mail!TypeOK, Mail!PostOfficeAssumption
<1>3. \A t \in Mail!Thread : mailDoing'[t] = IF t = c THEN Mail!Mon!NotWaiting ELSE mailDoing[t]
  BY <1>1 DEF MailInv, Mail!TypeOK
<1>4. Mail!TypeOK'
  <2>1. mailOwner' \in [Mail!Locks -> Mail!Thread \cup {NoThread}]
    BY <1>0, <1>1 DEF MailInv, Mail!TypeOK
  <2>2. mailDoing' \in [Mail!Thread -> Mail!Mon!Activities]
    BY <1>0, <1>1, Different DEF MailInv, Mail!TypeOK
  <2> QED BY <1>1, <2>1, <2>2 DEF MailInv, Mail!TypeOK, Mail!networkVars, Mail!threadVars,
                                  Mail!history
<1>5. Hands'
  BY <1>1, <1>2, <1>3 DEF MailInv, Hands, Mail!threadVars, Mail!Thread, Mail!PostOfficeAssumption
<1>6. DeviceState'
  BY <1>1, <1>2 DEF MailInv, DeviceState, Mail!threadVars, Mail!networkVars
<1>7. Order'
  <2>1. \A n \in Machine : Mail!Carried(n)' = Mail!Carried(n)
    BY <1>1 DEF Mail!Carried, Mail!Held, Mail!threadVars
  <2> QED BY <2>1, <1>1, <1>4, <1>5, OrderKept DEF Mail!history, Mail!networkVars
<1>8. Mail!NoMailForgotten'
  <2>1. \A n \in Machine, b \in Box : Mail!Mon!Wants(l).wants # Mail!ListEmpty(n, b)
      /\ Mail!Mon!NotWaiting.wants # Mail!ListEmpty(n, b)
    BY <1>0, Names, Different
  <2>2. \A d \in Client, n \in Machine, b \in Box :
          (Waits(d, n, b)' => Waits(d, n, b)) /\ (Comes(d, n, b) => Comes(d, n, b)')
    BY <1>1, <1>3, <2>1 DEF Waits, Comes, Mail!threadVars, Mail!Thread
  <2> QED BY <2>2, <1>1, ForgottenKept DEF MailInv
<1> QED BY <1>4, <1>5, <1>6, <1>7, <1>8 DEF MailInv

\* A client begins to wait at an empty mailbox.
LEMMA RemoveWaitsStep ==
  ASSUME Mail!PostOfficeAssumption, MailInv, NEW c \in Client, Mail!RemoveWaits(c)
  PROVE  MailInv'
<1> DEFINE m == HomeOf[c]
           b == mailBox[c]
           l == Mail!ListLock(m, b)
           e == Mail!ListEmpty(m, b)
<1>0. l \in Mail!Locks /\ e \in Mail!Conds /\ c \in Mail!Thread /\ m \in Machine /\ b \in Box
  BY Names DEF MailInv, Mail!TypeOK, Mail!PostOfficeAssumption, Mail!Thread
<1>1. /\ mailPc[c] = "Test" /\ mailBoxes[m][b] = <<>>
      /\ mailDoing[c] = Mail!Mon!NotWaiting /\ mailDoing'
          = [mailDoing EXCEPT ![c] = Mail!Mon!WaitsOn(e, l)]
      /\ mailOwner' = [mailOwner EXCEPT ![l] = NoThread]
      /\ UNCHANGED <<mailCount, Mail!networkVars, mailBoxes, Mail!threadVars, Mail!history>>
  BY DEF Mail!RemoveWaits, Mail!At, Mail!Mon!Wait, Mail!Mon!Become
<1>2. \A n \in Machine : mailOwner'[Mail!SendLock(n)] = mailOwner[Mail!SendLock(n)]
  BY <1>0, <1>1, Names DEF MailInv, Mail!TypeOK
<1>3. \A t \in Mail!Thread : mailDoing'[t] = IF t = c THEN Mail!Mon!WaitsOn(e, l)
    ELSE mailDoing[t]
  BY <1>1 DEF MailInv, Mail!TypeOK
<1>4. Mail!TypeOK'
  <2>1. mailOwner' \in [Mail!Locks -> Mail!Thread \cup {NoThread}]
    BY <1>0, <1>1 DEF MailInv, Mail!TypeOK
  <2>2. mailDoing' \in [Mail!Thread -> Mail!Mon!Activities]
    BY <1>0, <1>1, Different DEF MailInv, Mail!TypeOK
  <2> QED BY <1>1, <2>1, <2>2 DEF MailInv, Mail!TypeOK, Mail!networkVars, Mail!threadVars,
                                  Mail!history
<1>5. Hands'
  BY <1>1, <1>2, <1>3 DEF MailInv, Hands, Mail!threadVars, Mail!Thread, Mail!PostOfficeAssumption
<1>6. DeviceState'
  BY <1>1, <1>2 DEF MailInv, DeviceState, Mail!threadVars, Mail!networkVars
<1>7. Order'
  <2>1. \A n \in Machine : Mail!Carried(n)' = Mail!Carried(n)
    BY <1>1 DEF Mail!Carried, Mail!Held, Mail!threadVars
  <2> QED BY <2>1, <1>1, <1>4, <1>5, OrderKept DEF Mail!history, Mail!networkVars
<1>8. Mail!NoMailForgotten'
  <2>1. Mail!Mon!WaitsOn(e, l).wants = e
    BY <1>0, Different
  <2>2. \A n \in Machine, k \in Box : n # m \/ k # b =>
          /\ \A d \in Client : /\ Waits(d, n, k)' => Waits(d, n, k)
                               /\ Comes(d, n, k) <=> Comes(d, n, k)'
    BY <1>0, <1>1, <1>3, <2>1, Names DEF Waits, Comes, Mail!threadVars, Mail!Thread
  <2>3. \A n \in Machine, k \in Box : n # m \/ k # b => Comers(n, k)' = Comers(n, k)
    BY <2>2 DEF Comers
  <2>4. Len(mailBoxes[m][b]) = 0 /\ mailBoxes' = mailBoxes
    BY <1>1
  <2>5. ASSUME NEW n \in Machine, NEW k \in Box, \E d \in Client : Waits(d, n, k)'
        PROVE  Len(mailBoxes'[n][k]) <= Cardinality(Comers(n, k)')
    <3>1. CASE n = m /\ k = b
      <4>1. Comers(n, k)' \subseteq Client
        BY DEF Comers
      <4>2. Cardinality(Comers(n, k)') \in Nat
        BY <4>1, FS_Subset, FS_CardinalityType, SameF DEF Mail!PostOfficeAssumption
      <4>3. Len(mailBoxes'[n][k]) = 0
        BY <3>1, <2>4
      <4> QED BY <4>2, <4>3
    <3>2. CASE n # m \/ k # b
      <4>1. \E d \in Client : Waits(d, n, k)
        BY <3>2, <2>2, <2>5
      <4>2. Len(mailBoxes[n][k]) <= Cardinality(Comers(n, k))
        BY <4>1, ForgottenIs DEF MailInv
      <4>3. Comers(n, k)' = Comers(n, k) /\ mailBoxes' = mailBoxes
        BY <3>2, <1>1, <2>3
      <4> QED BY <4>2, <4>3
    <3> QED BY <3>1, <3>2
  <2> QED BY <2>5, ForgottenNext
<1> QED BY <1>4, <1>5, <1>6, <1>7, <1>8 DEF MailInv

\* A packet moves from the wire to the empty buffer, and is announced.
LEMMA CheckPktAvailStep ==
  ASSUME Mail!PostOfficeAssumption, MailInv, NEW m \in Machine, Mail!CheckPktAvail(m)
  PROVE  MailInv'
<1> DEFINE p == Head(mailWire[m])
<1>1. /\ mailInbox[m] = NoPacket /\ mailWire[m] # <<>>
      /\ mailInbox' = [mailInbox EXCEPT ![m] = p]
      /\ mailWire' = [mailWire EXCEPT ![m] = Tail(@)]
      /\ mailCount' = [mailCount EXCEPT ![Mail!Available(m)] = @ + 1]
      /\ UNCHANGED <<mailOwner, mailDoing, mailSending, mailBoxes, Mail!threadVars, Mail!history>>
  BY DEF Mail!CheckPktAvail, Mail!Mon!Up
<1>2. mailWire[m] \in Seq(Mail!Packets) /\ p \in Mail!Packets
    /\ Tail(mailWire[m]) \in Seq(Mail!Packets)
      /\ mailWire[m] = <<p>> \o Tail(mailWire[m])
  BY <1>1, HeadTailProperties DEF MailInv, Mail!TypeOK
<1>3. p # NoPacket
  BY <1>2 DEF Mail!PostOfficeAssumption, Mail!Packets
<1> HIDE DEF p
<1>4. mailCount[Mail!Available(m)] = 0 /\ mailCount'[Mail!Available(m)] = 1
  BY <1>1, Names DEF MailInv, DeviceState, Mail!TypeOK
<1>5. /\ \A n \in Machine : mailCount'[Mail!Sent(n)] = mailCount[Mail!Sent(n)]
      /\ \A n \in Machine : n # m => mailCount'[Mail!Available(n)]
          = mailCount[Mail!Available(n)] /\ mailInbox'[n] = mailInbox[n]
                                     /\ mailWire'[n] = mailWire[n]
      /\ mailInbox'[m] = p /\ mailWire'[m] = Tail(mailWire[m])
  BY <1>1, Names DEF MailInv, Mail!TypeOK
<1>6. Mail!TypeOK'
  <2>1. mailCount' \in [Mail!Sems -> {0, 1}]
    BY <1>1, <1>4, Names DEF MailInv, Mail!TypeOK
  <2>2. mailInbox' \in [Machine -> Mail!Packets \cup {NoPacket}]
      /\ mailWire' \in [Machine -> Seq(Mail!Packets)]
    BY <1>1, <1>2 DEF MailInv, Mail!TypeOK
  <2> QED BY <1>1, <2>1, <2>2 DEF MailInv, Mail!TypeOK, Mail!threadVars, Mail!history
<1>7. Hands'
  BY <1>1 DEF MailInv, Hands, Mail!threadVars
<1>8. DeviceState'
  <2>1. \A n \in Machine : mailCount'[Mail!Available(n)] = IF mailInbox'[n] = NoPacket
      THEN 0 ELSE 1
    BY <1>3, <1>4, <1>5 DEF MailInv, DeviceState
  <2> QED BY <2>1, <1>1, <1>5 DEF MailInv, DeviceState, Mail!threadVars
<1>9. Order'
  <2>1. \A n \in Machine : Mail!Carried(n)' = Mail!Carried(n)
    BY <1>1 DEF Mail!Carried, Mail!Held, Mail!threadVars
  <2>2. Mail!Transit(m)' = Mail!Transit(m)
    <3>1. Mail!Held(mailInbox[m]) = <<>> /\ Mail!Held(mailInbox'[m]) = <<p>>
      BY <1>1, <1>3, <1>5 DEF Mail!Held
    <3>2. Mail!Carried(m) \in Seq(Mail!Packets) /\ <<p>> \in Seq(Mail!Packets)
      BY TransitIs, <1>2 DEF MailInv
    <3>3. (Mail!Carried(m) \o <<p>>) \o Tail(mailWire[m])
        = Mail!Carried(m) \o (<<p>> \o Tail(mailWire[m]))
      BY <3>2, <1>2, Associative
    <3>4. Mail!Carried(m) \o <<>> = Mail!Carried(m)
      BY <3>2, ConcatEmptySeq
    <3>5. Mail!Held(mailInbox[m])' = <<p>>
      BY <3>1 DEF Mail!Held
    <3> QED BY <3>1, <3>3, <3>4, <3>5, <2>1, <1>2, <1>5 DEF Mail!Transit
  <2>3. \A n \in Machine : n # m => Mail!Transit(n)' = Mail!Transit(n)
    BY <2>1, <1>5 DEF Mail!Transit, Mail!Held
  <2>4. ASSUME NEW n \in Machine PROVE \E d \in Seq(Mail!Packets) : InOrder(n, d)'
    <3>1. PICK d \in Seq(Mail!Packets) : InOrder(n, d)
      BY OrderAt
    <3>2. Mail!Transit(n)' = Mail!Transit(n)
      BY <2>2, <2>3
    <3>3. UNCHANGED <<mailOnWire, mailBoxes, mailGot>>
      BY <1>1 DEF Mail!history
    <3>4. InOrder(n, d)'
      BY <3>1, <3>2, <3>3 DEF InOrder
    <3> QED BY <3>4
  <2> QED BY <2>4, <1>6, <1>7, OrderNext
<1>10. Mail!NoMailForgotten'
  <2>1. \A d \in Client, n \in Machine, b \in Box :
          (Waits(d, n, b)' => Waits(d, n, b)) /\ (Comes(d, n, b) => Comes(d, n, b)')
    BY <1>1 DEF Waits, Comes, Mail!threadVars
  <2> QED BY <2>1, <1>1, ForgottenKept DEF MailInv
<1> QED BY <1>6, <1>7, <1>8, <1>9, <1>10 DEF MailInv

\* The worker takes the announced packet from the buffer.
LEMMA PostalDeliveryStep ==
  ASSUME Mail!PostOfficeAssumption, MailInv, NEW m \in Machine, Mail!PostalDelivery(m)
  PROVE  MailInv'
<1>0. m \in Mail!Thread /\ m \notin Client
  BY DEF Mail!Thread, Mail!PostOfficeAssumption
<1>1. /\ mailPc[m] = "PostalDelivery" /\ mailPc' = [mailPc EXCEPT ![m] = "Append"]
      /\ mailCount[Mail!Available(m)] > 0 /\ mailCount'
          = [mailCount EXCEPT ![Mail!Available(m)] = @ - 1]
      /\ mailDoing' = [mailDoing EXCEPT ![m] = Mail!Mon!NotWaiting]
      /\ mailDoing[m] = Mail!Mon!NotWaiting
      /\ mailPacket' = [mailPacket EXCEPT ![m] = mailInbox[m]]
      /\ mailInbox' = [mailInbox EXCEPT ![m] = NoPacket]
      /\ UNCHANGED <<mailOwner, mailWire, mailSending, mailBoxes, mailBox, mailCalls,
          Mail!history>>
  BY DEF Mail!PostalDelivery, Mail!At, Mail!Goto, Mail!Mon!Down, Mail!Mon!Become
<1>2. mailDoing' = mailDoing
  BY <1>1 DEF MailInv, Mail!TypeOK
<1>3. mailInbox[m] # NoPacket /\ mailInbox[m] \in Mail!Packets /\ mailCount[Mail!Available(m)] = 1
  BY <1>1, Names DEF MailInv, DeviceState, Mail!TypeOK
<1>4. /\ \A n \in Machine : mailCount'[Mail!Sent(n)] = mailCount[Mail!Sent(n)]
      /\ \A n \in Machine : n # m => mailCount'[Mail!Available(n)]
          = mailCount[Mail!Available(n)] /\ mailInbox'[n] = mailInbox[n]
      /\ mailInbox'[m] = NoPacket /\ mailCount'[Mail!Available(m)] = 0
  BY <1>1, <1>3, Names DEF MailInv, Mail!TypeOK
<1>5. \A t \in Mail!Thread : mailPc'[t] = (IF t = m THEN "Append" ELSE mailPc[t])
                        /\ mailPacket'[t] = (IF t = m THEN mailInbox[m] ELSE mailPacket[t])
  BY <1>1 DEF MailInv, Hands, Mail!TypeOK
<1>6. Mail!TypeOK'
  <2>1. mailCount' \in [Mail!Sems -> {0, 1}]
    BY <1>1, <1>3, Names DEF MailInv, Mail!TypeOK
  <2>2. (\A n \in Machine : mailPc'[n] \in Mail!WorkerPlaces)
      /\ (\A d \in Client : mailPc'[d] \in Mail!ClientPlaces)
    BY <1>0, <1>5 DEF MailInv, Mail!TypeOK, Mail!WorkerPlaces, Mail!Thread
  <2>3. mailPacket' \in [Mail!Thread -> Mail!Packets \cup {NoPacket}]
      /\ mailInbox' \in [Machine -> Mail!Packets \cup {NoPacket}]
    BY <1>1, <1>3 DEF MailInv, Mail!TypeOK
  <2> QED BY <1>1, <1>2, <2>1, <2>2, <2>3 DEF MailInv, Mail!TypeOK, Mail!history
<1>7. Hands'
  BY <1>0, <1>1, <1>2, <1>3, <1>5 DEF MailInv, Hands, Mail!Thread, Mail!WorkerPlaces
<1>8. DeviceState'
  <2>1. \A n \in Machine : mailCount'[Mail!Available(n)] = IF mailInbox'[n] = NoPacket
      THEN 0 ELSE 1
    BY <1>4 DEF MailInv, DeviceState
  <2>2. \A d \in Client : mailPc'[d] = mailPc[d]
    BY <1>0, <1>5 DEF Mail!Thread
  <2> QED BY <2>1, <2>2, <1>1, <1>4 DEF MailInv, DeviceState
<1>9. Order'
  <2>1. \A n \in Machine : n # m => Mail!Carried(n)' = Mail!Carried(n)
    BY <1>5 DEF Mail!Carried, Mail!Held, Mail!Thread
  <2>2. Mail!Transit(m)' = Mail!Transit(m)
    <3>1. Mail!Carried(m) = <<>> /\ Mail!Carried(m)' = <<mailInbox[m]>>
        /\ Mail!Held(mailInbox[m]) = <<mailInbox[m]>>
      BY <1>0, <1>1, <1>3, <1>5 DEF Mail!Held, Mail!Carried
    <3>2. Mail!Held(mailInbox[m])' = <<>>
      BY <1>4 DEF Mail!Held
    <3>3. <<>> \o <<mailInbox[m]>> = <<mailInbox[m]>> \o <<>>
      OBVIOUS
    <3> QED BY <3>1, <3>2, <3>3, <1>1 DEF Mail!Transit
  <2>3. \A n \in Machine : n # m => Mail!Transit(n)' = Mail!Transit(n)
    <3>1. \A n \in Machine : n # m => Mail!Held(mailInbox[n])' = Mail!Held(mailInbox[n])
      BY <1>4 DEF Mail!Held
    <3> QED BY <3>1, <2>1, <1>1 DEF Mail!Transit
  <2>4. ASSUME NEW n \in Machine PROVE \E d \in Seq(Mail!Packets) : InOrder(n, d)'
    <3>1. PICK d \in Seq(Mail!Packets) : InOrder(n, d)
      BY OrderAt
    <3>2. Mail!Transit(n)' = Mail!Transit(n)
      BY <2>2, <2>3
    <3>3. UNCHANGED <<mailOnWire, mailBoxes, mailGot>>
      BY <1>1 DEF Mail!history
    <3>4. InOrder(n, d)'
      BY <3>1, <3>2, <3>3 DEF InOrder
    <3> QED BY <3>4
  <2> QED BY <2>4, <1>6, <1>7, OrderNext
<1>10. Mail!NoMailForgotten'
  <2>1. \A d \in Client, n \in Machine, b \in Box :
          (Waits(d, n, b)' => Waits(d, n, b)) /\ (Comes(d, n, b) => Comes(d, n, b)')
    BY <1>0, <1>1, <1>2, <1>5 DEF Waits, Comes, Mail!Thread
  <2> QED BY <2>1, <1>1, ForgottenKept DEF MailInv
<1> QED BY <1>6, <1>7, <1>8, <1>9, <1>10 DEF MailInv

\* The worker's hands are empty after it has put the packet in its mailbox.
LEMMA AppendReleasesStep ==
  ASSUME Mail!PostOfficeAssumption, MailInv, NEW m \in Machine, Mail!AppendReleases(m)
  PROVE  MailInv'
<1> DEFINE l == Mail!ListLock(m, mailPacket[m].box)
<1>0. m \in Mail!Thread /\ m \notin Client
  BY DEF Mail!Thread, Mail!PostOfficeAssumption
<1>1. /\ mailPc[m] = "AppendDone" /\ mailPc' = [mailPc EXCEPT ![m] = "PostalDelivery"]
      /\ mailOwner' = [mailOwner EXCEPT ![l] = NoThread]
      /\ mailPacket' = [mailPacket EXCEPT ![m] = NoPacket]
      /\ UNCHANGED <<mailCount, mailDoing, Mail!networkVars, mailBoxes, mailBox, mailCalls,
          Mail!history>>
  BY DEF Mail!AppendReleases, Mail!At, Mail!Goto, Mail!Mon!Give
<1>2. mailPacket[m].box \in Box
  BY <1>1 DEF MailInv, Hands, Mail!Packets
<1>3. l \in Mail!Locks /\ \A n \in Machine : mailOwner'[Mail!SendLock(n)]
                           = mailOwner[Mail!SendLock(n)]
  BY <1>1, <1>2, Names DEF MailInv, Mail!TypeOK
<1>4. \A t \in Mail!Thread : mailPc'[t] = (IF t = m THEN "PostalDelivery" ELSE mailPc[t])
                        /\ mailPacket'[t] = (IF t = m THEN NoPacket ELSE mailPacket[t])
  BY <1>1 DEF MailInv, Hands, Mail!TypeOK
<1>5. Mail!TypeOK'
  <2>1. mailOwner' \in [Mail!Locks -> Mail!Thread \cup {NoThread}]
    BY <1>1, <1>3 DEF MailInv, Mail!TypeOK
  <2>2. (\A n \in Machine : mailPc'[n] \in Mail!WorkerPlaces)
      /\ (\A d \in Client : mailPc'[d] \in Mail!ClientPlaces)
    BY <1>0, <1>4 DEF MailInv, Mail!TypeOK, Mail!WorkerPlaces, Mail!Thread
  <2>3. mailPacket' \in [Mail!Thread -> Mail!Packets \cup {NoPacket}]
    BY <1>1 DEF MailInv, Mail!TypeOK
  <2> QED BY <1>1, <2>1, <2>2, <2>3 DEF MailInv, Mail!TypeOK, Mail!networkVars, Mail!history
<1>6. Hands'
  BY <1>0, <1>1, <1>3, <1>4 DEF MailInv, Hands, Mail!Thread, Mail!WorkerPlaces,
                                Mail!PostOfficeAssumption
<1>7. DeviceState'
  <2>1. \A d \in Client : mailPc'[d] = mailPc[d]
    BY <1>0, <1>4 DEF Mail!Thread
  <2> QED BY <2>1, <1>1, <1>3 DEF MailInv, DeviceState, Mail!networkVars
<1>8. Order'
  <2>1. \A n \in Machine : Mail!Carried(n)' = Mail!Carried(n)
    BY <1>1, <1>4 DEF Mail!Carried, Mail!Held, Mail!Thread
  <2> QED BY <2>1, <1>1, <1>5, <1>6, OrderKept DEF Mail!networkVars, Mail!history
<1>9. Mail!NoMailForgotten'
  <2>1. \A d \in Client, n \in Machine, b \in Box :
          (Waits(d, n, b)' => Waits(d, n, b)) /\ (Comes(d, n, b) => Comes(d, n, b)')
    BY <1>0, <1>1, <1>4 DEF Waits, Comes, Mail!Thread
  <2> QED BY <2>1, <1>1, ForgottenKept DEF MailInv
<1> QED BY <1>5, <1>6, <1>7, <1>8, <1>9 DEF MailInv

\* A signal finds a client of the mailbox that waits for it.
LEMMA SignalIs ==
  ASSUME Mail!PostOfficeAssumption, MailInv, NEW m \in Machine, NEW b \in Box,
      NEW t \in Mail!Thread,
         mailDoing[t].wants = Mail!ListEmpty(m, b)
  PROVE  /\ t \in Client /\ t \notin Machine /\ HomeOf[t] = m /\ mailBox[t] = b
         /\ mailPc[t] = "Test"
         /\ mailDoing[t] = Mail!Mon!WaitsOn(Mail!ListEmpty(m, b), Mail!ListLock(m, b))
<1>1. mailDoing[t] # Mail!Mon!NotWaiting /\ \A n \in Machine,
                                             k \in Box : mailDoing[t]
                                                 # Mail!Mon!Wants(Mail!ListLock(n, k))
  <2>1. Mail!ListEmpty(m, b) \in Mail!Conds /\ Mail!ListEmpty(m, b) # <<"none">>
    BY Names
  <2>2. ASSUME NEW n \in Machine, NEW k \in Box
      PROVE mailDoing[t] # Mail!Mon!Wants(Mail!ListLock(n, k))
    <3>1. Mail!ListLock(n, k) \in Mail!Locks /\ Mail!ListLock(n, k) # Mail!ListEmpty(m, b)
      BY Names
    <3>2. Mail!Mon!Wants(Mail!ListLock(n, k)).wants = Mail!ListLock(n, k)
      BY <2>1, <3>1, Different
    <3> QED BY <3>1, <3>2
  <2> QED BY <2>1, <2>2, Different
<1>2. t \in Client
  BY <1>1 DEF MailInv, Hands, Mail!Thread
<1>3. HomeOf[t] \in Machine /\ mailBox[t] \in Box
  BY <1>2 DEF MailInv, Mail!TypeOK, Mail!PostOfficeAssumption
<1>4. mailPc[t] = "Test" /\ mailDoing[t]
    = Mail!Mon!WaitsOn(Mail!ListEmpty(HomeOf[t], mailBox[t]), Mail!ListLock(HomeOf[t], mailBox[t]))
  BY <1>1, <1>2, <1>3 DEF MailInv, Hands
<1>5. mailDoing[t].wants = Mail!ListEmpty(HomeOf[t], mailBox[t])
  BY <1>3, <1>4, Names, Different
<1>6. HomeOf[t] = m /\ mailBox[t] = b
  BY <1>5 DEF Mail!ListEmpty
<1> QED BY <1>2, <1>4, <1>6 DEF Mail!PostOfficeAssumption

\* A packet comes to its mailbox, and a client that waits there is on its way.
LEMMA PutStep ==
  ASSUME Mail!PostOfficeAssumption, MailInv, NEW m \in Machine, Mail!Put(m)
  PROVE  MailInv'
<1>0. m \in Mail!Thread /\ m \notin Client
  BY DEF Mail!Thread, Mail!PostOfficeAssumption
<1>1. PICK p : p = mailPacket[m]
  OBVIOUS
<1>2. PICK b : b = p.box
  OBVIOUS
<1>3. /\ mailPc[m] = "Put" /\ mailPc' = [mailPc EXCEPT ![m] = "AppendDone"]
      /\ mailBoxes' = [mailBoxes EXCEPT ![m][b] = Append(@, p)]
      /\ UNCHANGED <<Mail!networkVars, mailPacket, mailBox, mailCalls, Mail!history>>
  BY <1>1, <1>2 DEF Mail!Put, Mail!At, Mail!Goto
<1>4. p \in Mail!Packets /\ b \in Box /\ p # NoPacket
  BY <1>1, <1>2, <1>3 DEF MailInv, Hands, Mail!Packets, Mail!PostOfficeAssumption
<1>5. UNCHANGED <<mailOwner, mailCount>>
      /\ \/ UNCHANGED mailDoing /\ \A c \in Client : ~ Waits(c, m, b)
         \/ \E u \in Client : /\ Waits(u, m, b) /\ mailPc[u] = "Test" /\ u # m
                              /\ mailDoing[u] = Mail!Mon!WaitsOn(Mail!ListEmpty(m, b), Mail!ListLock(m, b))
                              /\ mailDoing' = [mailDoing EXCEPT ![u] = Mail!Mon!Wants(Mail!ListLock(m, b))]
  <2> DEFINE Waiting == {t \in Mail!Thread : mailDoing[t].wants = Mail!ListEmpty(m, b)}
  <2>1. CASE Waiting = {}
    BY <2>1, <1>1, <1>2 DEF Mail!Put, Mail!monitorVars, Waits, Mail!Thread
  <2>2. CASE Waiting # {}
    <3>1. PICK u \in Waiting : Mail!Mon!Signal(m, Mail!ListEmpty(m, b), u)
      BY <2>2, <1>1, <1>2 DEF Mail!Put
    <3>2. /\ u \in Client /\ u \notin Machine /\ HomeOf[u] = m /\ mailBox[u] = b
          /\ mailPc[u] = "Test"
          /\ mailDoing[u] = Mail!Mon!WaitsOn(Mail!ListEmpty(m, b), Mail!ListLock(m, b))
      BY <3>1, <1>4, SignalIs
    <3>3. PICK l \in Mail!Locks : /\ mailDoing[u] = Mail!Mon!WaitsOn(Mail!ListEmpty(m, b), l)
                                  /\ mailDoing' = [mailDoing EXCEPT ![u] = Mail!Mon!Wants(l)]
      BY <3>1 DEF Mail!Mon!Signal, Mail!Mon!Become
    <3>4. l = Mail!ListLock(m, b)
      <4>1. Mail!ListEmpty(m, b) \in Mail!Conds /\ Mail!ListLock(m, b) \in Mail!Locks
        BY <1>4, Names
      <4>2. /\ Mail!Mon!WaitsOn(Mail!ListEmpty(m, b), l).then = l
            /\ Mail!Mon!WaitsOn(Mail!ListEmpty(m, b), Mail!ListLock(m, b)).then
                = Mail!ListLock(m, b)
        BY <4>1, Different
      <4> QED BY <3>2, <3>3, <4>2
    <3>5. Waits(u, m, b)
      BY <3>1, <3>2 DEF Waits
    <3> QED BY <3>1, <3>2, <3>3, <3>4, <3>5 DEF Mail!Mon!Signal
  <2> QED BY <2>1, <2>2
<1>6. \A t \in Mail!Thread : mailPc'[t] = IF t = m THEN "AppendDone" ELSE mailPc[t]
  BY <1>3 DEF MailInv, Hands
<1>7. \A n \in Machine, k \in Box :
        mailBoxes'[n][k] = IF n = m /\ k = b THEN Append(mailBoxes[m][b], p) ELSE mailBoxes[n][k]
  BY <1>3, <1>4 DEF MailInv, Mail!TypeOK
<1>8. Mail!TypeOK'
  <2>1. mailDoing' \in [Mail!Thread -> Mail!Mon!Activities]
    <3>1. Mail!Mon!Wants(Mail!ListLock(m, b)) \in Mail!Mon!Activities
      BY <1>4, Names, Different
    <3> QED BY <3>1, <1>5 DEF MailInv, Mail!TypeOK
  <2>2. (\A n \in Machine : mailPc'[n] \in Mail!WorkerPlaces)
      /\ (\A d \in Client : mailPc'[d] \in Mail!ClientPlaces)
    BY <1>0, <1>6 DEF MailInv, Mail!TypeOK, Mail!WorkerPlaces, Mail!Thread
  <2>3. mailBoxes' \in [Machine -> [Box -> Seq(Mail!Packets)]]
    <3>1. Append(mailBoxes[m][b], p) \in Seq(Mail!Packets)
      BY <1>4, AppendProperties DEF MailInv, Mail!TypeOK
    <3> QED BY <3>1, <1>3, <1>4 DEF MailInv, Mail!TypeOK
  <2> QED BY <1>3, <1>5, <2>1, <2>2, <2>3 DEF MailInv, Mail!TypeOK, Mail!networkVars, Mail!history
<1>9. \A t \in Mail!Thread : \/ mailDoing'[t] = mailDoing[t]
                             \/ /\ t \in Client /\ Waits(t, m, b) /\ mailPc[t] = "Test" /\ t # m
                                /\ mailDoing'[t] = Mail!Mon!Wants(Mail!ListLock(m, b))
  BY <1>5 DEF MailInv, Mail!TypeOK
<1>10. Hands'
  <2>1. mailPc' \in [Mail!Thread -> Mail!WorkerPlaces \cup Mail!ClientPlaces]
    BY <1>3 DEF MailInv, Hands, Mail!WorkerPlaces
  <2>2. \A n \in Machine : mailDoing'[n] = Mail!Mon!NotWaiting
      /\ (mailPc'[n] # "PostalDelivery" => mailPacket'[n] \in Mail!Packets)
    BY <1>1, <1>3, <1>4, <1>6, <1>9 DEF MailInv, Hands, Mail!Thread, Mail!PostOfficeAssumption
  <2>3. \A c \in Client : mailPc'[c] = mailPc[c] /\ (mailDoing'[c] = mailDoing[c]
                           \/ /\ HomeOf[c] = m /\ mailBox[c] = b /\ mailPc[c] = "Test"
                              /\ mailDoing'[c] = Mail!Mon!Wants(Mail!ListLock(m, b)))
    BY <1>0, <1>6, <1>9 DEF Waits, Mail!Thread
  <2> QED BY <2>1, <2>2, <2>3, <1>3, <1>5 DEF MailInv, Hands
<1>11. DeviceState'
  <2>1. \A d \in Client : mailPc'[d] = mailPc[d]
    BY <1>0, <1>6 DEF Mail!Thread
  <2> QED BY <2>1, <1>3, <1>5 DEF MailInv, DeviceState, Mail!networkVars
<1>12. Order'
  <2>1. \A n \in Machine : n # m => Mail!Carried(n)' = Mail!Carried(n)
    BY <1>3, <1>6 DEF Mail!Carried, Mail!Held, Mail!Thread
  <2>2. \A n \in Machine : n # m => Mail!Transit(n)' = Mail!Transit(n)
    BY <2>1, <1>3 DEF Mail!Transit, Mail!Held, Mail!networkVars
  <2>3. /\ Mail!Held(mailInbox[m]) \in Seq(Mail!Packets) /\ mailWire[m] \in Seq(Mail!Packets)
        /\ Mail!Carried(m) = <<p>> /\ <<p>> \in Seq(Mail!Packets)
        /\ Mail!Transit(m)' \in Seq(Mail!Packets)
    <3>1. (Mail!TypeOK /\ Hands =>
             \A n \in Machine : /\ Mail!Carried(n) \in Seq(Mail!Packets)
                                /\ Mail!Held(mailInbox[n]) \in Seq(Mail!Packets)
                                /\ mailWire[n] \in Seq(Mail!Packets)
                                /\ Mail!Transit(n) \in Seq(Mail!Packets))'
      BY TransitNext
    <3>2. Mail!Carried(m) = <<p>>
      BY <1>1, <1>3, <1>4 DEF Mail!Carried, Mail!Held
    <3> QED BY <3>1, <3>2, <1>4, <1>8, <1>10, TransitIs DEF MailInv
  <2>4. Mail!Transit(m) = <<p>> \o Mail!Transit(m)'
    <3>1. Mail!Carried(m)' = <<>> /\ Mail!Held(mailInbox[m])' = Mail!Held(mailInbox[m])
        /\ mailWire'[m] = mailWire[m]
      BY <1>0, <1>3, <1>6 DEF Mail!Carried, Mail!Held, Mail!networkVars
    <3>2. <<>> \o Mail!Held(mailInbox[m]) = Mail!Held(mailInbox[m])
      BY <2>3, ConcatEmptySeq
    <3>3. Mail!Transit(m)' = Mail!Held(mailInbox[m]) \o mailWire[m]
      BY <3>1, <3>2 DEF Mail!Transit
    <3>4. (<<p>> \o Mail!Held(mailInbox[m])) \o mailWire[m]
        = <<p>> \o (Mail!Held(mailInbox[m]) \o mailWire[m])
      BY <2>3, Associative
    <3> QED BY <3>3, <3>4, <2>3 DEF Mail!Transit
  <2>5. ASSUME NEW n \in Machine, n # m PROVE \E d \in Seq(Mail!Packets) : InOrder(n, d)'
    <3>1. PICK d \in Seq(Mail!Packets) : InOrder(n, d)
      BY OrderAt
    <3>2. \A k \in Box : mailBoxes'[n][k] = mailBoxes[n][k] /\ mailGot'[n][k] = mailGot[n][k]
      BY <2>5, <1>3, <1>7 DEF Mail!history
    <3>3. Mail!Transit(n)' = Mail!Transit(n) /\ mailOnWire'[n] = mailOnWire[n]
      BY <2>2, <2>5, <1>3 DEF Mail!history
    <3> QED BY <3>1, <3>2, <3>3 DEF InOrder
  <2>6. \E d \in Seq(Mail!Packets) : InOrder(m, d)'
    <3>1. PICK d \in Seq(Mail!Packets) : InOrder(m, d)
      BY OrderAt
    <3>2. Append(d, p) \in Seq(Mail!Packets) /\ Append(d, p) = d \o <<p>>
      BY <1>4, AppendProperties, AppendIsConcat
    <3>3. mailOnWire'[m] = Append(d, p) \o Mail!Transit(m)'
      <4>1. (d \o <<p>>) \o Mail!Transit(m)' = d \o (<<p>> \o Mail!Transit(m)')
        BY <2>3, Associative
      <4>2. mailOnWire'[m] = d \o Mail!Transit(m)
        BY <3>1, <1>3 DEF InOrder, Mail!history
      <4> QED BY <4>1, <4>2, <3>2, <2>4
    <3>4. ASSUME NEW k \in Box PROVE mailGot'[m][k] \o mailBoxes'[m][k]
        = Mail!For(k, Append(d, p))
      <4>1. /\ mailGot[m][k] \in Seq(Mail!Packets) /\ mailBoxes[m][k] \in Seq(Mail!Packets)
            /\ mailGot[m][k] \o mailBoxes[m][k] = Mail!For(k, d)
            /\ Mail!For(k, d) \in Seq(Mail!Packets)
        <5>1. mailGot[m][k] \in Seq(Mail!Packets) /\ mailBoxes[m][k] \in Seq(Mail!Packets)
          BY DEF MailInv, Mail!TypeOK
        <5>2. mailGot[m][k] \o mailBoxes[m][k] \in Seq(Mail!Packets)
          BY <5>1, ConcatProperties
        <5> QED BY <3>1, <5>1, <5>2 DEF InOrder
      <4>2. Mail!For(k, Append(d, p)) = IF b = k THEN Append(Mail!For(k, d), p)
          ELSE Mail!For(k, d)
        BY <4>1, <1>2, <1>4, ForAppend
      <4>3. Append(mailGot[m][k] \o mailBoxes[m][k], p)
          = mailGot[m][k] \o Append(mailBoxes[m][k], p)
        BY <4>1, <1>4, AppendConcat
      <4> QED BY <4>1, <4>2, <4>3, <1>3, <1>7 DEF Mail!history
    <3> QED BY <3>2, <3>3, <3>4 DEF InOrder
  <2> QED BY <2>5, <2>6, <1>8, <1>10, OrderNext
<1>13. Mail!NoMailForgotten'
  <2>1. ASSUME NEW n \in Machine, NEW k \in Box, n # m \/ k # b
        PROVE  /\ \A c \in Client : Waits(c, n, k)' => Waits(c, n, k)
               /\ Comers(n, k) \subseteq Comers(n, k)'
               /\ mailBoxes'[n][k] = mailBoxes[n][k] /\ Len(mailBoxes[n][k]) \in Nat
    <3>1. \A c \in Client : mailPc'[c] = mailPc[c] /\ (mailDoing'[c] = mailDoing[c]
        \/ (HomeOf[c] = m /\ mailBox[c] = b))
      BY <1>0, <1>6, <1>9 DEF Waits, Mail!Thread
    <3>2. mailBoxes'[n][k] = mailBoxes[n][k] /\ Len(mailBoxes[n][k]) \in Nat
      BY <2>1, <1>7 DEF MailInv, Mail!TypeOK
    <3> QED BY <3>1, <3>2, <2>1, <1>3 DEF Waits, Comes, Comers
  <2>2. \A n \in Machine, k \in Box : Cardinality(Comers(n, k)) \in Nat
      /\ Cardinality(Comers(n, k)') \in Nat
                                      /\ IsFiniteSet(Comers(n, k)) /\ IsFiniteSet(Comers(n, k)')
    <3>1. \A n \in Machine, k \in Box : Comers(n, k) \subseteq Client
        /\ Comers(n, k)' \subseteq Client
      BY DEF Comers
    <3> QED BY <3>1, FS_Subset, FS_CardinalityType, SameF DEF Mail!PostOfficeAssumption
  <2>3. ASSUME NEW n \in Machine, NEW k \in Box, \E c \in Client : Waits(c, n, k)'
        PROVE  Len(mailBoxes'[n][k]) <= Cardinality(Comers(n, k)')
    <3>1. CASE n # m \/ k # b
      <4>1. Len(mailBoxes[n][k]) <= Cardinality(Comers(n, k))
        BY <3>1, <2>1, <2>3, ForgottenIs DEF MailInv
      <4>2. Cardinality(Comers(n, k)) <= Cardinality(Comers(n, k)')
        BY <3>1, <2>1, <2>2, FS_Subset
      <4> QED BY <4>1, <4>2, <3>1, <2>1, <2>2
    <3>2. CASE n = m /\ k = b
      <4>1. \E c \in Client : Waits(c, m, b)
        BY <3>2, <2>3, <1>3, <1>9 DEF Waits, Mail!Thread
      <4>2. PICK u \in Client : /\ Waits(u, m, b) /\ mailPc[u] = "Test" /\ u # m
                                /\ mailDoing' = [mailDoing EXCEPT ![u] = Mail!Mon!Wants(Mail!ListLock(m, b))]
        BY <4>1, <1>5
      <4>3. u \in Comers(m, b)' /\ u \notin Comers(m, b)
        <5>1. mailDoing'[u].wants # Mail!ListEmpty(m, b)
          <6>1. u \in DOMAIN mailDoing
            BY <1>0 DEF MailInv, Mail!TypeOK, Mail!Thread
          <6>2. mailDoing'[u] = Mail!Mon!Wants(Mail!ListLock(m, b))
            BY <4>2, <6>1
          <6>3. Mail!Mon!Wants(Mail!ListLock(m, b)).wants = Mail!ListLock(m, b)
            BY DEF Mail!Mon!Wants
          <6>4. Mail!ListLock(m, b) # Mail!ListEmpty(m, b)
            BY <1>4, Names
          <6> QED BY <6>2, <6>3, <6>4
        <5>2. mailPc'[u] = "Test" /\ HomeOf[u] = m /\ mailBox'[u] = b
          BY <4>2, <1>3, <1>6 DEF Waits, Mail!Thread
        <5> QED BY <5>1, <5>2, <4>2 DEF Comers, Comes, Waits
      <4>4. Comers(m, b) \subseteq Comers(m, b)'
        <5>1. \A c \in Client : c # u => mailDoing'[c] = mailDoing[c] /\ mailPc'[c] = mailPc[c]
          BY <4>2, <1>0, <1>6 DEF MailInv, Mail!TypeOK, Mail!Thread
        <5> QED BY <5>1, <4>3, <1>3 DEF Comers, Comes
      <4>5. Cardinality(Comers(m, b) \cup {u}) = Cardinality(Comers(m, b)) + 1
            /\ Cardinality(Comers(m, b) \cup {u}) <= Cardinality(Comers(m, b)')
        BY <4>3, <4>4, <2>2, <1>4, FS_AddElement, FS_Subset
      <4>6. Len(mailBoxes[m][b]) <= Cardinality(Comers(m, b))
        BY <4>1, <1>4, ForgottenIs DEF MailInv
      <4>7. Len(mailBoxes'[m][b]) = Len(mailBoxes[m][b]) + 1 /\ Len(mailBoxes[m][b]) \in Nat
        <5>1. mailBoxes[m][b] \in Seq(Mail!Packets)
            /\ mailBoxes'[m][b] = Append(mailBoxes[m][b], p)
          BY <1>4, <1>7 DEF MailInv, Mail!TypeOK
        <5> QED BY <5>1, <1>4, AppendProperties
      <4> QED BY <4>5, <4>6, <4>7, <3>2, <2>2, <1>4
    <3> QED BY <3>1, <3>2
  <2> QED BY <2>3, ForgottenNext
<1> QED BY <1>8, <1>10, <1>11, <1>12, <1>13 DEF MailInv

\* A client takes the first packet of its mailbox.
LEMMA RemoveTakesStep ==
  ASSUME Mail!PostOfficeAssumption, MailInv, NEW c \in Client, Mail!RemoveTakes(c)
  PROVE  MailInv'
<1>1. PICK m \in Machine, b \in Box : m = HomeOf[c] /\ b = mailBox[c]
  BY DEF MailInv, Mail!TypeOK, Mail!PostOfficeAssumption
<1>2. PICK p : p = Head(mailBoxes[m][b])
  OBVIOUS
<1>3. /\ mailPc[c] = "Test" /\ mailPc' = [mailPc EXCEPT ![c] = "RemoveDone"]
      /\ mailDoing[c] = Mail!Mon!NotWaiting /\ mailBoxes[m][b] # <<>>
      /\ mailBoxes' = [mailBoxes EXCEPT ![m][b] = Tail(mailBoxes[m][b])]
      /\ mailPacket' = [mailPacket EXCEPT ![c] = p]
      /\ mailGot' = [mailGot EXCEPT ![m][b] = Append(@, p)]
      /\ UNCHANGED <<Mail!monitorVars, Mail!networkVars, mailBox, mailCalls, mailOnWire>>
  BY <1>1, <1>2 DEF Mail!RemoveTakes, Mail!At, Mail!Goto
<1>4. /\ mailBoxes[m][b] \in Seq(Mail!Packets) /\ p \in Mail!Packets
      /\ Tail(mailBoxes[m][b]) \in Seq(Mail!Packets)
      /\ mailBoxes[m][b] = <<p>> \o Tail(mailBoxes[m][b])
      /\ Len(Tail(mailBoxes[m][b])) = Len(mailBoxes[m][b]) - 1 /\ Len(mailBoxes[m][b]) \in Nat
  BY <1>2, <1>3, HeadTailProperties DEF MailInv, Mail!TypeOK
<1>5. c \in Mail!Thread /\ c \notin Machine
  BY DEF Mail!Thread, Mail!PostOfficeAssumption
<1>6. \A t \in Mail!Thread : mailPc'[t] = IF t = c THEN "RemoveDone" ELSE mailPc[t]
  BY <1>3 DEF MailInv, Hands
<1>7. \A n \in Machine, k \in Box :
        /\ mailBoxes'[n][k] = IF n = m /\ k = b THEN Tail(mailBoxes[m][b]) ELSE mailBoxes[n][k]
        /\ mailGot'[n][k] = IF n = m /\ k = b THEN Append(mailGot[m][b], p) ELSE mailGot[n][k]
  BY <1>3 DEF MailInv, Mail!TypeOK
<1>8. Mail!TypeOK'
  <2>1. (\A n \in Machine : mailPc'[n] \in Mail!WorkerPlaces)
      /\ (\A d \in Client : mailPc'[d] \in Mail!ClientPlaces)
    BY <1>5, <1>6 DEF MailInv, Mail!TypeOK, Mail!ClientPlaces, Mail!Thread
  <2>2. mailBoxes' \in [Machine -> [Box -> Seq(Mail!Packets)]]
    BY <1>3, <1>4 DEF MailInv, Mail!TypeOK
  <2>3. mailGot' \in [Machine -> [Box -> Seq(Mail!Packets)]]
    <3>1. Append(mailGot[m][b], p) \in Seq(Mail!Packets)
      BY <1>4, AppendProperties DEF MailInv, Mail!TypeOK
    <3> QED BY <3>1, <1>3 DEF MailInv, Mail!TypeOK
  <2>4. mailPacket' \in [Mail!Thread -> Mail!Packets \cup {NoPacket}]
    BY <1>3, <1>4 DEF MailInv, Mail!TypeOK
  <2> QED BY <1>3, <2>1, <2>2, <2>3, <2>4 DEF MailInv, Mail!TypeOK, Mail!networkVars,
                                              Mail!monitorVars
<1>9. Hands'
  <2>1. \A t \in Mail!Thread : t # c => mailPacket'[t] = mailPacket[t]
    BY <1>3 DEF MailInv, Mail!TypeOK
  <2> QED BY <2>1, <1>3, <1>5, <1>6 DEF MailInv, Hands, Mail!Thread, Mail!ClientPlaces,
                                        Mail!monitorVars
<1>10. DeviceState'
  <2>1. \A d \in Client : mailPc'[d] = "P" <=> mailPc[d] = "P"
    BY <1>3, <1>6 DEF Mail!Thread
  <2> QED BY <2>1, <1>3 DEF MailInv, DeviceState, Mail!networkVars, Mail!monitorVars
<1>11. Order'
  <2>1. \A n \in Machine : Mail!Carried(n)' = Mail!Carried(n)
    BY <1>3, <1>5, <1>6 DEF Mail!Carried, Mail!Held, Mail!Thread, MailInv, Mail!TypeOK
  <2>2. \A n \in Machine : Mail!Transit(n)' = Mail!Transit(n)
    BY <2>1, <1>3 DEF Mail!Transit, Mail!Held, Mail!networkVars
  <2>3. ASSUME NEW n \in Machine PROVE \E d \in Seq(Mail!Packets) : InOrder(n, d)'
    <3>1. PICK d \in Seq(Mail!Packets) : InOrder(n, d)
      BY OrderAt
    <3>2. ASSUME NEW k \in Box PROVE mailGot'[n][k] \o mailBoxes'[n][k]
        = mailGot[n][k] \o mailBoxes[n][k]
      <4>1. CASE n = m /\ k = b
        <5>1. mailGot[m][b] \in Seq(Mail!Packets) /\ <<p>> \in Seq(Mail!Packets)
          BY <1>4 DEF MailInv, Mail!TypeOK
        <5>2. Append(mailGot[m][b], p) = mailGot[m][b] \o <<p>>
          BY <5>1, <1>4, AppendIsConcat
        <5>3. (mailGot[m][b] \o <<p>>) \o Tail(mailBoxes[m][b])
            = mailGot[m][b] \o (<<p>> \o Tail(mailBoxes[m][b]))
          BY <5>1, <1>4, Associative
        <5> QED BY <4>1, <5>2, <5>3, <1>4, <1>7
      <4>2. CASE n # m \/ k # b
        BY <4>2, <1>7
      <4> QED BY <4>1, <4>2
    <3> QED BY <3>1, <3>2, <2>2, <1>3 DEF InOrder
  <2> QED BY <2>3, <1>8, <1>9, OrderNext
<1>12. Mail!NoMailForgotten'
  <2>1. \A d \in Client, n \in Machine, k \in Box :
          /\ Waits(d, n, k)' <=> Waits(d, n, k)
          /\ Comes(d, n, k)' <=> Comes(d, n, k) /\ d # c
    BY <1>3, <1>6 DEF Waits, Comes, Mail!Thread, Mail!monitorVars
  <2>2. \A n \in Machine, k \in Box : Comers(n, k)' = Comers(n, k) \ {c}
      /\ IsFiniteSet(Comers(n, k))
                                      /\ Cardinality(Comers(n, k)) \in Nat
    <3>1. \A n \in Machine, k \in Box : Comers(n, k) \subseteq Client
      BY DEF Comers
    <3> QED BY <3>1, <2>1, FS_Subset, FS_CardinalityType, SameF DEF Mail!PostOfficeAssumption,
           Comers
  <2>3. ASSUME NEW n \in Machine, NEW k \in Box, \E d \in Client : Waits(d, n, k)'
        PROVE  Len(mailBoxes'[n][k]) <= Cardinality(Comers(n, k)')
    <3>1. Len(mailBoxes[n][k]) <= Cardinality(Comers(n, k))
      BY <2>1, <2>3, ForgottenIs DEF MailInv
    <3>2. CASE n = m /\ k = b
      <4>1. Cardinality(Comers(n, k)') >= Cardinality(Comers(n, k)) - 1
        <5>1. Cardinality(Comers(n, k) \ {c}) = IF c \in Comers(n, k)
            THEN Cardinality(Comers(n, k)) - 1
                                                ELSE Cardinality(Comers(n, k))
          BY <2>2, FS_RemoveElement
        <5> QED BY <5>1, <2>2
      <4>2. Len(mailBoxes'[n][k]) = Len(mailBoxes[n][k]) - 1 /\ Len(mailBoxes[n][k]) \in Nat
        BY <3>2, <1>4, <1>7
      <4>3. Cardinality(Comers(n, k)') \in Nat
        <5>1. IsFiniteSet(Comers(n, k) \ {c})
          BY <2>2, FS_RemoveElement
        <5> QED BY <5>1, <2>2, FS_CardinalityType
      <4> QED BY <3>1, <4>1, <4>2, <4>3, <2>2
    <3>3. CASE n # m \/ k # b
      <4>1. c \notin Comers(n, k)
        BY <3>3, <1>1 DEF Comers, Comes
      <4>2. Comers(n, k)' = Comers(n, k)
        BY <4>1, <2>2
      <4> QED BY <3>1, <3>3, <4>2, <1>7
    <3> QED BY <3>2, <3>3
  <2> QED BY <2>3, ForgottenNext
<1> QED BY <1>8, <1>9, <1>10, <1>11, <1>12 DEF MailInv

\* The lock of a mailbox is acquired or released.
LEMMA ListLocksStep ==
  ASSUME Mail!PostOfficeAssumption, MailInv,
         \/ \E m \in Machine : Mail!AppendAcquires(m)
         \/ \E c \in Client : Mail!RemoveAcquires(c) \/ Mail!ReceiveReturns(c)
  PROVE  MailInv'
<1>1. CASE \E m \in Machine : Mail!AppendAcquires(m)
  <2>1. PICK m \in Machine : Mail!Acquires(m, "Append", Mail!ListLock(m, mailPacket[m].box), "Put")
    BY <1>1 DEF Mail!AppendAcquires
  <2>2. m \in Mail!Thread /\ mailPc[m] = "Append" /\ mailDoing[m] = Mail!Mon!NotWaiting
    BY <2>1 DEF Mail!Thread, Mail!Acquires, Mail!At
  <2>3. mailPacket[m].box \in Box
    BY <2>2 DEF MailInv, Hands, Mail!Packets
  <2>4. Mail!ListLock(m, mailPacket[m].box) \in Mail!Locks
    BY <2>3, Names
  <2>5. /\ mailPc' = [mailPc EXCEPT ![m] = "Put"]
        /\ mailOwner' = [mailOwner EXCEPT ![Mail!ListLock(m, mailPacket[m].box)] = m]
        /\ UNCHANGED <<mailCount, mailDoing, Mail!networkVars, mailBoxes, mailPacket, mailBox,
            mailCalls, Mail!history>>
    BY <2>1, <2>2, <2>4, AcquiresIs
  <2> QED BY <2>2, <2>3, <2>5, ListLockStep
<1>2. CASE \E c \in Client : Mail!RemoveAcquires(c)
  <2>1. PICK c \in Client : Mail!Acquires(c, "Remove", Mail!ListLock(HomeOf[c], mailBox[c]), "Test")
    BY <1>2 DEF Mail!RemoveAcquires
  <2>2. c \in Mail!Thread /\ mailPc[c] = "Remove" /\ mailDoing[c] = Mail!Mon!NotWaiting
    BY <2>1 DEF Mail!Thread, Mail!Acquires, Mail!At
  <2>3. HomeOf[c] \in Machine /\ mailBox[c] \in Box
    BY DEF MailInv, Mail!TypeOK, Mail!PostOfficeAssumption
  <2>4. Mail!ListLock(HomeOf[c], mailBox[c]) \in Mail!Locks
    BY <2>3, Names
  <2>5. /\ mailPc' = [mailPc EXCEPT ![c] = "Test"]
        /\ mailOwner' = [mailOwner EXCEPT ![Mail!ListLock(HomeOf[c], mailBox[c])] = c]
        /\ UNCHANGED <<mailCount, mailDoing, Mail!networkVars, mailBoxes, mailPacket, mailBox,
            mailCalls, Mail!history>>
    BY <2>1, <2>2, <2>4, AcquiresIs
  <2> QED BY <2>2, <2>3, <2>5, ListLockStep
<1>3. CASE \E c \in Client : Mail!ReceiveReturns(c)
  <2>1. PICK c \in Client : Mail!Releases(c, "RemoveDone", Mail!ListLock(HomeOf[c], mailBox[c]), "outside")
    BY <1>3 DEF Mail!ReceiveReturns
  <2>2. c \in Mail!Thread /\ mailPc[c] = "RemoveDone" /\ mailDoing[c] = Mail!Mon!NotWaiting
    BY <2>1 DEF Mail!Thread, Mail!Releases, Mail!At
  <2>3. HomeOf[c] \in Machine /\ mailBox[c] \in Box
    BY DEF MailInv, Mail!TypeOK, Mail!PostOfficeAssumption
  <2>4. Mail!ListLock(HomeOf[c], mailBox[c]) \in Mail!Locks
    BY <2>3, Names
  <2>5. /\ mailPc' = [mailPc EXCEPT ![c] = "outside"]
        /\ mailOwner' = [mailOwner EXCEPT ![Mail!ListLock(HomeOf[c], mailBox[c])] = NoThread]
        /\ UNCHANGED <<mailCount, mailDoing, Mail!networkVars, mailBoxes, mailPacket, mailBox,
            mailCalls, Mail!history>>
    BY <2>1, <2>2, <2>4, ReleasesIs
  <2> QED BY <2>2, <2>3, <2>5, ListLockStep
<1> QED BY <1>1, <1>2, <1>3

\* Each step of the post office preserves the invariant.
LEMMA NextMail ==
  ASSUME Mail!PostOfficeAssumption, MailInv, [Mail!Next]_(Mail!vars) PROVE MailInv'
<1>1. CASE UNCHANGED Mail!vars
  <2> USE <1>1 DEF Mail!vars, Mail!monitorVars, Mail!networkVars, Mail!threadVars, Mail!history
  <2>1. Mail!TypeOK' /\ Hands' /\ DeviceState'
    BY DEF MailInv, Mail!TypeOK, Hands, DeviceState
  <2>2. Order'
    BY DEF MailInv, Order, InOrder, Mail!Delivered, Mail!Transit, Mail!Carried, Mail!Held
  <2>3. Mail!NoMailForgotten'
    BY ForgottenKept DEF MailInv, Waits, Comes
  <2> QED BY <2>1, <2>2, <2>3 DEF MailInv
<1>2. CASE \E c \in Client : Mail!CallSend(c) \/ Mail!CallReceive(c) \/ Mail!ClientStep(c)
  <2>1. PICK c \in Client : Mail!CallSend(c) \/ Mail!CallReceive(c) \/ Mail!ClientStep(c)
    BY <1>2
  <2>2. CASE Mail!CallSend(c) \/ Mail!CallReceive(c)
    BY <2>2, CallSendStep, CallReceiveStep
  <2>3. CASE Mail!SendAcquires(c) \/ Mail!SendReturns(c) \/ Mail!WaitsForSent(c)
    BY <2>3, SendLockStep, WaitsForSentStep
  <2>4. CASE \E lost \in BOOLEAN : Mail!NetworkSend(c, lost)
    BY <2>4, NetworkSendStep
  <2>5. CASE Mail!RemoveAcquires(c) \/ Mail!ReceiveReturns(c)
    BY <2>5, ListLocksStep
  <2>6. CASE Mail!RemoveWaits(c) \/ Mail!WaitReturns(c) \/ Mail!RemoveTakes(c)
    BY <2>6, RemoveWaitsStep, WaitReturnsStep, RemoveTakesStep
  <2> QED BY <2>1, <2>2, <2>3, <2>4, <2>5, <2>6 DEF Mail!ClientStep
<1>3. CASE \E m \in Machine : Mail!SendDone(m) \/ Mail!CheckPktAvail(m) \/ Mail!WorkerStep(m)
  <2>1. PICK m \in Machine : Mail!SendDone(m) \/ Mail!CheckPktAvail(m) \/ Mail!WorkerStep(m)
    BY <1>3
  <2>2. CASE Mail!SendDone(m) \/ Mail!CheckPktAvail(m)
    BY <2>2, SendDoneStep, CheckPktAvailStep
  <2>3. CASE Mail!AppendAcquires(m)
    BY <2>3, ListLocksStep
  <2>4. CASE Mail!PostalDelivery(m) \/ Mail!Put(m) \/ Mail!AppendReleases(m)
    BY <2>4, PostalDeliveryStep, PutStep, AppendReleasesStep
  <2> QED BY <2>1, <2>2, <2>3, <2>4 DEF Mail!WorkerStep
<1> QED BY <1>1, <1>2, <1>3 DEF Mail!Next

\* What the invariant says of the properties.
LEMMA MailProperties ==
  ASSUME Mail!PostOfficeAssumption, MailInv PROVE Mail!MailInOrder /\ Mail!OneSend
<1>1. Mail!MailInOrder
  <2>1. \A m \in Machine : Mail!Carried(m) = <<>>
      => mailPc[m] \in {"PostalDelivery", "AppendDone"}
    BY DEF MailInv, Mail!TypeOK, Hands, Mail!WorkerPlaces, Mail!Carried, Mail!Held,
           Mail!PostOfficeAssumption, Mail!Packets
  <2> QED BY <2>1 DEF Mail!MailInOrder, MailInv, Order, InOrder
<1>2. Mail!OneSend
  <2>1. ASSUME NEW m \in Machine
        PROVE  /\ mailSending[m] + mailCount[Mail!Sent(m)] =
                    Cardinality({c \in Client : HomeOf[c] = m /\ mailPc[c] = "P"})
               /\ mailSending[m] + mailCount[Mail!Sent(m)] <= 1
    <3> DEFINE P == {c \in Client : HomeOf[c] = m /\ mailPc[c] = "P"}
    <3>1. CASE mailSending[m] + mailCount[Mail!Sent(m)] = 0 /\ \A c \in Client : HomeOf[c] = m
                                                                => mailPc[c] # "P"
      <4>1. P = {}
        BY <3>1
      <4>2. Cardinality(P) = 0
        BY <4>1, FS_EmptySet
      <4> QED BY <4>2, <3>1
    <3>2. CASE mailSending[m] + mailCount[Mail!Sent(m)] = 1
               /\ mailOwner[Mail!SendLock(m)] \in Client
               /\ HomeOf[mailOwner[Mail!SendLock(m)]] = m
               /\ mailPc[mailOwner[Mail!SendLock(m)]] = "P"
      <4>1. P = {mailOwner[Mail!SendLock(m)]}
        BY <3>2 DEF MailInv, Hands
      <4>2. Cardinality(P) = 1
        BY <4>1, <3>2, FS_Singleton
      <4> QED BY <4>2, <3>2
    <3>3. \/ mailSending[m] + mailCount[Mail!Sent(m)] = 0 /\ \A c \in Client : HomeOf[c] = m
                                                              => mailPc[c] # "P"
          \/ /\ mailSending[m] + mailCount[Mail!Sent(m)] = 1
             /\ mailOwner[Mail!SendLock(m)] \in Client /\ HomeOf[mailOwner[Mail!SendLock(m)]] = m
             /\ mailPc[mailOwner[Mail!SendLock(m)]] = "P"
      BY DEF MailInv, DeviceState
    <3> QED BY <3>1, <3>2, <3>3
  <2> QED BY <2>1, SameC DEF Mail!OneSend
<1> QED BY <1>1, <1>2

-----------------------------------------------------------------------------
(* The console's test: Console.                                            *)

\* The inductive invariant: a character is announced when and only when it is in
\* the buffer, and the device is busy, or has said that it is not any more, only
\* while ConsoleTest waits for it.
EchoInv ==
  /\ Echo!TypeOK
  /\ echoReadAvail = IF echoIncoming = EOF THEN 0 ELSE 1
  /\ echoWriting + echoWriteDone = IF echoPc = "writeDone->P" THEN 1 ELSE 0
  /\ echoPutBusy <=> echoWriting = 1
  /\ echoPc = "PutChar" => echoCh \in Char
  /\ Echo!EchoInOrder

\* Facts about sequences of characters.
LEMMA Characters ==
  /\ \A c \in Char : <<c>> \in Seq(Char)
  /\ \A s \in Seq(Char), c \in Char : Append(s, c) \in Seq(Char) /\ Append(s, c) = s \o <<c>>
  /\ \A s, t \in Seq(Char) : s \o t \in Seq(Char)
  /\ \A s \in Seq(Char) : s \o <<>> = s /\ <<>> \o s = s
  /\ \A s, t, u \in Seq(Char) : (s \o t) \o u = s \o (t \o u)
  /\ \A s \in Seq(Char) : s # <<>> =>
       Head(s) \in Char /\ Tail(s) \in Seq(Char) /\ s = <<Head(s)>> \o Tail(s)
<1>1. \A s \in Seq(Char), c \in Char : Append(s, c) \in Seq(Char) /\ Append(s, c) = s \o <<c>>
  BY AppendProperties, AppendIsConcat
<1>2. \A s, t \in Seq(Char) : s \o t \in Seq(Char)
  BY ConcatProperties
<1>3. \A s \in Seq(Char) : s \o <<>> = s /\ <<>> \o s = s
  BY ConcatEmptySeq
<1>4. \A s, t, u \in Seq(Char) : (s \o t) \o u = s \o (t \o u)
  BY ConcatAssociative
<1>5. \A s \in Seq(Char) : s # <<>> =>
        Head(s) \in Char /\ Tail(s) \in Seq(Char) /\ s = <<Head(s)>> \o Tail(s)
  BY HeadTailProperties
<1>6. \A c \in Char : <<c>> \in Seq(Char)
  OBVIOUS
<1> QED BY <1>1, <1>2, <1>3, <1>4, <1>5, <1>6

\* The console before anything is typed.
LEMMA InitEcho == ASSUME Echo!ConsoleAssumption PROVE Echo!Init => EchoInv
<1> SUFFICES ASSUME Echo!Init PROVE EchoInv
  OBVIOUS
<1>1. Echo!Taken = <<>> /\ Echo!Buffered = <<>>
  BY DEF Echo!Init, Echo!Taken, Echo!Buffered
<1>2. <<>> \in Seq(Char) /\ <<>> \o <<>> = <<>>
  OBVIOUS
<1>3. Echo!EchoInOrder
  BY <1>1, <1>2 DEF Echo!Init, Echo!EchoInOrder
<1>4. Echo!TypeOK
  <2>1. echoPutBusy \in BOOLEAN
    BY Zenon DEF Echo!Init
  <2> QED BY <1>2, <2>1 DEF Echo!Init, Echo!TypeOK
<1> QED BY <1>3, <1>4 DEF Echo!Init, EchoInv

\* What is on the way.
LEMMA OnTheWay ==
  ASSUME EchoInv
  PROVE  /\ Echo!Taken \in Seq(Char) /\ Echo!Buffered \in Seq(Char)
         /\ echoKeyboard \in Seq(Char) /\ echoDisplay \in Seq(Char) /\ echoTyped \in Seq(Char)
         /\ echoDisplay \o Echo!Taken \in Seq(Char)
         /\ (echoDisplay \o Echo!Taken) \o Echo!Buffered \in Seq(Char)
<1>1. /\ Echo!Taken \in Seq(Char) /\ Echo!Buffered \in Seq(Char)
      /\ echoKeyboard \in Seq(Char) /\ echoDisplay \in Seq(Char) /\ echoTyped \in Seq(Char)
  BY DEF EchoInv, Echo!TypeOK, Echo!Taken, Echo!Buffered
<1> QED BY <1>1, Characters

\* Each step of the console and its test preserves the invariant.
LEMMA NextEcho == ASSUME Echo!ConsoleAssumption, EchoInv, [Echo!Next]_(Echo!vars) PROVE EchoInv'
<1> USE DEF Echo!device, Echo!semaphores
<1>1. CASE UNCHANGED Echo!vars
  BY <1>1 DEF Echo!vars, EchoInv, Echo!TypeOK, Echo!EchoInOrder, Echo!Taken, Echo!Buffered
<1>2. ASSUME NEW c \in Char, Echo!Type(c) PROVE EchoInv'
  <2>1. /\ echoKeyboard' = Append(echoKeyboard, c) /\ echoTyped' = Append(echoTyped, c)
        /\ UNCHANGED <<echoIncoming, echoPutBusy, echoWriting, echoReadAvail, echoWriteDone,
            echoPc, echoCh, echoDisplay>>
    BY <1>2 DEF Echo!Type
  <2>2. echoKeyboard' \in Seq(Char) /\ echoTyped' \in Seq(Char)
      /\ echoKeyboard' = echoKeyboard \o <<c>> /\ echoTyped' = echoTyped \o <<c>>
    BY <2>1, OnTheWay, Characters
  <2>3. (((echoDisplay \o Echo!Taken) \o Echo!Buffered) \o echoKeyboard) \o <<c>>
      = ((echoDisplay \o Echo!Taken) \o Echo!Buffered) \o (echoKeyboard \o <<c>>)
    <3>1. <<c>> \in Seq(Char) /\ echoKeyboard \in Seq(Char)
        /\ (echoDisplay \o Echo!Taken) \o Echo!Buffered \in Seq(Char)
      BY OnTheWay, Characters
    <3>2. \A s, t, u \in Seq(Char) : (s \o t) \o u = s \o (t \o u)
      BY Characters
    <3> QED BY <3>1, <3>2
  <2>4. Echo!EchoInOrder'
    BY <2>1, <2>2, <2>3 DEF EchoInv, Echo!EchoInOrder, Echo!Taken, Echo!Buffered
  <2> QED BY <2>1, <2>2, <2>4 DEF EchoInv, Echo!TypeOK
<1>3. CASE Echo!CheckCharAvail
  <2>1. /\ echoIncoming = EOF /\ echoKeyboard # <<>> /\ echoIncoming' = Head(echoKeyboard)
        /\ echoKeyboard' = Tail(echoKeyboard)
        /\ echoReadAvail' = echoReadAvail + 1
        /\ UNCHANGED <<echoPutBusy, echoWriting, echoWriteDone, echoPc, echoCh, echoTyped,
            echoDisplay>>
    BY <1>3 DEF Echo!CheckCharAvail
  <2>2. Head(echoKeyboard) \in Char /\ Tail(echoKeyboard) \in Seq(Char)
      /\ echoKeyboard = <<Head(echoKeyboard)>> \o Tail(echoKeyboard)
    BY <2>1, OnTheWay, Characters
  <2>3. Echo!Buffered = <<>> /\ Echo!Buffered' = <<Head(echoKeyboard)>>
      /\ Echo!Taken' = Echo!Taken
    BY <2>1, <2>2 DEF Echo!Buffered, Echo!Taken, Echo!ConsoleAssumption
  <2>4. ((echoDisplay \o Echo!Taken) \o <<Head(echoKeyboard)>>) \o Tail(echoKeyboard)
      = (echoDisplay \o Echo!Taken) \o (<<Head(echoKeyboard)>> \o Tail(echoKeyboard))
        /\ (echoDisplay \o Echo!Taken) \o <<>> = echoDisplay \o Echo!Taken
    <3>1. <<Head(echoKeyboard)>> \in Seq(Char) /\ Tail(echoKeyboard) \in Seq(Char)
        /\ echoDisplay \o Echo!Taken \in Seq(Char)
      BY <2>2, OnTheWay, Characters
    <3>2. \A s, t, u \in Seq(Char) : (s \o t) \o u = s \o (t \o u)
      BY Characters
    <3>3. \A s \in Seq(Char) : s \o <<>> = s
      BY Characters
    <3> QED BY <3>1, <3>2, <3>3
  <2>5. Echo!EchoInOrder'
    BY <2>1, <2>2, <2>3, <2>4 DEF EchoInv, Echo!EchoInOrder
  <2> QED BY <2>1, <2>2, <2>5 DEF EchoInv, Echo!TypeOK, Echo!ConsoleAssumption
<1>4. CASE Echo!ConsoleWriteDone
  <2>1. /\ echoWriting > 0 /\ echoWriting' = echoWriting - 1 /\ echoPutBusy' = FALSE
        /\ echoWriteDone' = echoWriteDone + 1
        /\ UNCHANGED <<echoKeyboard, echoIncoming, echoReadAvail, echoPc, echoCh, echoTyped,
            echoDisplay>>
    BY <1>4 DEF Echo!ConsoleWriteDone
  <2>2. echoWriting = 1 /\ echoWriteDone = 0 /\ echoPc = "writeDone->P"
    BY <2>1 DEF EchoInv, Echo!TypeOK
  <2>3. Echo!EchoInOrder'
    BY <2>1 DEF EchoInv, Echo!EchoInOrder, Echo!Taken, Echo!Buffered
  <2>4. Echo!TypeOK'
    <3>1. echoPutBusy' \in BOOLEAN
      BY <2>1, Zenon
    <3> QED BY <2>1, <2>2, <3>1 DEF EchoInv, Echo!TypeOK
  <2> QED BY <2>1, <2>2, <2>3, <2>4 DEF EchoInv
<1>5. CASE Echo!GetChar
  <2>1. /\ echoPc = "readAvail->P" /\ echoReadAvail > 0 /\ echoReadAvail' = echoReadAvail - 1
        /\ echoCh' = echoIncoming /\ echoIncoming' = EOF
        /\ echoPc' = "PutChar" /\ UNCHANGED <<echoKeyboard, echoPutBusy, echoWriting,
            echoWriteDone, echoTyped, echoDisplay>>
    BY <1>5 DEF Echo!GetChar
  <2>2. echoIncoming \in Char
    BY <2>1 DEF EchoInv, Echo!TypeOK
  <2>3. Echo!Taken = <<>> /\ Echo!Buffered = <<echoIncoming>>
      /\ Echo!Taken' = <<echoIncoming>> /\ Echo!Buffered' = <<>>
    BY <2>1, <2>2 DEF Echo!Taken, Echo!Buffered, Echo!ConsoleAssumption
  <2>4. echoDisplay \o <<>> = echoDisplay /\ (echoDisplay \o <<echoIncoming>>) \o <<>>
      = echoDisplay \o <<echoIncoming>>
    BY <2>2, OnTheWay, Characters
  <2>5. Echo!EchoInOrder'
    BY <2>1, <2>3, <2>4 DEF EchoInv, Echo!EchoInOrder
  <2> QED BY <2>1, <2>2, <2>5 DEF EchoInv, Echo!TypeOK
<1>6. CASE Echo!PutChar
  <2>1. echoPc = "PutChar" /\ ~ echoPutBusy /\ echoCh \in Char
    BY <1>6 DEF Echo!PutChar, EchoInv, Echo!TypeOK
  <2>2. /\ echoDisplay' = Append(echoDisplay, echoCh) /\ echoPutBusy' = TRUE
        /\ echoWriting' = echoWriting + 1 /\ echoPc' = "writeDone->P"
        /\ UNCHANGED <<echoKeyboard, echoIncoming, echoReadAvail, echoWriteDone, echoCh,
            echoTyped>>
    BY <1>6, <2>1 DEF Echo!PutChar
  <2>3. Echo!Taken = <<echoCh>> /\ Echo!Taken' = <<>> /\ Echo!Buffered' = Echo!Buffered
    BY <2>1, <2>2 DEF Echo!Taken, Echo!Buffered
  <2>4. echoDisplay' \in Seq(Char) /\ echoDisplay' = echoDisplay \o <<echoCh>>
      /\ (echoDisplay \o <<echoCh>>) \o <<>> = echoDisplay \o <<echoCh>>
    BY <2>1, <2>2, OnTheWay, Characters
  <2>5. Echo!EchoInOrder'
    BY <2>2, <2>3, <2>4 DEF EchoInv, Echo!EchoInOrder
  <2> QED BY <2>1, <2>2, <2>4, <2>5 DEF EchoInv, Echo!TypeOK
<1>7. CASE Echo!Written
  <2>1. /\ echoPc = "writeDone->P" /\ echoWriteDone > 0 /\ echoWriteDone' = echoWriteDone - 1
        /\ echoPc' \in {"halted", "readAvail->P"}
        /\ UNCHANGED <<echoKeyboard, echoIncoming, echoPutBusy, echoWriting, echoReadAvail,
            echoCh, echoTyped, echoDisplay>>
    BY <1>7 DEF Echo!Written
  <2>2. echoWriting = 0 /\ echoWriteDone = 1 /\ ~ echoPutBusy
    BY <2>1 DEF EchoInv, Echo!TypeOK
  <2>3. Echo!EchoInOrder'
    BY <2>1 DEF EchoInv, Echo!EchoInOrder, Echo!Taken, Echo!Buffered
  <2> QED BY <2>1, <2>2, <2>3 DEF EchoInv, Echo!TypeOK
<1> QED BY <1>1, <1>2, <1>3, <1>4, <1>5, <1>6, <1>7 DEF Echo!Next, Echo!ConsoleTest

-----------------------------------------------------------------------------
(* Induction over the natural numbers, for a set, and what is defined by   *)
(* it: powers of two and functions that are computed step by step.         *)

LEMMA SetInduction ==
  ASSUME NEW P, 0 \in P, \A n \in Nat : n \in P => n + 1 \in P
  PROVE  Nat \subseteq P
<1> DEFINE R == {ss \in Nat \X Nat : ss[1] < ss[2]}
           T == Nat \ P
<1>1. IsWellFoundedOn(R, Nat)
  <2>1. R = OpToRel(<, Nat)
    BY DEF OpToRel
  <2> QED BY <2>1, NatLessThanWellFounded
<1>2. SUFFICES ASSUME T # {} PROVE FALSE
  OBVIOUS
<1>3. PICK x \in T : \A y \in T : ~ (<<y, x>> \in R)
  <2>1. T \subseteq Nat
    OBVIOUS
  <2> HIDE DEF R, T
  <2> QED BY <1>1, <1>2, <2>1, WFMin
<1>4. x # 0 /\ x - 1 \in Nat /\ x - 1 < x
  OBVIOUS
<1>5. x - 1 \in T
  BY <1>4
<1> QED BY <1>3, <1>4, <1>5

\* The functions whose every value is a step from the one before.
Computations(A, start, step, N) ==
  {f \in [0 .. N -> A] : f[0] = start /\ \A n \in 1 .. N : f[n] = step[<<n, f[n - 1]>>]}

LEMMA StepByStep ==
  ASSUME NEW A, NEW start \in A, NEW step \in [Nat \X A -> A], NEW N \in Nat
  PROVE  Computations(A, start, step, N) # {}
<1> DEFINE Good(m, f) == f[0] = start /\ \A n \in 1 .. m : f[n] = step[<<n, f[n - 1]>>]
           P == {m \in Nat : \E f \in [0 .. m -> A] : Good(m, f)}
<1>1. 0 \in P
  <2> DEFINE f == [n \in 0 .. 0 |-> start]
  <2>1. f \in [0 .. 0 -> A]
    OBVIOUS
  <2>2. Good(0, f)
    OBVIOUS
  <2> QED BY <2>1, <2>2
<1>2. ASSUME NEW m \in Nat, m \in P
      PROVE  m + 1 \in P
  <2>1. PICK f \in [0 .. m -> A] : Good(m, f)
    BY <1>2
  <2> DEFINE g == [n \in 0 .. m + 1 |-> IF n = m + 1 THEN step[<<m + 1, f[m]>>] ELSE f[n]]
  <2>2. f[m] \in A /\ step[<<m + 1, f[m]>>] \in A
    BY <2>1
  <2>3. g \in [0 .. m + 1 -> A]
    BY <2>1, <2>2
  <2>4. g[0] = start
    BY <2>1
  <2>5. ASSUME NEW n \in 1 .. m + 1
        PROVE  g[n] = step[<<n, g[n - 1]>>]
    <3>1. n - 1 \in 0 .. m + 1 /\ n - 1 # m + 1 /\ g[n - 1] = f[n - 1]
      OBVIOUS
    <3>2. CASE n = m + 1
      BY <3>1, <3>2
    <3>3. CASE n # m + 1
      <4>1. n \in 1 .. m /\ g[n] = f[n]
        BY <3>3
      <4> QED BY <2>1, <3>1, <4>1
    <3> QED BY <3>2, <3>3
  <2> HIDE DEF g
  <2>6. Good(m + 1, g)
    BY <2>4, <2>5
  <2> HIDE DEF Good
  <2> QED BY <2>3, <2>6
<1>3. N \in P
  <2> HIDE DEF P
  <2> QED BY <1>1, <1>2, SetInduction
<1> QED BY <1>3 DEF Computations

LEMMA Powers ==
  /\ 2 ^ 0 = 1
  /\ \A n \in Nat : 2 ^ n \in Nat /\ 2 ^ n > 0 /\ 2 ^ (n + 1) = 2 * 2 ^ n
<1>1. ASSUME NEW n \in Nat
      PROVE  2 ^ n \in Nat /\ 2 ^ (n + 1) = 2 * 2 ^ n
  <2> DEFINE S == 1 .. n
             x == n + 1
             Without == SUBSET S
             With == {T \cup {x} : T \in SUBSET S}
  <2>1. IsFiniteSet(S) /\ Cardinality(S) = n
    BY FS_Interval
  <2>2. IsFiniteSet(S \cup {x}) /\ Cardinality(S \cup {x}) = n + 1
    BY <2>1, FS_AddElement
  <2>3. /\ IsFiniteSet(Without) /\ Cardinality(Without) = 2 ^ n
        /\ Cardinality(SUBSET (S \cup {x})) = 2 ^ (n + 1)
    BY <2>1, <2>2, FS_SUBSET
  <2>4. SUBSET (S \cup {x}) = Without \cup With
    <3>1. ASSUME NEW U \in SUBSET (S \cup {x})
          PROVE  U \in Without \cup With
      <4>1. CASE x \in U
        <5>1. U \ {x} \in SUBSET S /\ U = (U \ {x}) \cup {x}
          BY <4>1
        <5> QED BY <5>1
      <4>2. CASE x \notin U
        BY <4>2
      <4> QED BY <4>1, <4>2
    <3> QED BY <3>1
  <2>5. Without \cap With = {}
    <3>1. x \notin S
      OBVIOUS
    <3> HIDE DEF S, x
    <3> QED BY <3>1
  <2>6. IsFiniteSet(With) /\ Cardinality(With) = 2 ^ n
    <3> DEFINE f == [T \in Without |-> T \cup {x}]
    <3>1. x \notin S
      OBVIOUS
    <3> HIDE DEF S, x
    <3>2. \A T, U \in Without : T \cup {x} = U \cup {x} => T = U
      <4> SUFFICES ASSUME NEW T \in Without, NEW U \in Without, T \cup {x} = U \cup {x}
                   PROVE  T = U
        OBVIOUS
      <4>1. x \notin T /\ x \notin U
        BY <3>1
      <4> QED BY <4>1
    <3>3. With = {f[T] : T \in Without} /\ \A T \in Without : f[T] = T \cup {x}
      OBVIOUS
    <3>4. f \in [Without -> With]
      OBVIOUS
    <3> HIDE DEF f, Without, With
    <3>5. f \in Bijection(Without, With)
      BY <3>2, <3>3, <3>4 DEF Bijection, Injection, Surjection, IsInjective
    <3> QED BY <2>3, <3>5, FS_Bijection DEF ExistsBijection
  <2>7. 2 ^ (n + 1) = 2 ^ n + 2 ^ n - Cardinality({})
    <3> HIDE DEF Without, With, S, x
    <3> QED BY <2>3, <2>4, <2>5, <2>6, FS_Union
  <2>8. 2 ^ n \in Nat
    BY <2>3, FS_CardinalityType
  <2> QED BY <2>7, <2>8, FS_EmptySet
<1> DEFINE P == {n \in Nat : 2 ^ n > 0}
<1>2. 0 \in P
  OBVIOUS
<1>3. \A n \in Nat : n \in P => n + 1 \in P
  BY <1>1
<1>4. Nat \subseteq P
  <2> HIDE DEF P
  <2> QED BY <1>2, <1>3, SetInduction
<1> QED BY <1>1, <1>4

LEMMA PowersAdd ==
  ASSUME NEW m \in Nat, NEW n \in Nat
  PROVE  2 ^ (m + n) = 2 ^ m * 2 ^ n
<1> DEFINE P == {k \in Nat : 2 ^ (m + k) = 2 ^ m * 2 ^ k}
<1>1. 0 \in P
  <2>1. m + 0 = m /\ 2 ^ m * 1 = 2 ^ m
    BY Powers
  <2> QED BY <2>1, Powers
<1>2. ASSUME NEW k \in Nat, k \in P PROVE k + 1 \in P
  <2>1. 2 ^ (m + (k + 1)) = 2 * 2 ^ (m + k)
    <3>1. m + (k + 1) = (m + k) + 1 /\ m + k \in Nat
      OBVIOUS
    <3> QED BY <3>1, Powers
  <2>2. 2 ^ (m + k) = 2 ^ m * 2 ^ k
    BY <1>2
  <2>3. 2 ^ (k + 1) = 2 * 2 ^ k
    BY Powers
  <2>4. 2 * (2 ^ m * 2 ^ k) = 2 ^ m * (2 * 2 ^ k)
    <3>1. 2 ^ m \in Nat /\ 2 ^ k \in Nat
      BY Powers
    <3>2. \A u, v \in Nat : 2 * (u * v) = u * (2 * v)
      BY Z3
    <3> QED BY <3>1, <3>2
  <2> QED BY <2>1, <2>2, <2>3, <2>4
<1>3. n \in P
  <2> HIDE DEF P
  <2> QED BY <1>1, <1>2, SetInduction
<1> QED BY <1>3

-----------------------------------------------------------------------------
(* Words, and their bytes.                                                 *)

LEMMA SizeIs ==
  ASSUME User!UserProgramAssumption
  PROVE  /\ User!Size \in Nat \ {0} /\ User!Size % 2 = 0
         /\ \E h \in Nat \ {0} : User!Size = 2 * h
         /\ User!Word \subseteq Nat
         /\ \A n \in Int : User!ToWord(n) \in User!Word
<1>1. WordBits - 1 \in Nat /\ WordBits = (WordBits - 1) + 1
  BY DEF User!UserProgramAssumption
<1> DEFINE h == 2 ^ (WordBits - 1)
<1>2. h \in Nat \ {0} /\ User!Size = 2 * h
  BY <1>1, Powers DEF User!Size
<1> HIDE DEF h
<1>3. User!Size \in Nat \ {0} /\ User!Size % 2 = 0
  BY <1>2
<1>4. \A n \in Int : User!ToWord(n) \in User!Word
  <2> SUFFICES ASSUME NEW n \in Int PROVE n % User!Size \in 0 .. User!Size - 1
    BY DEF User!ToWord, User!Word
  <2> HIDE DEF User!Size
  <2> QED BY <1>3, Z3
<1> QED BY <1>2, <1>3, <1>4 DEF User!Word

LEMMA Quarters ==
  ASSUME User!UserProgramAssumption, NEW Q, Q = User!Bits(1)
  PROVE  /\ Q \in Nat /\ Q > 1 /\ Q % 2 = 0
         /\ User!Bits(0) = 1
         /\ User!Bits(2) = Q * Q /\ User!Bits(2) \in Nat \ {0}
         /\ User!Bits(3) = Q * User!Bits(2) /\ User!Bits(3) \in Nat \ {0}
         /\ User!Size = Q * User!Bits(3)
         /\ User!Size = User!Bits(2) * User!Bits(2)
<1>1. PICK w \in Nat : w > 0 /\ WordBits = 4 * w
  <2>1. WordBits \div 4 \in Nat /\ WordBits = 4 * (WordBits \div 4) /\ WordBits \div 4 > 0
    BY DEF User!UserProgramAssumption
  <2> QED BY <2>1
<1>2. WordBits \div 4 = w
  BY <1>1
<1>3. User!Bits(0) = 2 ^ 0 /\ Q = 2 ^ w
  <2>1. 0 * w = 0 /\ 1 * w = w
    BY <1>1
  <2> QED BY <1>2, <2>1 DEF User!Bits
<1>4. User!Bits(2) = 2 ^ (w + w)
  <2>1. 2 * w = w + w
    BY <1>1
  <2> QED BY <1>2, <2>1 DEF User!Bits
<1>5. User!Bits(3) = 2 ^ (w + (w + w))
  <2>1. 3 * w = w + (w + w)
    BY <1>1
  <2> QED BY <1>2, <2>1 DEF User!Bits
<1>6. User!Size = 2 ^ (w + (w + (w + w))) /\ User!Size = 2 ^ ((w + w) + (w + w))
  <2>1. WordBits = w + (w + (w + w)) /\ WordBits = (w + w) + (w + w)
    BY <1>1
  <2> QED BY <2>1 DEF User!Size
<1>7. \A k \in Nat : 2 ^ k \in Nat /\ 2 ^ k > 0
  BY Powers
<1>8. Q \in Nat /\ Q > 1 /\ Q % 2 = 0
  <2>1. w - 1 \in Nat /\ w = (w - 1) + 1
    BY <1>1
  <2>2. Q = 2 * 2 ^ (w - 1) /\ 2 ^ (w - 1) \in Nat /\ 2 ^ (w - 1) > 0
    BY <1>3, <2>1, Powers
  <2> QED BY <2>2
<1>9. w + w \in Nat /\ w + (w + w) \in Nat
  BY <1>1
<1>10. /\ User!Bits(2) = Q * Q
       /\ User!Bits(3) = Q * User!Bits(2)
       /\ User!Size = Q * User!Bits(3)
       /\ User!Size = User!Bits(2) * User!Bits(2)
  <2> HIDE DEF User!Bits, User!Size
  <2> QED BY <1>3, <1>4, <1>5, <1>6, <1>9, PowersAdd
<1> QED BY <1>3, <1>4, <1>5, <1>7, <1>8, <1>9, <1>10, Powers

\* The word with given ones.
LEMMA WithOnesIs ==
  ASSUME User!UserProgramAssumption, NEW places
  PROVE  User!WithOnes(places) \in User!Word
<1> DEFINE bit(n) == IF n - 1 \in places THEN 2 ^ (n - 1) ELSE 0
           step == [p \in Nat \X Nat |-> p[2] + (IF p[1] = 0 THEN 0 ELSE bit(p[1]))]
           sum == CHOOSE f : f = [n \in 0 .. WordBits |-> IF n = 0 THEN 0 ELSE f[n - 1] + bit(n)]
<1>1. WordBits \in Nat
  BY DEF User!UserProgramAssumption
<1>2. \A n \in Nat \ {0} : bit(n) \in Nat /\ bit(n) <= 2 ^ (n - 1)
  <2> SUFFICES ASSUME NEW n \in Nat \ {0} PROVE bit(n) \in Nat /\ bit(n) <= 2 ^ (n - 1)
    OBVIOUS
  <2>1. n - 1 \in Nat
    OBVIOUS
  <2>2. 2 ^ (n - 1) \in Nat
    BY <2>1, Powers
  <2> QED BY <2>2
<1> HIDE DEF bit
<1>3. step \in [Nat \X Nat -> Nat]
  BY <1>2
<1>4. \A n \in Nat \ {0}, v \in Nat : step[<<n, v>>] = v + bit(n)
  OBVIOUS
<1>5. \E f \in [0 .. WordBits -> Nat] :
        f = [n \in 0 .. WordBits |-> IF n = 0 THEN 0 ELSE f[n - 1] + bit(n)]
  <2> HIDE DEF step
  <2>1. PICK f \in [0 .. WordBits -> Nat] :
          f[0] = 0 /\ \A n \in 1 .. WordBits : f[n] = step[<<n, f[n - 1]>>]
    <3>1. Computations(Nat, 0, step, WordBits) # {}
      BY <1>1, <1>3, StepByStep
    <3> QED BY <3>1 DEF Computations
  <2>2. ASSUME NEW n \in 1 .. WordBits
        PROVE  f[n] = f[n - 1] + bit(n)
    <3>1. n - 1 \in 0 .. WordBits /\ n \in Nat \ {0}
      BY <1>1
    <3>2. f[n - 1] \in Nat
      BY <3>1
    <3> QED BY <1>4, <2>1, <3>1, <3>2
  <2>3. \A n \in 0 .. WordBits : f[n] = IF n = 0 THEN 0 ELSE f[n - 1] + bit(n)
    BY <1>1, <2>1, <2>2
  <2>4. f = [n \in 0 .. WordBits |-> f[n]]
    OBVIOUS
  <2>5. f = [n \in 0 .. WordBits |-> IF n = 0 THEN 0 ELSE f[n - 1] + bit(n)]
    BY <2>3, <2>4
  <2> QED BY <2>5
<1>6. sum = [n \in 0 .. WordBits |-> IF n = 0 THEN 0 ELSE sum[n - 1] + bit(n)]
  BY <1>5
<1>7. User!WithOnes(places) = sum[WordBits]
  BY DEF User!WithOnes, bit
<1> HIDE DEF sum
<1> DEFINE P == {n \in Nat : n <= WordBits => sum[n] \in 0 .. 2 ^ n - 1}
<1>8. 0 \in P
  BY <1>1, <1>6, Powers
<1>9. ASSUME NEW n \in Nat, n \in P PROVE n + 1 \in P
  <2> SUFFICES ASSUME n + 1 <= WordBits PROVE sum[n + 1] \in 0 .. 2 ^ (n + 1) - 1
    OBVIOUS
  <2>1. n + 1 \in 0 .. WordBits /\ n + 1 # 0 /\ (n + 1) - 1 = n
    BY <1>1
  <2>2. sum[n + 1] = sum[n] + bit(n + 1)
    BY <1>6, <2>1
  <2>3. sum[n] \in 0 .. 2 ^ n - 1
    BY <1>1, <1>9
  <2>4. bit(n + 1) \in Nat /\ bit(n + 1) <= 2 ^ n
    BY <1>2, <2>1
  <2>5. 2 ^ n \in Nat /\ 2 ^ (n + 1) = 2 * 2 ^ n
    BY Powers
  <2> QED BY <2>2, <2>3, <2>4, <2>5
<1>10. WordBits \in P
  <2> HIDE DEF P
  <2> QED BY <1>1, <1>8, <1>9, SetInduction
<1>11. sum[WordBits] \in 0 .. 2 ^ WordBits - 1
  BY <1>1, <1>10
<1> QED BY <1>7, <1>11 DEF User!Word, User!Size

-----------------------------------------------------------------------------
(* The product of two words, in two words.                                 *)

\* The remainder of a number that is less than one divisor off.
LEMMA Remainder ==
  ASSUME NEW s \in Nat, s > 0, NEW n \in Int, -s <= n, n < 2 * s
  PROVE  n % s = IF n < 0 THEN n + s ELSE IF n < s THEN n ELSE n - s
  BY SMT

LEMMA Small ==
  ASSUME NEW s \in Nat \ {0}
  PROVE  /\ \A n \in Int : 0 <= n /\ n < s => n % s = n
         /\ \A n \in Int : - s <= n /\ n < 0 => n % s = n + s
  BY Remainder

\* Products grow with their factors.
LEMMA ProductGrows ==
  ASSUME NEW m \in Nat, NEW n \in Nat, NEW p \in Nat, m <= n
  PROVE  /\ m * p \in Nat /\ n * p \in Nat /\ m * p <= n * p
         /\ p * m = m * p
         /\ p > 0 /\ m < n => m * p + p <= n * p
<1>1. PICK d \in Nat : n = m + d
  <2>1. n - m \in Nat /\ n = m + (n - m)
    OBVIOUS
  <2> QED BY <2>1
<1>2. \A u, v, w \in Nat : (u + v) * w = u * w + v * w /\ u * w \in Nat /\ u * w = w * u
  BY Z3
<1>3. n * p = m * p + d * p /\ d * p \in Nat /\ m * p \in Nat /\ p * m = m * p
  BY <1>1, <1>2
<1>4. d > 0 => d * p >= p
  <2> SUFFICES ASSUME d > 0 PROVE d * p >= p
    OBVIOUS
  <2>1. d - 1 \in Nat /\ d = (d - 1) + 1
    OBVIOUS
  <2>2. d * p = (d - 1) * p + 1 * p /\ (d - 1) * p \in Nat
    BY <1>2, <2>1
  <2> QED BY <2>2
<1> QED BY <1>1, <1>3, <1>4

\* Two numbers of two words each are added word by word, with a carry.
AddsUp(s, hi, lo, bHi, bLo, carry) ==
  /\ ((hi + carry + bHi) % s) * s + ((lo + bLo) % s) = (hi * s + lo) + (bHi * s + bLo)
  /\ (lo + bLo) % s < bLo <=> carry = 1

LEMMA TwoWordSum ==
  ASSUME NEW s \in Nat \ {0},
         NEW hi \in 0 .. s - 1, NEW lo \in 0 .. s - 1,
         NEW bHi \in 0 .. s - 1, NEW bLo \in 0 .. s - 1,
         NEW carry \in {0, 1}, carry = 1 <=> lo + bLo >= s,
         (hi * s + lo) + (bHi * s + bLo) < s * s
  PROVE  AddsUp(s, hi, lo, bHi, bLo, carry)
<1>1. (lo + bLo) % s = lo + bLo - carry * s
  BY Remainder
<1> DEFINE top == hi + carry + bHi
           low == (lo + bLo) % s
<1>2. top \in Nat /\ low \in 0 .. s - 1
  BY <1>1
<1>3. top * s = hi * s + carry * s + bHi * s
  <2>1. \A u, v, w, p \in Nat : (u + v + w) * p = u * p + v * p + w * p
    BY Z3
  <2> QED BY <2>1
<1>4. /\ hi * s \in Nat /\ bHi * s \in Nat
      /\ top * s + low = (hi * s + lo) + (bHi * s + bLo)
  <2>1. hi * s \in Nat /\ bHi * s \in Nat
    BY ProductGrows
  <2> QED BY <1>1, <1>3, <2>1
<1> HIDE DEF top, low
<1>5. top < s
  <2> SUFFICES ASSUME s <= top PROVE FALSE
    BY <1>2
  <2>1. s * s <= top * s /\ s * s \in Nat /\ top * s \in Nat
    BY <1>2, ProductGrows
  <2> QED BY <1>2, <1>4, <2>1
<1>6. top % s = top
  BY <1>2, <1>5, Remainder
<1>7. low < bLo <=> carry = 1
  BY <1>1 DEF low
<1>8. (top % s) * s + low = (hi * s + lo) + (bHi * s + bLo)
  BY <1>4, <1>6
<1> QED BY <1>7, <1>8 DEF top, low, AddsUp

\* A round of the loop of Mult, in two words of s: what is left of the multiplier
\* is halved, the multiplicand doubled, and added to the product for a one.
LEMMA MultRoundIs ==
  ASSUME NEW s \in Nat \ {0}, User!Size = s, NEW h \in Nat \ {0}, s = 2 * h,
         NEW m \in [hi : 0 .. s - 1, lo : 0 .. s - 1, bHi : 0 .. s - 1, bLo : 0 .. s - 1,
                    a : 0 .. s - 1],
         (m.hi * s + m.lo) + (m.bHi * s + m.bLo) < s * s
  PROVE  LET n == User!MultRound(m) IN
         /\ n.hi \in 0 .. s - 1 /\ n.lo \in 0 .. s - 1 /\ n.a \in 0 .. s - 1
         /\ n.bHi \in 0 .. s - 1 /\ n.bLo \in 0 .. s - 1
         /\ n.hi * s + n.lo = (m.hi * s + m.lo)
                               + (IF m.a % 2 = 1 THEN m.bHi * s + m.bLo ELSE 0)
         /\ 2 * (m.bHi * s + m.bLo) < s * s
              => n.bHi * s + n.bLo = 2 * (m.bHi * s + m.bLo)
         /\ \E t \in Int : n.a = (m.a - (m.a % 2)) \div 2 + h * t
<1> DEFINE n == User!MultRound(m)
           hi == m.hi
           lo == m.lo
           bHi == m.bHi
           bLo == m.bLo
           a == m.a
<1>1. /\ hi \in 0 .. s - 1 /\ lo \in 0 .. s - 1 /\ a \in 0 .. s - 1
      /\ bHi \in 0 .. s - 1 /\ bLo \in 0 .. s - 1
  OBVIOUS
<1>2. s \div 2 = h
  OBVIOUS
<1> DEFINE carry == IF (lo + bLo) % s < bLo THEN 1 ELSE 0
           carry2 == IF bLo >= h THEN 1 ELSE 0
           signed == IF a >= h THEN a - s ELSE a
<1>3. /\ n.hi = IF a % 2 = 1 THEN (hi + carry + bHi) % s ELSE hi
      /\ n.lo = IF a % 2 = 1 THEN (lo + bLo) % s ELSE lo
      /\ n.bHi = (2 * bHi + carry2) % s
      /\ n.bLo = (2 * bLo) % s
      /\ n.a = (signed \div 2) % s
  <2> HIDE DEF User!Size
  <2> QED BY <1>2 DEF User!MultRound, User!ToWord, User!Signed, User!IsNegative
<1> HIDE DEF n, hi, lo, bHi, bLo, a
<1>4. \A i \in Int : i % s \in 0 .. s - 1
  BY Z3
<1>5. carry = 1 <=> lo + bLo >= s
  BY <1>1, Remainder
<1>6. (hi * s + lo) + (bHi * s + bLo) < s * s
      => ((hi + carry + bHi) % s) * s + ((lo + bLo) % s) = (hi * s + lo) + (bHi * s + bLo)
  <2>1. carry \in {0, 1}
    OBVIOUS
  <2> HIDE DEF carry
  <2>2. SUFFICES ASSUME (hi * s + lo) + (bHi * s + bLo) < s * s
                 PROVE  ((hi + carry + bHi) % s) * s + ((lo + bLo) % s) = (hi * s + lo) + (bHi * s + bLo)
    OBVIOUS
  <2>3. AddsUp(s, hi, lo, bHi, bLo, carry)
    BY <1>1, <1>5, <2>1, <2>2, TwoWordSum
  <2> QED BY <2>3 DEF AddsUp
<1>7. 2 * (bHi * s + bLo) < s * s
      => ((2 * bHi + carry2) % s) * s + ((2 * bLo) % s) = 2 * (bHi * s + bLo)
  <2>1. carry2 \in {0, 1} /\ (carry2 = 1 <=> bLo + bLo >= s)
    BY <1>1
  <2> HIDE DEF carry2
  <2>2. /\ bHi * s \in Nat
        /\ bHi + carry2 + bHi = 2 * bHi + carry2 /\ bLo + bLo = 2 * bLo
    BY <1>1, <2>1, ProductGrows
  <2>3. ASSUME (bHi * s + bLo) + (bHi * s + bLo) < s * s
        PROVE  ((bHi + carry2 + bHi) % s) * s + ((bLo + bLo) % s) = (bHi * s + bLo) + (bHi * s + bLo)
    <3>1. AddsUp(s, bHi, bLo, bHi, bLo, carry2)
      BY <1>1, <2>1, <2>3, TwoWordSum
    <3> QED BY <3>1 DEF AddsUp
  <2>4. (bHi * s + bLo) + (bHi * s + bLo) = 2 * (bHi * s + bLo)
    BY <1>1, <2>2
  <2> QED BY <2>2, <2>3, <2>4
<1>8. \E t \in Int : (signed \div 2) % s = (a - (a % 2)) \div 2 + h * t
  <2>1. signed \div 2 = (a - (a % 2)) \div 2 \/ signed \div 2 = (a - (a % 2)) \div 2 - h
    BY <1>1
  <2>2. (a - (a % 2)) \div 2 \in 0 .. h - 1
    BY <1>1
  <2> DEFINE half == (a - (a % 2)) \div 2
  <2>3. (signed \div 2) % s = half \/ (signed \div 2) % s = half - h + s
    <3>1. half % s = half /\ (half - h) % s = half - h + s
      <4>1. half \in 0 .. h - 1
        BY <2>2
      <4> HIDE DEF half
      <4>2. half \in Int /\ - s <= half /\ half < 2 * s /\ 0 <= half /\ half < s
        BY <4>1
      <4>3. half - h \in Int /\ - s <= half - h /\ half - h < 2 * s /\ half - h < 0
        BY <4>1
      <4>4. half % s = half
        BY <4>2, Small
      <4>5. (half - h) % s = (half - h) + s
        BY <4>3, Small
      <4> QED BY <4>4, <4>5
    <3> HIDE DEF half, signed
    <3> QED BY <2>1, <3>1 DEF half
  <2>4. half = half + h * 0 /\ half - h + s = half + h * 1
    BY <2>2
  <2> HIDE DEF half, signed
  <2>5. PICK t \in {0, 1} : (signed \div 2) % s = half + h * t
    BY <2>3, <2>4
  <2>6. t \in Int
    OBVIOUS
  <2> QED BY <2>5, <2>6, Zenon DEF half
<1>9. /\ n.hi \in 0 .. s - 1 /\ n.lo \in 0 .. s - 1 /\ n.a \in 0 .. s - 1
      /\ n.bHi \in 0 .. s - 1 /\ n.bLo \in 0 .. s - 1
  <2>1. hi + carry + bHi \in Int /\ lo + bLo \in Int /\ 2 * bHi + carry2 \in Int /\ 2 * bLo \in Int
        /\ signed \div 2 \in Int
    BY <1>1
  <2> HIDE DEF carry, carry2, signed
  <2> QED BY <1>1, <1>3, <1>4, <2>1
<1>10. (hi * s + lo) + (bHi * s + bLo) < s * s
  BY DEF hi, lo, bHi, bLo
<1>11. n.hi * s + n.lo = (hi * s + lo) + (IF a % 2 = 1 THEN bHi * s + bLo ELSE 0)
  <2>1. hi * s \in Nat
    BY <1>1, ProductGrows
  <2> HIDE DEF carry, carry2, signed
  <2>2. CASE a % 2 = 1
    BY <2>2, <1>3, <1>6, <1>10
  <2>3. CASE a % 2 # 1
    <3>1. n.hi = hi /\ n.lo = lo
      BY <2>3, <1>3
    <3> QED BY <2>1, <2>3, <3>1, <1>1
  <2> QED BY <2>2, <2>3
<1>12. 2 * (bHi * s + bLo) < s * s => n.bHi * s + n.bLo = 2 * (bHi * s + bLo)
  <2> HIDE DEF carry, carry2, signed
  <2> QED BY <1>3, <1>7
<1>13. \E t \in Int : n.a = (a - (a % 2)) \div 2 + h * t
  <2> HIDE DEF signed
  <2> QED BY <1>3, <1>8
<1> QED BY <1>9, <1>11, <1>12, <1>13 DEF n, hi, lo, bHi, bLo, a

\* The registers of Mult's loop.
MultState == [hi : User!Word, lo : User!Word, bHi : User!Word, bLo : User!Word, a : User!Word]

LEMMA MultRoundType ==
  ASSUME User!UserProgramAssumption, NEW m \in MultState
  PROVE  User!MultRound(m) \in MultState
<1>1. /\ m.hi \in User!Word /\ m.lo \in User!Word /\ m.bHi \in User!Word /\ m.bLo \in User!Word
      /\ m.a \in User!Word
  BY DEF MultState
<1>2. User!Word \subseteq Nat /\ \A n \in Int : User!ToWord(n) \in User!Word
  BY SizeIs
<1>3. /\ m.hi \in Int /\ m.lo \in Int /\ m.bHi \in Int /\ m.bLo \in Int /\ m.a \in Int
  <2>1. \A w \in User!Word : w \in Int
    <3> HIDE DEF User!Word
    <3> QED BY <1>2
  <2> HIDE DEF User!Word
  <2> QED BY <1>1, <2>1
<1>4. User!Signed(m.a) \div 2 \in Int
  <2>1. User!Size \in Nat
    BY SizeIs
  <2> HIDE DEF User!Size
  <2>2. User!Signed(m.a) \in Int
    BY <1>3, <2>1 DEF User!Signed
  <2> QED BY <2>2, Z3
<1> DEFINE n == User!MultRound(m)
<1> HIDE DEF User!Word
<1>5. \A c \in {0, 1} : m.hi + c + m.bHi \in Int /\ 2 * m.bHi + c \in Int
  BY <1>3
<1>6. m.lo + m.bLo \in Int /\ 2 * m.bLo \in Int
  BY <1>3
<1>7. n.hi \in User!Word
  BY <1>1, <1>2, <1>5 DEF User!MultRound
<1>8. n.lo \in User!Word
  BY <1>1, <1>2, <1>6 DEF User!MultRound
<1>9. n.bHi \in User!Word
  BY <1>2, <1>5 DEF User!MultRound
<1>10. n.bLo \in User!Word
  BY <1>2, <1>6 DEF User!MultRound
<1>11. n.a \in User!Word
  BY <1>2, <1>4 DEF User!MultRound
<1>12. n = [hi |-> n.hi, lo |-> n.lo, bHi |-> n.bHi, bLo |-> n.bLo, a |-> n.a]
  BY DEF User!MultRound
<1> HIDE DEF n
<1>13. n \in MultState
  BY <1>7, <1>8, <1>9, <1>10, <1>11, <1>12 DEF MultState
<1> QED BY <1>13 DEF n

\* After k rounds, with p = 2 ^ k: the low k bits of the multiplier x have been
\* multiplied, the others are left, beneath copies of its sign.
Multiplied(m, x, y, s, p, r) ==
  \E low \in 0 .. p - 1, left \in Nat, t \in Int :
    /\ x = low + p * left
    /\ m.a = left + r * t
    /\ m.hi * s + m.lo = y * low
    /\ m.bHi * s + m.bLo = y * p

LEMMA RoundMultiplies ==
  ASSUME NEW s \in Nat \ {0}, User!Size = s, NEW m \in MultState,
         NEW x \in User!Word, NEW y \in User!Word,
         NEW p \in Nat \ {0}, NEW r \in Nat \ {0}, s = 2 * (p * r),
         Multiplied(m, x, y, s, p, 2 * r)
  PROVE  Multiplied(User!MultRound(m), x, y, s, 2 * p, r)
<1>1. PICK low \in 0 .. p - 1, left \in Nat, t \in Int :
        /\ x = low + p * left
        /\ m.a = left + (2 * r) * t
        /\ m.hi * s + m.lo = y * low
        /\ m.bHi * s + m.bLo = y * p
  BY DEF Multiplied
<1> DEFINE n == User!MultRound(m)
           bit == left % 2
           rest == (left - (left % 2)) \div 2
           h == p * r
<1>2. User!Word = 0 .. s - 1
  BY DEF User!Word
<1> HIDE DEF User!Size
<1>3. h \in Nat \ {0} /\ s = 2 * h
  BY Z3
<1>4. left = 2 * rest + bit /\ rest \in Nat /\ bit \in {0, 1}
  BY SMT
<1>5. r * t \in Int /\ (2 * r) * t = 2 * (r * t)
  BY Z3
<1>6. m.a % 2 = bit /\ (m.a - (m.a % 2)) \div 2 = rest + r * t
  <2> DEFINE v == r * t
  <2>1. v \in Int /\ m.a = (2 * rest + bit) + 2 * v
    BY <1>1, <1>4, <1>5
  <2> HIDE DEF v, bit, rest
  <2> QED BY <1>4, <2>1 DEF v
<1>7. /\ y * low \in Nat /\ y * p \in Nat /\ y * (2 * p) = 2 * (y * p)
      /\ y * (low + p) = y * low + y * p
      /\ s * s \in Nat
      /\ y * low + y * p < s * s
      /\ y * (2 * p) < s * s
  <2>1. y \in Nat /\ low \in Nat /\ y < s
    BY <1>2
  <2>2. /\ y * low \in Nat /\ y * p \in Nat /\ y * (2 * p) = 2 * (y * p)
        /\ y * (low + p) = y * low + y * p
        /\ s * s \in Nat
    BY <2>1, Z3
  <2>3. 2 * p <= s
    <3>1. 1 * p <= r * p /\ r * p = p * r
      BY ProductGrows
    <3> QED BY <3>1, <1>3
  <2>4. y * (2 * p) < s * s
    <3>1. (2 * p) * y <= s * y /\ (2 * p) * y = y * (2 * p) /\ s * y = y * s
      BY <2>1, <2>3, ProductGrows
    <3>2. y * s + s <= s * s
      BY <2>1, ProductGrows
    <3> QED BY <2>1, <2>2, <3>1, <3>2
  <2>5. y * low + y * p <= y * (2 * p)
    <3>1. low * y <= p * y /\ low * y = y * low /\ p * y = y * p
      BY <2>1, ProductGrows
    <3> QED BY <2>2, <3>1
  <2> QED BY <2>2, <2>4, <2>5
<1>8. m \in [hi : 0 .. s - 1, lo : 0 .. s - 1, bHi : 0 .. s - 1, bLo : 0 .. s - 1, a : 0 .. s - 1]
  BY <1>2 DEF MultState
<1>9. /\ n.hi * s + n.lo = (m.hi * s + m.lo) + (IF m.a % 2 = 1 THEN m.bHi * s + m.bLo ELSE 0)
      /\ 2 * (m.bHi * s + m.bLo) < s * s => n.bHi * s + n.bLo = 2 * (m.bHi * s + m.bLo)
      /\ \E u \in Int : n.a = (m.a - (m.a % 2)) \div 2 + h * u
  <2>1. (m.hi * s + m.lo) + (m.bHi * s + m.bLo) < s * s
    BY <1>1, <1>7
  <2> HIDE DEF h
  <2> QED BY <1>3, <1>8, <2>1, MultRoundIs
<1> HIDE DEF n, bit, rest, h
<1>10. PICK u \in Int : n.a = (rest + r * t) + h * u
  BY <1>6, <1>9
<1>11. n.a = rest + r * (t + p * u) /\ t + p * u \in Int
  <2>1. p * u \in Int /\ r * (p * u) = (p * r) * u /\ r * (t + p * u) = r * t + r * (p * u)
    BY Z3
  <2>2. h * u = r * (p * u)
    BY <2>1 DEF h
  <2> QED BY <1>4, <1>5, <1>10, <2>1, <2>2
<1>12. x = (low + p * bit) + (2 * p) * rest
  <2>1. p * (2 * rest + bit) = (2 * p) * rest + p * bit /\ p * bit \in Nat /\ (2 * p) * rest \in Nat
    BY <1>4, Z3
  <2> QED BY <1>1, <1>4, <2>1
<1>13. low + p * bit \in 0 .. 2 * p - 1
  BY <1>4
<1>14. n.hi * s + n.lo = y * (low + p * bit)
  <2>1. CASE bit = 1
    <3>1. low + p * bit = low + p
      BY <2>1
    <3> QED BY <1>1, <1>6, <1>7, <1>9, <2>1, <3>1
  <2>2. CASE bit = 0
    <3>1. low + p * bit = low /\ m.a % 2 # 1
      BY <1>6, <2>2
    <3>2. n.hi * s + n.lo = (m.hi * s + m.lo) + 0
      BY <1>9, <3>1
    <3> QED BY <1>1, <1>7, <3>1, <3>2
  <2> QED BY <1>4, <2>1, <2>2
<1>15. n.bHi * s + n.bLo = y * (2 * p)
  BY <1>1, <1>7, <1>9
<1>16. Multiplied(n, x, y, s, 2 * p, r)
  BY <1>4, <1>11, <1>12, <1>13, <1>14, <1>15 DEF Multiplied
<1> QED BY <1>16 DEF n

\* What the rounds of Mult's loop compute is defined by the rounds before.
LEMMA RoundsAre ==
  ASSUME User!UserProgramAssumption, NEW x \in User!Word, NEW y \in User!Word
  PROVE  /\ User!Rounds(x, y)[0] = [hi |-> 0, lo |-> 0, bHi |-> 0, bLo |-> y, a |-> x]
         /\ User!Rounds(x, y)[0] \in MultState
         /\ \A n \in 1 .. WordBits :
              /\ User!Rounds(x, y)[n] = User!MultRound(User!Rounds(x, y)[n - 1])
              /\ User!Rounds(x, y)[n] \in MultState
<1> DEFINE start == [hi |-> 0, lo |-> 0, bHi |-> 0, bLo |-> y, a |-> x]
           step == [p \in Nat \X MultState |-> User!MultRound(p[2])]
           m == User!Rounds(x, y)
<1>1. WordBits \in Nat
  BY DEF User!UserProgramAssumption
<1>2. start \in MultState
  <2>1. 0 \in User!Word
    BY SizeIs DEF User!Word
  <2> QED BY <2>1 DEF MultState
<1>3. /\ step \in [Nat \X MultState -> MultState]
      /\ \A n \in Nat, c \in MultState : step[<<n, c>>] = User!MultRound(c)
  <2>1. \A c \in MultState : User!MultRound(c) \in MultState
    BY MultRoundType
  <2> QED BY <2>1
<1> HIDE DEF start, step
<1>4. PICK f \in [0 .. WordBits -> MultState] :
        /\ f[0] = start
        /\ \A n \in 1 .. WordBits : f[n] = User!MultRound(f[n - 1])
  <2>1. Computations(MultState, start, step, WordBits) # {}
    BY <1>1, <1>2, <1>3, StepByStep
  <2>2. PICK f \in [0 .. WordBits -> MultState] :
          f[0] = start /\ \A n \in 1 .. WordBits : f[n] = step[<<n, f[n - 1]>>]
    BY <2>1 DEF Computations
  <2>3. ASSUME NEW n \in 1 .. WordBits
        PROVE  f[n] = User!MultRound(f[n - 1])
    <3>1. n - 1 \in 0 .. WordBits /\ n \in Nat
      BY <1>1
    <3> QED BY <1>3, <2>2, <3>1
  <2> QED BY <2>2, <2>3
<1> DEFINE Steps(g) == g = [n \in 0 .. WordBits |-> IF n = 0 THEN start ELSE User!MultRound(g[n - 1])]
<1>5. Steps(f)
  <2>1. \A n \in 0 .. WordBits : f[n] = IF n = 0 THEN start ELSE User!MultRound(f[n - 1])
    BY <1>1, <1>4
  <2>2. f = [n \in 0 .. WordBits |-> f[n]]
    OBVIOUS
  <2> QED BY <2>1, <2>2
<1>6. m = CHOOSE g : Steps(g)
  BY DEF User!Rounds, start
<1>7. Steps(m)
  <2> HIDE DEF Steps, m
  <2> QED BY <1>5, <1>6
<1>8. m[0] = start /\ \A n \in 1 .. WordBits : m[n] = User!MultRound(m[n - 1])
  <2> HIDE DEF m
  <2>1. \A n \in 0 .. WordBits : m[n] = IF n = 0 THEN start ELSE User!MultRound(m[n - 1])
    BY <1>7
  <2> QED BY <1>1, <2>1
<1> HIDE DEF m
<1> DEFINE P == {n \in Nat : n <= WordBits => m[n] \in MultState}
<1>9. 0 \in P
  BY <1>2, <1>8
<1>10. ASSUME NEW n \in Nat, n \in P PROVE n + 1 \in P
  <2> SUFFICES ASSUME n + 1 <= WordBits PROVE m[n + 1] \in MultState
    OBVIOUS
  <2>1. n + 1 \in 1 .. WordBits /\ (n + 1) - 1 = n /\ m[n] \in MultState
    BY <1>1, <1>10
  <2> QED BY <1>8, <2>1, MultRoundType
<1>11. Nat \subseteq P
  <2> HIDE DEF P
  <2> QED BY <1>9, <1>10, SetInduction
<1>12. \A n \in 1 .. WordBits : m[n] \in MultState
  BY <1>1, <1>11
<1> QED BY <1>2, <1>8, <1>12 DEF m, start

\* The loop of Mult gives the product of two words, for words of every multiple of four bits.
LEMMA RoundsMultiply ==
  ASSUME User!UserProgramAssumption, NEW x \in User!Word, NEW y \in User!Word
  PROVE  LET m == User!Rounds(x, y)[WordBits] IN
         /\ m.hi \in User!Word /\ m.lo \in User!Word
         /\ m.hi * User!Size + m.lo = x * y
<1> DEFINE m == User!Rounds(x, y)
           s == User!Size
           P == {n \in Nat : n <= WordBits => Multiplied(m[n], x, y, s, 2 ^ n, 2 ^ (WordBits - n))}
<1>1. WordBits \in Nat /\ WordBits > 0 /\ s = 2 ^ WordBits
  BY DEF User!UserProgramAssumption, User!Size
<1>2. /\ m[0] = [hi |-> 0, lo |-> 0, bHi |-> 0, bLo |-> y, a |-> x]
      /\ m[0] \in MultState
      /\ \A n \in 1 .. WordBits : m[n] = User!MultRound(m[n - 1]) /\ m[n] \in MultState
  BY RoundsAre
<1>3. s \in Nat \ {0} /\ x \in 0 .. s - 1 /\ y \in 0 .. s - 1
  BY SizeIs DEF User!Word
<1> HIDE DEF m, s
<1>4. 0 \in P
  <2>1. 2 ^ 0 = 1 /\ WordBits - 0 = WordBits
    BY <1>1, Powers
  <2>2. Multiplied(m[0], x, y, s, 1, s)
    <3>1. /\ x = 0 + 1 * x /\ x = x + s * 0 /\ 0 * s + 0 = y * 0 /\ 0 * s + y = y * 1
          /\ 0 \in 0 .. 1 - 1 /\ x \in Nat /\ 0 \in Int
      BY <1>3
    <3>2. m[0].hi = 0 /\ m[0].lo = 0 /\ m[0].bHi = 0 /\ m[0].bLo = y /\ m[0].a = x
      BY <1>2
    <3> QED BY <3>1, <3>2, Zenon DEF Multiplied
  <2> QED BY <1>1, <2>1, <2>2
<1>5. ASSUME NEW n \in Nat, n \in P PROVE n + 1 \in P
  <2> SUFFICES ASSUME n + 1 <= WordBits
               PROVE  Multiplied(m[n + 1], x, y, s, 2 ^ (n + 1), 2 ^ (WordBits - (n + 1)))
    OBVIOUS
  <2> DEFINE p == 2 ^ n
             k == WordBits - (n + 1)
             r == 2 ^ k
  <2>1. k \in Nat /\ WordBits - n = k + 1 /\ WordBits = (n + k) + 1 /\ n + k \in Nat
    BY <1>1
  <2>2. /\ p \in Nat \ {0} /\ r \in Nat \ {0}
        /\ 2 ^ (n + 1) = 2 * p /\ 2 ^ (WordBits - n) = 2 * r
        /\ s = 2 * (p * r)
    <3>1. 2 ^ (n + k) = p * r
      BY <2>1, PowersAdd
    <3>2. 2 ^ ((n + k) + 1) = 2 * 2 ^ (n + k)
      BY <2>1, Powers
    <3> HIDE DEF k
    <3> QED BY <1>1, <2>1, <3>1, <3>2, Powers
  <2>3. Multiplied(m[n], x, y, s, p, 2 * r)
    <3>1. n <= WordBits
      BY <1>1
    <3> QED BY <1>5, <2>2, <3>1
  <2>4. m[n] \in MultState
    <3>1. n = 0 \/ n \in 1 .. WordBits
      BY <1>1
    <3> QED BY <1>2, <3>1
  <2>5. m[n + 1] = User!MultRound(m[n])
    <3>1. n + 1 \in 1 .. WordBits /\ (n + 1) - 1 = n
      BY <1>1
    <3> QED BY <1>2, <3>1
  <2> HIDE DEF p, r
  <2>6. Multiplied(User!MultRound(m[n]), x, y, s, 2 * p, r)
    BY <1>3, <2>2, <2>3, <2>4, RoundMultiplies DEF s
  <2> QED BY <2>2, <2>5, <2>6 DEF r
<1>6. WordBits \in P
  <2> HIDE DEF P
  <2> QED BY <1>1, <1>4, <1>5, SetInduction
<1>7. Multiplied(m[WordBits], x, y, s, s, 1)
  <2>1. WordBits - WordBits = 0
    BY <1>1
  <2> QED BY <1>1, <1>6, <2>1, Powers
<1>8. PICK low \in 0 .. s - 1, left \in Nat :
        x = low + s * left /\ m[WordBits].hi * s + m[WordBits].lo = y * low
  BY <1>7 DEF Multiplied
<1>9. low = x
  <2>1. CASE left = 0
    BY <1>3, <1>8, <2>1
  <2>2. CASE left > 0
    <3>1. s * 1 <= s * left
      <4>1. 1 * s <= left * s /\ s * 1 = 1 * s /\ s * left = left * s
        BY <1>3, <2>2, ProductGrows
      <4> QED BY <4>1
    <3> QED BY <1>3, <1>8, <3>1
  <2> QED BY <2>1, <2>2
<1>10. y * x = x * y
  BY <1>3, ProductGrows
<1>11. m[WordBits] \in MultState
  BY <1>1, <1>2
<1> QED BY <1>8, <1>9, <1>10, <1>11 DEF m, s, MultState

\* What the sign bit says, and the signed value of a word's residue.
LEMMA Signs ==
  ASSUME User!UserProgramAssumption, NEW h \in Nat, User!Size = 2 * h
  PROVE  /\ h > 0
         /\ \A w : User!IsNegative(w) <=> w >= h
         /\ \A w : User!Signed(w) = IF w >= h THEN w - 2 * h ELSE w
         /\ \A n \in - 2 * h .. 4 * h - 1 :
              User!ToWord(n) = IF n < 0 THEN n + 2 * h ELSE IF n < 2 * h THEN n ELSE n - 2 * h
         /\ \A n \in - h .. h - 1 : User!Signed(User!ToWord(n)) = n
<1>1. h > 0 /\ User!Size \div 2 = h
  <2>1. User!Size > 0
    BY SizeIs
  <2> HIDE DEF User!Size
  <2> QED BY <2>1
<1>2. /\ \A w : User!IsNegative(w) <=> w >= h
      /\ \A w : User!Signed(w) = IF w >= h THEN w - 2 * h ELSE w
  BY <1>1 DEF User!IsNegative, User!Signed
<1>3. \A n \in - 2 * h .. 4 * h - 1 :
        User!ToWord(n) = IF n < 0 THEN n + 2 * h ELSE IF n < 2 * h THEN n ELSE n - 2 * h
  BY <1>1, Remainder DEF User!ToWord
<1>4. \A n \in - h .. h - 1 : User!Signed(User!ToWord(n)) = n
  BY <1>1, <1>2, <1>3
<1> QED BY <1>1, <1>2, <1>3, <1>4

\* A signed value and its magnitude.
LEMMA Magnitudes ==
  ASSUME User!UserProgramAssumption, NEW h \in Nat, User!Size = 2 * h, NEW w \in User!Word
  PROVE  /\ User!Signed(w) \in - h .. h - 1
         /\ User!Magnitude(w) \in 0 .. h /\ User!Magnitude(w) \in User!Word
         /\ User!IsNegative(w) <=> User!Signed(w) < 0
         /\ User!Signed(w) = IF User!IsNegative(w) THEN - User!Magnitude(w) ELSE User!Magnitude(w)
         /\ w # 0 => User!Magnitude(w) # 0
<1>1. User!Word = 0 .. 2 * h - 1
  BY DEF User!Word
<1>2. /\ h > 0
      /\ User!IsNegative(w) <=> w >= h
      /\ User!Signed(w) = IF w >= h THEN w - 2 * h ELSE w
      /\ \A n \in - 2 * h .. 4 * h - 1 :
           User!ToWord(n) = IF n < 0 THEN n + 2 * h ELSE IF n < 2 * h THEN n ELSE n - 2 * h
  BY Signs
<1>3. User!Magnitude(w) = IF w >= h THEN 2 * h - w ELSE w
  <2>1. CASE w >= h
    <3>1. - w \in - 2 * h .. 4 * h - 1 /\ - w < 0
      BY <1>1, <1>2, <2>1
    <3>2. User!ToWord(- w) = - w + 2 * h
      BY <1>2, <3>1
    <3> QED BY <1>1, <1>2, <2>1, <3>2 DEF User!Magnitude
  <2>2. CASE ~ (w >= h)
    BY <1>2, <2>2 DEF User!Magnitude
  <2> QED BY <2>1, <2>2
<1> QED BY <1>1, <1>2, <1>3

\* MULT and MULTU of words of every multiple of four bits give the product in two words, of the
\* least int too, whose negation overflows (machine/mipssim.cc, Mult).
THEOREM ProductExact ==
  ASSUME User!UserProgramAssumption, NEW a \in User!Word, NEW b \in User!Word
  PROVE  LET r == User!HiLo("MULT", a, b)
             u == User!HiLo("MULTU", a, b)
         IN  /\ r[1] \in User!Word /\ r[2] \in User!Word
             /\ u[1] \in User!Word /\ u[2] \in User!Word
             /\ User!Signed(r[1]) * User!Size + r[2] = User!Signed(a) * User!Signed(b)
             /\ u[1] * User!Size + u[2] = a * b
<1> DEFINE s == User!Size
           x == User!Magnitude(a)
           y == User!Magnitude(b)
           u == User!Rounds(a, b)[WordBits]
           m == User!Rounds(x, y)[WordBits]
           negative == ~ (User!IsNegative(a) <=> User!IsNegative(b))
<1>1. PICK h \in Nat \ {0} : s = 2 * h
  BY SizeIs
<1>2. h > 1
  <2>1. s = User!Bits(2) * User!Bits(2) /\ User!Bits(2) = User!Bits(1) * User!Bits(1)
        /\ User!Bits(1) \in Nat /\ User!Bits(1) > 1
    BY Quarters
  <2> HIDE DEF s
  <2>2. PICK q \in Nat : User!Bits(1) = q + 2
    <3>1. User!Bits(1) - 2 \in Nat /\ User!Bits(1) = (User!Bits(1) - 2) + 2
      BY <2>1
    <3> QED BY <3>1
  <2>3. s = ((q + 2) * (q + 2)) * ((q + 2) * (q + 2))
    BY <2>1, <2>2
  <2>4. (q + 2) * (q + 2) >= 4 /\ (q + 2) * (q + 2) \in Nat
    BY Z3
  <2>5. \A v \in Nat : v >= 4 => v * v >= 4
    BY Z3
  <2> QED BY <1>1, <2>3, <2>4, <2>5
<1>3. User!Word = 0 .. s - 1 /\ s \in Nat /\ 0 \in User!Word
  BY <1>1 DEF User!Word
<1>4. /\ x \in 0 .. h /\ y \in 0 .. h /\ x \in User!Word /\ y \in User!Word
      /\ User!Signed(a) = IF User!IsNegative(a) THEN - x ELSE x
      /\ User!Signed(b) = IF User!IsNegative(b) THEN - y ELSE y
      /\ a # 0 => x # 0
      /\ b # 0 => y # 0
      /\ User!Signed(a) \in Int /\ User!Signed(b) \in Int
  BY <1>1, Magnitudes
<1>5. u.hi \in User!Word /\ u.lo \in User!Word /\ u.hi * s + u.lo = a * b
  BY RoundsMultiply
<1>6. m.hi \in User!Word /\ m.lo \in User!Word /\ m.hi * s + m.lo = x * y
  BY <1>4, RoundsMultiply
<1>7. User!Signed(0) = 0
  <2>1. \A w : User!Signed(w) = IF w >= h THEN w - 2 * h ELSE w
    BY <1>1, Signs
  <2> QED BY <1>1, <2>1
<1>8. CASE a = 0 \/ b = 0
  <2>1. User!HiLo("MULT", a, b) = <<0, 0>> /\ User!HiLo("MULTU", a, b) = <<0, 0>>
    BY <1>8 DEF User!HiLo, User!Mult
  <2>2. a * b = 0 /\ User!Signed(a) * User!Signed(b) = 0 /\ 0 * s + 0 = 0
    <3> HIDE DEF s
    <3>1. a \in Nat /\ b \in Nat
      BY <1>3
    <3>2. \A n \in Int : n * 0 = 0 /\ 0 * n = 0
      OBVIOUS
    <3> QED BY <1>3, <1>4, <1>7, <1>8, <3>1, <3>2
  <2> QED BY <1>3, <1>7, <2>1, <2>2
<1>9. CASE a # 0 /\ b # 0
  <2> DEFINE lo == User!ToWord(- m.lo)
             hi == s - 1 - m.hi + (IF lo = 0 THEN 1 ELSE 0)
  <2>1. User!HiLo("MULTU", a, b) = <<u.hi, u.lo>>
    BY <1>9 DEF User!HiLo, User!Mult
  <2>2. User!HiLo("MULT", a, b) = IF negative THEN <<User!ToWord(hi), lo>> ELSE <<m.hi, m.lo>>
    <3>1. User!HiLo("MULT", a, b) = User!Mult(a, b, TRUE)
      BY DEF User!HiLo
    <3>2. (TRUE /\ User!IsNegative(a) # User!IsNegative(b)) = negative
      BY DEF User!IsNegative
    <3> HIDE DEF negative
    <3>3. User!Mult(a, b, TRUE) = IF negative THEN <<User!ToWord(hi), lo>> ELSE <<m.hi, m.lo>>
      BY <1>9, <3>2 DEF User!Mult
    <3> QED BY <3>1, <3>3
  <2> HIDE DEF u, m, x, y
  <2>3. User!Signed(a) * User!Signed(b) = IF negative THEN - (x * y) ELSE x * y
    <3>1. x \in Int /\ y \in Int
      BY <1>4
    <3>2. (- x) * y = - (x * y) /\ x * (- y) = - (x * y) /\ (- x) * (- y) = x * y
      BY <3>1
    <3> QED BY <1>4, <3>2
  <2>4. x * y \in Nat /\ x * y > 0 /\ x * y <= h * h
    <3>1. x \in Nat \ {0} /\ y \in Nat \ {0} /\ x <= h /\ y <= h
      BY <1>4, <1>9
    <3>2. 0 * y + y <= x * y /\ x * y \in Nat
      BY <3>1, ProductGrows
    <3>3. x * y <= h * y /\ y * h <= h * h /\ h * y = y * h /\ h * y \in Nat /\ h * h \in Nat
      BY <3>1, ProductGrows
    <3> QED BY <3>1, <3>2, <3>3
  <2>5. m.hi < h /\ m.hi \in Nat /\ m.hi * s \in Nat /\ (2 * m.hi <= h)
    <3> HIDE DEF s
    <3>1. m.hi \in Nat /\ m.lo \in Nat
      BY <1>3, <1>6
    <3>2. m.hi * s = (2 * m.hi) * h /\ m.hi * s \in Nat /\ h * h \in Nat /\ (2 * m.hi) * h \in Nat
      BY <1>1, <3>1, Z3
    <3>3. (2 * m.hi) * h <= h * h
      BY <1>6, <2>4, <3>1, <3>2
    <3>4. 2 * m.hi <= h
      <4> SUFFICES ASSUME h < 2 * m.hi PROVE FALSE
        BY <3>1
      <4>1. h * h + h <= (2 * m.hi) * h
        BY <3>1, ProductGrows
      <4> QED BY <3>2, <3>3, <4>1
    <3> QED BY <1>2, <3>1, <3>2, <3>4
  <2>6. /\ \A w : User!Signed(w) = IF w >= h THEN w - 2 * h ELSE w
        /\ \A n \in - 2 * h .. 4 * h - 1 :
             User!ToWord(n) = IF n < 0 THEN n + 2 * h ELSE IF n < 2 * h THEN n ELSE n - 2 * h
    BY <1>1, Signs
  <2>7. lo = IF m.lo = 0 THEN 0 ELSE s - m.lo
    <3>1. - m.lo \in - 2 * h .. 4 * h - 1 /\ (- m.lo < 0 <=> m.lo # 0)
      BY <1>1, <1>3, <1>6
    <3> QED BY <1>1, <1>3, <1>6, <2>6, <3>1
  <2>8. CASE ~ negative
    <3>1. User!Signed(m.hi) = m.hi
      BY <2>5, <2>6
    <3> QED BY <1>5, <1>6, <2>1, <2>2, <2>3, <2>8, <3>1
  <2>9. CASE negative
    <3>1. /\ hi \in h .. s - 1 /\ lo \in 0 .. s - 1
          /\ hi = s - 1 - m.hi + (IF m.lo = 0 THEN 1 ELSE 0)
      <4>1. m.lo = 0 => m.hi # 0
        <5> SUFFICES ASSUME m.lo = 0, m.hi = 0 PROVE FALSE
          OBVIOUS
        <5>1. 0 * s + 0 = 0
          BY <1>3
        <5> QED BY <1>6, <2>4, <5>1
      <4>2. lo = 0 <=> m.lo = 0
        BY <1>3, <1>6, <2>7
      <4> HIDE DEF lo
      <4> QED BY <1>1, <1>2, <1>3, <1>6, <2>5, <2>7, <4>1, <4>2
    <3> HIDE DEF hi, lo
    <3>2. User!ToWord(hi) = hi
      BY <1>1, <2>6, <3>1
    <3>3. User!Signed(hi) = hi - s
      BY <1>1, <2>6, <3>1
    <3>4. (hi - s) * s + lo = - (m.hi * s + m.lo)
      <4> HIDE DEF s
      <4>1. \A n \in Nat : (- n) * s = - (n * s) /\ (- n - 1) * s = - (n * s) - s
        BY <1>3, Z3
      <4>2. CASE m.lo = 0
        <5>1. hi - s = - m.hi /\ lo = 0
          BY <1>3, <2>5, <2>7, <3>1, <4>2
        <5>2. (hi - s) * s = - (m.hi * s)
          BY <2>5, <4>1, <5>1
        <5> QED BY <1>3, <2>5, <4>2, <5>1, <5>2
      <4>3. CASE m.lo # 0
        <5>1. hi - s = - m.hi - 1 /\ lo = s - m.lo
          BY <1>3, <2>5, <2>7, <3>1, <4>3
        <5>2. (hi - s) * s = - (m.hi * s) - s
          BY <2>5, <4>1, <5>1
        <5> DEFINE t == m.hi * s
                   d == (hi - s) * s
        <5>3. t \in Nat /\ d = - t - s /\ lo = s - m.lo /\ m.lo \in Int
          BY <1>3, <1>6, <2>5, <5>1, <5>2
        <5> HIDE DEF t, d
        <5>4. d + lo = - (t + m.lo)
          BY <1>3, <5>3
        <5> QED BY <5>4 DEF t, d
      <4> QED BY <4>2, <4>3
    <3>5. User!HiLo("MULT", a, b) = <<hi, lo>>
      BY <2>2, <2>9, <3>2 DEF hi, lo
    <3>6. hi \in User!Word /\ lo \in User!Word
      BY <1>3, <3>1
    <3> QED BY <1>5, <1>6, <2>1, <2>3, <2>9, <3>3, <3>4, <3>5, <3>6
  <2> QED BY <2>8, <2>9
<1> QED BY <1>8, <1>9

-----------------------------------------------------------------------------
(* Every value is a word, and every byte is one.                           *)

\* The quotient of C times the divisor is at most the dividend, and less than a
\* divisor away from it.
LEMMA Quotient ==
  ASSUME NEW p \in Nat, NEW q \in Nat \ {0}
  PROVE  /\ p \div q \in Nat /\ (p \div q) * q \in Nat
         /\ (p \div q) * q <= p /\ p < (p \div q) * q + q
         /\ p \div q <= p
         /\ q > 1 /\ p > 0 => p \div q < p
  BY Z3

LEMMA RemainderLess ==
  ASSUME NEW p \in Nat, NEW q \in Nat \ {0}
  PROVE  p % q \in 0 .. q - 1 /\ p \div q \in 0 .. p
  BY Z3

\* What is less than n times q has a quotient by q that is less than n.
LEMMA QuotientLess ==
  ASSUME NEW p \in Nat, NEW q \in Nat \ {0}, NEW n \in Nat, p < n * q
  PROVE  p \div q \in 0 .. n - 1
<1>1. p \div q \in Nat /\ (p \div q) * q <= p /\ (p \div q) * q \in Nat
  BY Quotient
<1> DEFINE d == p \div q
<1> HIDE DEF d
<1>2. d \in Nat /\ d * q <= p /\ d * q \in Nat
  BY <1>1 DEF d
<1>3. d < n
  <2> SUFFICES ASSUME n <= d PROVE FALSE
    BY <1>2
  <2>1. n * q <= d * q /\ n * q \in Nat
    BY <1>2, ProductGrows
  <2> QED BY <1>2, <2>1
<1> QED BY <1>2, <1>3 DEF d

LEMMA WordsAre ==
  ASSUME User!UserProgramAssumption
  PROVE  /\ User!Word = 0 .. User!Size - 1 /\ User!Size \in Nat /\ User!Size > 1
         /\ \A w \in User!Word : w \in Nat /\ w \in Int /\ User!Signed(w) \in Int
         /\ \A n \in Int : User!ToWord(n) \in User!Word
         /\ 0 \in User!Word /\ 1 \in User!Word
<1>1. /\ User!Word = 0 .. User!Size - 1 /\ User!Size \in Nat /\ User!Size > 1
      /\ \A n \in Int : User!ToWord(n) \in User!Word
  <2>1. /\ User!Size \in Nat /\ \E h \in Nat \ {0} : User!Size = 2 * h
        /\ \A n \in Int : User!ToWord(n) \in User!Word
    BY SizeIs
  <2> QED BY <2>1 DEF User!Word
<1> HIDE DEF User!Size
<1>2. \A w \in User!Word : w \in Nat /\ w \in Int /\ User!Signed(w) \in Int
  BY <1>1 DEF User!Signed
<1> QED BY <1>1, <1>2

\* Each instruction that computes gives a word.
LEMMA ResultIsWord ==
  ASSUME User!UserProgramAssumption, NEW a \in User!Word, NEW b \in User!Word,
         NEW op \in User!ThreeRegisters \cup User!WithImmediate
  PROVE  User!Result(op, a, b) \in User!Word
<1>1. /\ a \in Int /\ b \in Int /\ User!Word = 0 .. User!Size - 1 /\ User!Size \in Nat
      /\ \A n \in Int : User!ToWord(n) \in User!Word
      /\ 0 \in User!Word /\ 1 \in User!Word
  BY WordsAre
<1>2. \A places : User!WithOnes(places) \in User!Word
  BY WithOnesIs
<1>3. CASE op \in {"ADD", "ADDU", "ADDI", "ADDIU"}
  <2>1. User!Result(op, a, b) = User!ToWord(a + b)
    BY <1>3 DEF User!Result
  <2> QED BY <1>1, <2>1
<1>4. CASE op \in {"SUB", "SUBU"}
  <2>1. User!Result(op, a, b) = User!ToWord(a - b)
    BY <1>4 DEF User!Result
  <2> QED BY <1>1, <2>1
<1>5. CASE op \in {"AND", "ANDI", "OR", "ORI", "XOR", "XORI"}
  <2> DEFINE A == User!Ones(a)
             B == User!Ones(b)
  <2>1. CASE op \in {"AND", "ANDI"}
    <3>1. User!Result(op, a, b) = User!WithOnes(A \cap B)
      BY <2>1 DEF User!Result
    <3> QED BY <1>2, <3>1
  <2>2. CASE op = "OR"
    <3>1. User!Result(op, a, b) = User!WithOnes(A \cup A)
      BY <2>2 DEF User!Result
    <3> QED BY <1>2, <3>1
  <2>3. CASE op = "ORI"
    <3>1. User!Result(op, a, b) = User!WithOnes(A \cup B)
      BY <2>3 DEF User!Result
    <3> QED BY <1>2, <3>1
  <2>4. CASE op \in {"XOR", "XORI"}
    <3>1. User!Result(op, a, b) = User!WithOnes((A \ B) \cup (B \ A))
      BY <2>4 DEF User!Result
    <3> QED BY <1>2, <3>1
  <2> QED BY <1>5, <2>1, <2>2, <2>3, <2>4
<1>6. CASE op = "NOR"
  <2>1. PICK places : User!Result(op, a, b) = User!Size - 1 - User!WithOnes(places)
    BY <1>6 DEF User!Result
  <2>2. User!WithOnes(places) \in 0 .. User!Size - 1
    BY <1>1, <1>2
  <2> HIDE DEF User!Size
  <2>3. User!Size - 1 - User!WithOnes(places) \in 0 .. User!Size - 1
    BY <1>1, <2>2
  <2> QED BY <1>1, <2>1, <2>3
<1>7. CASE op \in {"SLT", "SLTI", "SLTU", "SLTIU"}
  <2>1. User!Result(op, a, b) \in {0, 1}
    BY <1>7 DEF User!Result
  <2> QED BY <1>1, <2>1
<1>8. CASE op = "LUI"
  <2>1. User!Result(op, a, b) = User!ToWord(b * User!Bits(2)) /\ User!Bits(2) \in Nat
    BY <1>8, Quarters DEF User!Result
  <2>2. b * User!Bits(2) \in Int
    <3> HIDE DEF User!Bits
    <3> QED BY <1>1, <2>1
  <2> QED BY <1>1, <2>1, <2>2
<1> QED BY <1>3, <1>4, <1>5, <1>6, <1>7, <1>8 DEF User!ThreeRegisters, User!WithImmediate

LEMMA ShiftedIsWord ==
  ASSUME User!UserProgramAssumption, NEW op, NEW w \in User!Word, NEW by \in Nat
  PROVE  User!Shifted(op, w, by) \in User!Word
<1>1. /\ w \in Int /\ User!Signed(w) \in Int
      /\ \A n \in Int : User!ToWord(n) \in User!Word
  BY WordsAre
<1>2. 2 ^ by \in Nat /\ 2 ^ by > 0
  BY Powers
<1> DEFINE p == 2 ^ by
<1>3. w * p \in Int
  <2> HIDE DEF p
  <2> QED BY <1>1, <1>2 DEF p
<1>4. User!Signed(w) \div p \in Int
  <2> DEFINE v == User!Signed(w)
  <2>1. v \in Int /\ p \in Nat /\ p > 0
    BY <1>1, <1>2
  <2> HIDE DEF p, v
  <2>2. v \div p \in Int
    BY <2>1, Z3
  <2> QED BY <2>2 DEF v
<1> QED BY <1>1, <1>3, <1>4 DEF User!Shifted

LEMMA HiLoIsWords ==
  ASSUME User!UserProgramAssumption, NEW a \in User!Word, NEW b \in User!Word,
         NEW op \in {"MULT", "MULTU", "DIV", "DIVU"}
  PROVE  User!HiLo(op, a, b)[1] \in User!Word /\ User!HiLo(op, a, b)[2] \in User!Word
<1>1. /\ a \in Nat /\ b \in Nat /\ User!Word = 0 .. User!Size - 1 /\ User!Size \in Nat
      /\ User!Signed(a) \in Int /\ User!Signed(b) \in Int
      /\ \A n \in Int : User!ToWord(n) \in User!Word
      /\ 0 \in User!Word
  BY WordsAre
<1>2. CASE op \in {"MULT", "MULTU"}
  BY <1>2, ProductExact
<1>3. CASE op \in {"DIV", "DIVU"} /\ b = 0
  <2>1. User!HiLo(op, a, b) = <<0, 0>>
    BY <1>3 DEF User!HiLo
  <2> QED BY <1>1, <2>1
<1>4. CASE op = "DIVU" /\ b # 0
  <2>1. User!HiLo(op, a, b) = <<a % b, a \div b>>
    BY <1>4 DEF User!HiLo
  <2>2. a % b \in 0 .. b - 1 /\ a \div b \in 0 .. a
    <3>1. b \in Nat \ {0}
      BY <1>1, <1>4
    <3> QED BY <1>1, <3>1, RemainderLess, Zenon
  <2> HIDE DEF User!Size
  <2>3. a < User!Size /\ b < User!Size
    BY <1>1
  <2> DEFINE i == a % b
             j == a \div b
  <2>4. i \in User!Word /\ j \in User!Word
    <3>1. i \in 0 .. b - 1 /\ j \in 0 .. a
      BY <2>2
    <3> HIDE DEF i, j
    <3> QED BY <1>1, <2>3, <3>1
  <2> QED BY <2>1, <2>4
<1>5. CASE op = "DIV" /\ b # 0
  <2> DEFINE p == User!Magnitude(a)
             q == User!Magnitude(b)
             k == IF User!IsNegative(a) = User!IsNegative(b) THEN p \div q ELSE - (p \div q)
             n == User!Signed(a) - k * User!Signed(b)
  <2>1. User!HiLo(op, a, b) = <<User!ToWord(n), User!ToWord(k)>>
    BY <1>5 DEF User!HiLo, User!Div
  <2>2. p \in Nat /\ q \in Nat \ {0}
    <3>1. PICK h \in Nat \ {0} : User!Size = 2 * h
      BY SizeIs
    <3> QED BY <1>5, <3>1, Magnitudes
  <2>3. p \div q \in Int
    <3> HIDE DEF p, q
    <3> QED BY <2>2, Quotient
  <2>4. k \in Int
    <3> HIDE DEF p, q
    <3> QED BY <2>3
  <2> HIDE DEF k
  <2>5. n \in Int
    BY <1>1, <2>4
  <2> HIDE DEF n
  <2> QED BY <1>1, <2>1, <2>4, <2>5
<1> QED BY <1>2, <1>3, <1>4, <1>5

Byte == 0 .. User!Bits(1) - 1

\* Each of the places of a unit of memory that is found is in memory.
LEMMA TranslateIs ==
  ASSUME User!UserProgramAssumption, NEW addr \in User!Word, NEW size \in {1, 2, 4},
         NEW writing, User!Translate(addr, size, writing).exception = "none"
  PROVE  LET at == User!Translate(addr, size, writing).address IN
         at \in Nat /\ \A i \in 0 .. size - 1 : at + i \in 0 .. NumPhysPages * PageSize - 1
<1>1. /\ PageSize \in Nat \ {0} /\ PageSize % 4 = 0 /\ NumPhysPages \in Nat /\ NumPages \in Nat
  BY DEF User!UserProgramAssumption
<1>2. addr \in Nat
  BY WordsAre
<1> DEFINE vpn == addr \div PageSize
           off == addr % PageSize
           at == User!Translate(addr, size, writing).address
<1>3. vpn \in Nat /\ off \in 0 .. PageSize - 1 /\ addr = PageSize * vpn + off
  BY <1>1, <1>2, Z3
<1>4. addr % size = 0 /\ vpn < NumPages /\ vpn < NumPhysPages /\ at = vpn * PageSize + off
  <2>1. addr % size = 0 /\ ~ (vpn >= NumPages)
    BY DEF User!Translate
  <2>2. vpn \in 0 .. NumPages - 1
    <3> HIDE DEF vpn
    <3> QED BY <1>1, <1>3, <2>1
  <2>3. User!PageTable[vpn] = [physicalPage |-> vpn, valid |-> TRUE, readOnly |-> FALSE]
    BY <2>2 DEF User!PageTable
  <2>4. ~ (vpn >= NumPhysPages) /\ at = vpn * PageSize + off
    BY <2>1, <2>3 DEF User!Translate
  <2> HIDE DEF vpn, off, at
  <2> QED BY <1>1, <1>3, <2>1, <2>4
<1> HIDE DEF vpn, off, at
<1>5. PICK k \in Nat : PageSize = 4 * k
  <2>1. PageSize \div 4 \in Nat /\ PageSize = 4 * (PageSize \div 4)
    BY <1>1
  <2> QED BY <2>1
<1>6. off + size <= PageSize
  <2>1. addr = 4 * (k * vpn) + off /\ k * vpn \in Nat
    BY <1>3, <1>5, Z3
  <2> DEFINE v == k * vpn
  <2> HIDE DEF v
  <2>2. v \in Nat /\ addr = 4 * v + off
    BY <2>1 DEF v
  <2>3. CASE size = 1
    BY <1>1, <1>3, <2>3
  <2>4. CASE size = 2
    BY <1>3, <1>4, <1>5, <2>2, <2>4
  <2>5. CASE size = 4
    BY <1>3, <1>4, <1>5, <2>2, <2>5
  <2> QED BY <2>3, <2>4, <2>5
<1>7. vpn * PageSize + PageSize <= NumPhysPages * PageSize /\ vpn * PageSize \in Nat
      /\ NumPhysPages * PageSize \in Nat
  BY <1>1, <1>3, <1>4, ProductGrows
<1>8. at \in Nat /\ \A i \in 0 .. size - 1 : at + i \in 0 .. NumPhysPages * PageSize - 1
  <2>1. size \in Nat
    OBVIOUS
  <2> DEFINE n == vpn * PageSize
             end == NumPhysPages * PageSize
  <2>2. n \in Nat /\ end \in Nat /\ n + PageSize <= end /\ at = n + off
    BY <1>4, <1>7
  <2> HIDE DEF n, end
  <2>3. at \in Nat /\ \A i \in 0 .. size - 1 : at + i \in 0 .. end - 1
    BY <1>1, <1>3, <1>6, <2>1, <2>2
  <2> QED BY <2>3 DEF end
<1> QED BY <1>8 DEF at

\* A unit of size bytes is one of Bits(size) values.
LEMMA BytesAre ==
  ASSUME User!UserProgramAssumption, NEW at \in Nat, NEW size \in {1, 2, 4},
         \A i \in 0 .. size - 1 : userMemory[at + i] \in Byte
  PROVE  User!Bytes(at, size) \in 0 .. User!Bits(size) - 1
<1> DEFINE Q == User!Bits(1)
           byte(i) == userMemory[at + i]
           B2 == User!Bits(2)
           B3 == User!Bits(3)
<1>1. /\ Q \in Nat /\ Q > 1
      /\ User!Bits(0) = 1 /\ B2 = Q * Q /\ B3 = Q * B2 /\ User!Size = Q * B3
      /\ B2 \in Nat /\ B3 \in Nat
  BY Quarters
<1>2. User!Bits(4) = User!Size
  <2>1. 4 * (WordBits \div 4) = WordBits
    BY DEF User!UserProgramAssumption
  <2> QED BY <2>1 DEF User!Bits, User!Size
<1>3. \A i \in 0 .. size - 1 : byte(i) \in 0 .. Q - 1
  BY DEF Byte
<1>4. \A n \in Nat, i \in 0 .. Q - 1 : n > 0 => i * n \in Nat /\ i * n + n <= Q * n
  <2> HIDE DEF Q
  <2> SUFFICES ASSUME NEW n \in Nat, NEW i \in 0 .. Q - 1, n > 0
               PROVE  i * n \in Nat /\ i * n + n <= Q * n
    OBVIOUS
  <2> QED BY <1>1, ProductGrows
<1>5. CASE size = 1
  <2>1. User!Bytes(at, size) = byte(0) * User!Bits(0)
    BY <1>5 DEF User!Bytes
  <2> HIDE DEF byte, Q
  <2>2. byte(0) \in 0 .. Q - 1
    BY <1>3, <1>5
  <2>3. byte(0) * 1 = byte(0)
    BY <1>1, <2>2
  <2> QED BY <1>1, <1>5, <2>1, <2>2, <2>3 DEF Q
<1>6. CASE size = 2
  <2>1. User!Bytes(at, size) = byte(0) * User!Bits(0) + byte(1) * Q
    BY <1>6 DEF User!Bytes
  <2> HIDE DEF byte, Q, B2
  <2>2. byte(0) \in 0 .. Q - 1 /\ byte(1) \in 0 .. Q - 1
    BY <1>3, <1>6
  <2>3. byte(0) * 1 = byte(0) /\ byte(1) * Q \in Nat /\ byte(1) * Q + Q <= B2
    BY <1>1, <1>4, <2>2
  <2>4. byte(0) * User!Bits(0) + byte(1) * Q \in 0 .. B2 - 1
    BY <1>1, <2>2, <2>3
  <2> QED BY <1>6, <2>1, <2>4 DEF B2
<1>7. CASE size = 4
  <2>1. User!Bytes(at, size) = byte(0) * User!Bits(0) + byte(1) * Q + byte(2) * B2 + byte(3) * B3
    BY <1>7 DEF User!Bytes
  <2>0. B2 > 0 /\ B3 > 0
    BY Quarters
  <2> HIDE DEF byte, Q, B2, B3
  <2>2. /\ byte(0) \in 0 .. Q - 1 /\ byte(1) \in 0 .. Q - 1
        /\ byte(2) \in 0 .. Q - 1 /\ byte(3) \in 0 .. Q - 1
    BY <1>3, <1>7
  <2>3. /\ byte(0) * 1 = byte(0)
        /\ byte(1) * Q \in Nat /\ byte(1) * Q + Q <= B2
        /\ byte(2) * B2 \in Nat /\ byte(2) * B2 + B2 <= B3
        /\ byte(3) * B3 \in Nat /\ byte(3) * B3 + B3 <= User!Size
    BY <1>1, <1>4, <2>0, <2>2
  <2>4. User!Size \in Nat
    BY SizeIs
  <2> HIDE DEF User!Size
  <2>5. byte(0) * User!Bits(0) + byte(1) * Q + byte(2) * B2 + byte(3) * B3 \in 0 .. User!Size - 1
    BY <1>1, <2>2, <2>3, <2>4
  <2> QED BY <1>2, <1>7, <2>1, <2>5
<1> QED BY <1>5, <1>6, <1>7

\* A store writes bytes.
LEMMA StoredIs ==
  ASSUME User!UserProgramAssumption, NEW D, D \subseteq Nat, userMemory \in [D -> Byte],
         NEW at \in Nat, NEW size \in {1, 2, 4}, NEW value \in Nat
  PROVE  User!Stored(at, size, value) \in [D -> Byte]
<1>1. ASSUME NEW x \in D, x \in at .. at + size - 1
      PROVE  (value \div User!Bits(x - at)) % User!Bits(1) \in Byte
  <2>1. x - at \in Nat /\ WordBits \div 4 \in Nat
    BY <1>1 DEF User!UserProgramAssumption
  <2>2. (x - at) * (WordBits \div 4) \in Nat
    <3> DEFINE i == x - at
               w == WordBits \div 4
    <3>1. i \in Nat /\ w \in Nat
      BY <2>1
    <3> HIDE DEF i, w
    <3>2. i * w \in Nat
      BY <3>1
    <3> QED BY <3>2 DEF i, w
  <2>3. User!Bits(x - at) \in Nat \ {0}
    BY <2>2, Powers DEF User!Bits
  <2>4. User!Bits(1) \in Nat \ {0}
    BY Quarters
  <2> DEFINE p == User!Bits(x - at)
             q == User!Bits(1)
             v == value \div p
  <2>5. v \in Nat
    BY <2>3, Quotient
  <2> HIDE DEF p, q, v
  <2>6. v % q \in 0 .. q - 1
    BY <2>4, <2>5, RemainderLess DEF q
  <2> QED BY <2>6 DEF p, q, v, Byte
<1>2. DOMAIN userMemory = D /\ \A x \in D : userMemory[x] \in Byte
  OBVIOUS
<1> QED BY <1>1, <1>2 DEF User!Stored

\* A unit of memory has at most as many values as a word, and an even number.
LEMMA UnitsAre ==
  ASSUME User!UserProgramAssumption, NEW op
  PROVE  /\ User!SizeOf(op) \in {1, 2, 4}
         /\ \E half \in Nat \ {0} : /\ User!Bits(User!SizeOf(op)) = 2 * half
                                    /\ User!Bits(User!SizeOf(op)) \div 2 = half
                                    /\ 2 * half <= User!Size
<1> DEFINE Q == User!Bits(1)
           size == User!SizeOf(op)
<1>1. /\ Q \in Nat /\ Q > 1 /\ Q % 2 = 0
      /\ User!Bits(2) = Q * Q /\ User!Bits(2) \in Nat \ {0}
      /\ User!Size = User!Bits(2) * User!Bits(2)
  BY Quarters
<1>2. size \in {1, 2, 4}
  BY DEF User!SizeOf
<1>3. User!Bits(4) = User!Size /\ User!Size % 2 = 0 /\ User!Size \in Nat \ {0}
  <2>1. 4 * (WordBits \div 4) = WordBits
    BY DEF User!UserProgramAssumption
  <2> QED BY <2>1, SizeIs DEF User!Bits, User!Size
<1>4. PICK k \in Nat \ {0} : Q = 2 * k
  <2>1. Q \div 2 \in Nat \ {0} /\ Q = 2 * (Q \div 2)
    <3> HIDE DEF Q
    <3> QED BY <1>1
  <2> QED BY <2>1
<1>5. /\ Q <= User!Bits(2) /\ User!Bits(2) <= User!Size
  <2> HIDE DEF User!Bits, User!Size
  <2>1. 1 * Q <= Q * Q /\ 1 * User!Bits(2) <= User!Bits(2) * User!Bits(2)
    BY <1>1, ProductGrows
  <2> QED BY <1>1, <2>1
<1>6. User!Bits(2) = 2 * (k * Q) /\ k * Q \in Nat
  <2> HIDE DEF User!Bits
  <2> QED BY <1>1, <1>4, Z3
<1>7. User!Bits(size) \in Nat \ {0} /\ User!Bits(size) % 2 = 0 /\ User!Bits(size) <= User!Size
  <2>1. User!Bits(2) % 2 = 0
    <3> DEFINE j == k * Q
    <3>1. j \in Nat /\ User!Bits(2) = 2 * j
      BY <1>6
    <3> HIDE DEF j, User!Bits
    <3> QED BY <3>1
  <2> HIDE DEF User!Size, size
  <2>2. CASE size = 1
    BY <1>1, <1>5, <2>2 DEF Q
  <2>3. CASE size = 2
    BY <1>1, <1>5, <2>1, <2>3
  <2>4. CASE size = 4
    BY <1>3, <2>4
  <2> QED BY <1>2, <2>2, <2>3, <2>4
<1>8. \E half \in Nat \ {0} : /\ User!Bits(size) = 2 * half /\ User!Bits(size) \div 2 = half
                              /\ 2 * half <= User!Size
  <2> DEFINE v == User!Bits(size)
             half == v \div 2
  <2>1. v \in Nat \ {0} /\ v % 2 = 0 /\ v <= User!Size
    BY <1>7
  <2> HIDE DEF v, User!Size
  <2>2. half \in Nat \ {0} /\ v = 2 * half
    BY <2>1
  <2> QED BY <2>1, <2>2 DEF v
<1> QED BY <1>2, <1>8

\* A multiple of v more does not change the remainder by v.
LEMMA SameRemainder ==
  ASSUME NEW v \in Nat \ {0}, NEW value \in 0 .. v - 1, NEW j \in Nat
  PROVE  (value + v * j) % v = value
<1> DEFINE m == v * j
           e == value + m
           d == e \div v
           r == e % v
<1>1. m \in Nat
  OBVIOUS
<1> HIDE DEF m
<1>2. e \in Nat
  BY <1>1
<1> HIDE DEF e
<1>3. r \in 0 .. v - 1 /\ d \in Nat
  <2>1. e % v \in 0 .. v - 1 /\ e \div v \in 0 .. e
    BY <1>2, RemainderLess
  <2> HIDE DEF r, d
  <2>2. r \in 0 .. v - 1 /\ d \in 0 .. e
    BY <2>1 DEF r, d
  <2> QED BY <1>2, <2>2
<1>4. e = v * d + r
  BY <1>2, <1>3, Z3
<1> HIDE DEF d, r
<1>5. v * d \in Nat /\ m = v * j /\ e = value + m
  BY <1>3 DEF m, e
<1>6. d = j
  <2>1. CASE d < j
    <3>1. v * d + v <= v * j
      BY <1>3, <2>1, Z3
    <3> QED BY <1>3, <1>4, <1>5, <3>1
  <2>2. CASE d > j
    <3>1. v * j + v <= v * d
      BY <1>3, <2>2, Z3
    <3> QED BY <1>1, <1>3, <1>4, <1>5, <3>1
  <2> QED BY <1>3, <2>1, <2>2
<1>7. r = value
  BY <1>1, <1>3, <1>4, <1>5, <1>6
<1> QED BY <1>7 DEF r, e, m

\* A word has room for a whole number of bytes or halfwords.
LEMMA UnitsInAWord ==
  ASSUME User!UserProgramAssumption, NEW op \in {"LB", "LH"}
  PROVE  \E j \in Nat : User!Size = User!Bits(User!SizeOf(op)) + User!Bits(User!SizeOf(op)) * j
<1> DEFINE Q == User!Bits(1)
           H == User!Bits(2)
           B == User!Bits(3)
           v == User!Bits(User!SizeOf(op))
<1>1. /\ Q \in Nat \ {0} /\ H \in Nat \ {0} /\ B \in Nat \ {0}
      /\ User!Size = Q * B /\ User!Size = H * H
  BY Quarters
<1>2. v = Q \/ v = H
  BY DEF User!SizeOf
<1> HIDE DEF Q, H, B, v
<1>3. PICK n \in Nat \ {0} : User!Size = v * n
  BY <1>1, <1>2
<1>4. v * n = v + v * (n - 1) /\ n - 1 \in Nat
  BY <1>1, <1>2, <1>3, Z3
<1> QED BY <1>3, <1>4 DEF v

\* What a load gives is a word, and of a byte or halfword with a sign the value.
LEMMA ExtendedIs ==
  ASSUME User!UserProgramAssumption, User!TypeOK, NEW op, NEW rt \in Registers,
         NEW value \in 0 .. User!Bits(User!SizeOf(op)) - 1
  PROVE  /\ User!Extended(op, value, rt) \in User!Word
         /\ op \in {"LB", "LH"} =>
              User!Signed(User!Extended(op, value, rt))
                \in - (User!Bits(User!SizeOf(op)) \div 2) .. User!Bits(User!SizeOf(op)) \div 2 - 1
         /\ op \in {"LB", "LH"} =>
              User!Extended(op, value, rt) % User!Bits(User!SizeOf(op)) = value
<1> DEFINE v == User!Bits(User!SizeOf(op))
           s == User!Size
           e == User!Extended(op, value, rt)
<1>1. PICK half \in Nat \ {0} : v = 2 * half /\ v \div 2 = half /\ 2 * half <= s
  BY UnitsAre
<1>2. PICK h \in Nat \ {0} : s = 2 * h
  BY SizeIs
<1>3. /\ \A w : User!Signed(w) = IF w >= h THEN w - 2 * h ELSE w
  BY <1>2, Signs
<1>4. User!Word = 0 .. s - 1
  BY DEF User!Word
<1> HIDE DEF s
<1>5. value \in 0 .. 2 * half - 1
  <2> HIDE DEF User!Bits
  <2> QED BY <1>1
<1>6. CASE op \in {"LB", "LH"}
  <2>1. e = IF value >= half THEN value + s - 2 * half ELSE value
    BY <1>1, <1>6 DEF User!Extended, s
  <2> HIDE DEF e, v
  <2>2. e \in 0 .. s - 1 /\ User!Signed(e) \in - half .. half - 1
    <3>1. CASE value >= half
      <4>1. e \in Int /\ e >= h /\ e \in 0 .. s - 1
        BY <1>1, <1>2, <1>5, <2>1, <3>1
      <4>2. User!Signed(e) = e - 2 * h
        BY <1>3, <4>1
      <4> QED BY <1>1, <1>2, <1>5, <2>1, <3>1, <4>1, <4>2
    <3>2. CASE ~ (value >= half)
      <4>1. e \in Int /\ ~ (e >= h) /\ e \in 0 .. s - 1
        BY <1>1, <1>2, <1>5, <2>1, <3>2
      <4>2. User!Signed(e) = e
        BY <1>3, <4>1
      <4> QED BY <1>1, <1>2, <1>5, <2>1, <3>2, <4>1, <4>2
    <3> QED BY <3>1, <3>2
  <2>3. e % v = value
    <3>1. PICK j \in Nat : s = v + v * j
      BY <1>6, UnitsInAWord DEF v, s
    <3>2. /\ v \in Nat \ {0} /\ value \in 0 .. v - 1
          /\ e = value \/ e = value + v * j
      <4> DEFINE m == v * j
      <4>1. s = v + m
        BY <3>1
      <4>2. m \in Nat
        BY <1>1, Z3
      <4> HIDE DEF m
      <4>3. e = value \/ e = value + m
        BY <1>1, <1>2, <1>5, <2>1, <4>1, <4>2
      <4> QED BY <1>1, <1>5, <4>3 DEF m
    <3>3. (value + v * j) % v = value /\ (value + v * 0) % v = value
      BY <3>2, SameRemainder
    <3>4. value + v * 0 = value
      BY <3>2
    <3> QED BY <3>2, <3>3, <3>4
  <2> QED BY <1>1, <1>4, <2>2, <2>3 DEF e, v
<1>7. CASE op = "LWR"
  <2> DEFINE Q == User!Bits(1)
             B == User!Bits(3)
             old == IF userLoad.reg = rt THEN userLoad.value ELSE userRegisters[rt]
             d == old \div Q
             c == value \div B
  <2>1. /\ Q \in Nat \ {0} /\ B \in Nat \ {0} /\ s = Q * B
    BY Quarters DEF s
  <2>2. old \in 0 .. s - 1 /\ s \in Nat
    BY <1>2, <1>4 DEF User!TypeOK
  <2>3. e = old - (old % Q) + c
    BY <1>7 DEF User!Extended
  <2>4. v = s
    <3>1. User!SizeOf(op) = 4
      BY <1>7 DEF User!SizeOf
    <3>2. 4 * (WordBits \div 4) = WordBits
      BY DEF User!UserProgramAssumption
    <3> QED BY <3>1, <3>2 DEF User!Bits, User!Size, s
  <2> HIDE DEF Q, B, old, v, e
  <2>5. old = Q * d + (old % Q) /\ d \in Nat
    BY <2>1, <2>2, Z3
  <2>6. old % Q \in 0 .. Q - 1
    BY <2>1, <2>2, RemainderLess
  <2>7. d \in 0 .. B - 1
    <3>1. old \in Nat /\ B \in Nat /\ old < B * Q
      <4>1. B * Q = Q * B
        BY <2>1
      <4> QED BY <2>1, <2>2, <4>1
    <3> QED BY <2>1, <3>1, QuotientLess, Zenon
  <2>8. c \in 0 .. Q - 1
    <3>1. value \in Nat /\ value < Q * B
      BY <1>1, <1>5, <2>1, <2>4
    <3> QED BY <2>1, <3>1, QuotientLess
  <2> HIDE DEF c, d
  <2>9. Q * d \in Nat /\ Q * d + Q <= s
    <3>1. d * Q + Q <= B * Q /\ d * Q = Q * d /\ B * Q = Q * B /\ Q * d \in Nat
      BY <2>1, <2>7, ProductGrows
    <3> QED BY <2>1, <3>1
  <2>10. e \in 0 .. s - 1
    <3> DEFINE j == old % Q
               i == Q * d
    <3>1. j \in 0 .. Q - 1 /\ i \in Nat /\ old = i + j /\ i + Q <= s /\ e = old - j + c
      BY <2>3, <2>5, <2>6, <2>9
    <3> HIDE DEF i, j
    <3> QED BY <2>1, <2>2, <2>8, <3>1
  <2> QED BY <1>4, <1>7, <2>10 DEF e
<1>8. CASE op \notin {"LB", "LH", "LWR"}
  <2>1. e = value
    BY <1>8 DEF User!Extended
  <2> HIDE DEF e
  <2>2. e \in 0 .. s - 1
    BY <1>1, <1>2, <1>5, <2>1
  <2> QED BY <1>4, <1>8, <2>2 DEF e
<1> QED BY <1>6, <1>7, <1>8

\* What a store writes is a number.
LEMMA StoresAre ==
  ASSUME User!UserProgramAssumption, User!TypeOK, NEW op, NEW rt \in Registers, NEW at \in Nat,
         \A i \in 0 .. User!SizeOf(op) - 1 : userMemory[at + i] \in Byte
  PROVE  User!Stores(op, rt, at) \in Nat
<1>1. userRegisters[rt] \in User!Word
  BY DEF User!TypeOK
<1>2. \A w \in User!Word : w \in Nat /\ w \in Int
  BY WordsAre
<1>3. CASE op = "SWR"
  <2>1. User!SizeOf(op) = 4
    BY <1>3 DEF User!SizeOf
  <2>2. User!Bytes(at, 4) \in 0 .. User!Bits(4) - 1
    BY <2>1, BytesAre
  <2>3. User!Bytes(at, 4) \in Nat
    <3>1. User!Bits(4) \in Int
      <4>1. 4 * (WordBits \div 4) = WordBits
        BY DEF User!UserProgramAssumption
      <4>2. User!Bits(4) = User!Size /\ User!Size \in Nat
        BY <4>1, SizeIs DEF User!Bits, User!Size
      <4> QED BY <4>2
    <3> HIDE DEF User!Bits, User!Bytes
    <3> QED BY <2>2, <3>1
  <2>4. User!Bits(3) \in Nat \ {0}
    BY Quarters
  <2>5. User!Bytes(at, 4) % User!Bits(3) \in Nat
    <3> HIDE DEF User!Bits, User!Bytes
    <3>1. User!Bytes(at, 4) % User!Bits(3) \in 0 .. User!Bits(3) - 1
      BY <2>3, <2>4, RemainderLess
    <3> QED BY <2>4, <3>1
  <2>6. User!ToWord(userRegisters[rt] * User!Bits(3)) \in Nat
    <3>1. userRegisters[rt] * User!Bits(3) \in Int
      <4> HIDE DEF User!Bits
      <4> QED BY <1>1, <1>2, <2>4
    <3>2. User!ToWord(userRegisters[rt] * User!Bits(3)) \in User!Word
      BY <3>1, WordsAre
    <3> QED BY <1>2, <3>2
  <2> QED BY <1>3, <2>5, <2>6 DEF User!Stores
<1>4. CASE op # "SWR"
  BY <1>1, <1>2, <1>4 DEF User!Stores
<1> QED BY <1>3, <1>4

-----------------------------------------------------------------------------
(* How an instruction ends, and the types.                                 *)

RegisterValues == [Registers \cup {User!HiReg, User!LoReg} -> User!Word]

LEMMA LoadedIs ==
  ASSUME User!UserProgramAssumption, User!TypeOK, NEW regs \in RegisterValues
  PROVE  User!Loaded(regs) \in RegisterValues /\ User!Loaded(regs)[0] = 0
<1>1. 0 \in User!Word /\ 0 \in Registers /\ userLoad.reg \in Registers /\ userLoad.value \in User!Word
  BY WordsAre DEF User!TypeOK, User!UserProgramAssumption
<1> QED BY <1>1 DEF User!Loaded, RegisterValues

LEMMA Next4IsWord ==
  ASSUME User!UserProgramAssumption, User!TypeOK
  PROVE  User!Next4 \in User!Word
<1>1. userNextPc + 4 \in Int
  <2>1. userNextPc \in Int
    BY WordsAre DEF User!TypeOK
  <2> QED BY <2>1
<1> QED BY <1>1, WordsAre DEF User!Next4

LEMMA RaisesTyped ==
  ASSUME User!UserProgramAssumption, User!TypeOK, User!Running, NEW which, User!Raises(which)
  PROVE  User!TypeOK'
<1>1. userRegisters \in RegisterValues /\ userSteps + 1 \in 0 .. MaxSteps
  BY DEF User!TypeOK, User!Running, RegisterValues, User!UserProgramAssumption
<1>2. userRegisters' \in RegisterValues /\ userRegisters'[0] = 0
  BY <1>1, LoadedIs DEF User!Raises
<1>3. userPc' \in User!Word /\ userNextPc' \in User!Word
  BY Next4IsWord DEF User!Raises, User!TypeOK
<1>4. userLoad' \in [reg : Registers, value : User!Word]
  <2>1. 0 \in User!Word /\ 0 \in Registers
    BY WordsAre DEF User!UserProgramAssumption
  <2> QED BY <2>1 DEF User!Raises, User!NoLoad
<1>5. userStatus' \in {"running", "finished", "halted", "aborted"}
  BY DEF User!Raises, User!Outcomes
<1>6. userSteps' \in 0 .. MaxSteps /\ userMemory' = userMemory
  BY <1>1 DEF User!Raises
<1> QED BY <1>2, <1>3, <1>4, <1>5, <1>6 DEF User!TypeOK, RegisterValues

LEMMA CompletesTyped ==
  ASSUME User!UserProgramAssumption, User!TypeOK, User!Running,
         NEW regs \in RegisterValues, NEW newLoad \in [reg : Registers, value : User!Word],
         NEW after \in Int, User!Completes(regs, newLoad, after),
         userMemory' \in [0 .. NumPhysPages * PageSize - 1 -> 0 .. User!Bits(1) - 1]
  PROVE  User!TypeOK'
<1>1. userSteps + 1 \in 0 .. MaxSteps
  BY DEF User!TypeOK, User!Running, User!UserProgramAssumption
<1>2. userRegisters' \in RegisterValues /\ userRegisters'[0] = 0
  <2>1. User!Loaded(regs) \in RegisterValues
    BY LoadedIs
  <2>2. 0 \in User!Word /\ 0 \in Registers
    BY WordsAre DEF User!UserProgramAssumption
  <2> QED BY <2>1, <2>2 DEF User!Completes, RegisterValues
<1>3. userPc' \in User!Word /\ userNextPc' \in User!Word
  BY WordsAre DEF User!Completes, User!TypeOK
<1>4. userLoad' = newLoad /\ userStatus' = userStatus /\ userSteps' \in 0 .. MaxSteps
  BY <1>1 DEF User!Completes
<1> QED BY <1>2, <1>3, <1>4 DEF User!TypeOK, RegisterValues

LEMMA AbortsTyped ==
  ASSUME User!UserProgramAssumption, User!TypeOK, User!Running, User!Aborts
  PROVE  User!TypeOK'
<1>1. userSteps + 1 \in 0 .. MaxSteps
  BY DEF User!TypeOK, User!Running, User!UserProgramAssumption
<1> QED BY <1>1 DEF User!Aborts, User!TypeOK

\* ADD, ADDI and SUB of words of every multiple of four bits: their sign tests find an overflow
\* exactly when the sum or the difference is not an int, and the word is then its
\* residue (machine/mipssim.cc, OneInstruction).
THEOREM SignTests ==
  ASSUME User!UserProgramAssumption, NEW a \in User!Word, NEW b \in User!Word
  PROVE /\ User!Overflows("ADD", a, b, User!Result("ADD", a, b))
            <=> ~ User!InRange(User!Signed(a) + User!Signed(b))
        /\ User!Overflows("ADDI", a, b, User!Result("ADDI", a, b))
            <=> ~ User!InRange(User!Signed(a) + User!Signed(b))
        /\ User!Overflows("SUB", a, b, User!Result("SUB", a, b))
            <=> ~ User!InRange(User!Signed(a) - User!Signed(b))
        /\ User!Result("ADD", a, b) = User!ToWord(User!Signed(a) + User!Signed(b))
        /\ User!Result("ADDI", a, b) = User!ToWord(User!Signed(a) + User!Signed(b))
        /\ User!Result("SUB", a, b) = User!ToWord(User!Signed(a) - User!Signed(b))
<1>1. PICK h \in Nat \ {0} : User!Size = 2 * h
  BY SizeIs
<1>2. h > 0 /\ User!Size \in Nat /\ User!Size \div 2 = h
  BY <1>1
<1>3. a \in 0 .. 2 * h - 1 /\ b \in 0 .. 2 * h - 1
  BY <1>1 DEF User!Word
<1> HIDE DEF User!Size
<1>4. User!ToWord(a + b) = IF a + b < 2 * h THEN a + b ELSE a + b - 2 * h
  BY <1>1, <1>2, <1>3, Remainder DEF User!ToWord
<1>5. User!ToWord(a - b) = IF a - b < 0 THEN a - b + 2 * h ELSE a - b
  BY <1>1, <1>2, <1>3, Remainder DEF User!ToWord
<1>6. User!Result("ADD", a, b) = User!ToWord(a + b)
    /\ User!Result("ADDI", a, b) = User!ToWord(a + b)
    /\ User!Result("SUB", a, b) = User!ToWord(a - b)
  BY DEF User!Result
<1>7. /\ User!IsNegative(a) <=> a >= h
      /\ User!IsNegative(b) <=> b >= h
      /\ User!Signed(a) = IF a >= h THEN a - 2 * h ELSE a
      /\ User!Signed(b) = IF b >= h THEN b - 2 * h ELSE b
      /\ \A n \in Int : User!InRange(n) <=> - h <= n /\ n < h
  BY <1>1, <1>2 DEF User!IsNegative, User!Signed, User!InRange
<1> DEFINE s == User!Result("ADD", a, b)
           d == User!Result("SUB", a, b)
<1>8. /\ s = (IF a + b < 2 * h THEN a + b ELSE a + b - 2 * h) /\ s \in Int
      /\ d = (IF a - b < 0 THEN a - b + 2 * h ELSE a - b) /\ d \in Int
      /\ User!Result("ADDI", a, b) = s
  BY <1>3, <1>4, <1>5, <1>6
<1>9. User!IsNegative(s) <=> s >= h
  BY <1>2 DEF User!IsNegative
<1>10. User!IsNegative(d) <=> d >= h
  BY <1>2 DEF User!IsNegative
<1>11. /\ User!Overflows("ADD", a, b, s) <=> User!IsNegative(a) = User!IsNegative(b)
           /\ User!IsNegative(a) # User!IsNegative(s)
       /\ User!Overflows("ADDI", a, b, s) <=> User!IsNegative(a) = User!IsNegative(b)
           /\ User!IsNegative(b) # User!IsNegative(s)
       /\ User!Overflows("SUB", a, b, d) <=> User!IsNegative(a) # User!IsNegative(b)
           /\ User!IsNegative(a) # User!IsNegative(d)
  BY DEF User!Overflows
<1>12. User!ToWord(User!Signed(a) + User!Signed(b)) = s
  <2>1. User!Signed(a) + User!Signed(b) \in Int
      /\ - User!Size <= User!Signed(a) + User!Signed(b)
      /\ User!Signed(a) + User!Signed(b) < 2 * User!Size
    BY <1>1, <1>3, <1>7
  <2> QED BY <2>1, <1>1, <1>2, <1>3, <1>7, <1>8, Remainder DEF User!ToWord
<1>13. User!ToWord(User!Signed(a) - User!Signed(b)) = d
  <2>1. User!Signed(a) - User!Signed(b) \in Int
      /\ - User!Size <= User!Signed(a) - User!Signed(b)
      /\ User!Signed(a) - User!Signed(b) < 2 * User!Size
    BY <1>1, <1>3, <1>7
  <2> QED BY <2>1, <1>1, <1>2, <1>3, <1>7, <1>8, Remainder DEF User!ToWord
<1>15. /\ User!Overflows("ADD", a, b, s) <=> ((a >= h) <=> (b >= h)) /\ ~ ((a >= h) <=> (s >= h))
       /\ User!Overflows("ADDI", a, b, s) <=> ((a >= h) <=> (b >= h)) /\ ~ ((b >= h) <=> (s >= h))
       /\ User!Overflows("SUB", a, b, d) <=> ~ ((a >= h) <=> (b >= h))
           /\ ~ ((a >= h) <=> (d >= h))
  BY <1>2, <1>11 DEF User!IsNegative
<1> HIDE DEF s, d
<1>16. /\ User!Overflows("ADD", a, b, s) <=> ~ User!InRange(User!Signed(a) + User!Signed(b))
       /\ User!Overflows("ADDI", a, b, s) <=> ~ User!InRange(User!Signed(a) + User!Signed(b))
       /\ User!Overflows("SUB", a, b, d) <=> ~ User!InRange(User!Signed(a) - User!Signed(b))
  BY <1>2, <1>3, <1>7, <1>8, <1>15
<1> QED BY <1>8, <1>12, <1>13, <1>16 DEF s, d

\* DIV of words of every multiple of four bits gives the quotient and the remainder of division
\* that rounds towards 0, but for the least int and -1 (machine/mipssim.cc).
THEOREM DivisionExact ==
  ASSUME User!UserProgramAssumption, NEW a \in User!Word, NEW b \in User!Word, b # 0,
         ~ (a = User!Size \div 2 /\ b = User!Size - 1)
  PROVE  LET r == User!HiLo("DIV", a, b) IN
         /\ User!Signed(r[2]) * User!Signed(b) + User!Signed(r[1]) = User!Signed(a)
         /\ User!Magnitude(r[1]) < User!Magnitude(b)
         /\ r[1] # 0 => (User!IsNegative(r[1]) <=> User!Signed(a) < 0)
<1> HIDE DEF User!Size
<1>1. PICK h \in Nat \ {0} : User!Size = 2 * h
  BY SizeIs
<1>2. /\ h > 0
      /\ \A w : User!IsNegative(w) <=> w >= h
      /\ \A w : User!Signed(w) = IF w >= h THEN w - 2 * h ELSE w
      /\ \A n \in - 2 * h .. 4 * h - 1 :
           User!ToWord(n) = IF n < 0 THEN n + 2 * h ELSE IF n < 2 * h THEN n ELSE n - 2 * h
      /\ \A n \in - h .. h - 1 : User!Signed(User!ToWord(n)) = n
  BY <1>1, Signs
<1>3. a \in 0 .. 2 * h - 1 /\ b \in 1 .. 2 * h - 1
  BY <1>1 DEF User!Word
<1> DEFINE A == User!Signed(a)
           B == User!Signed(b)
           p == User!Magnitude(a)
           q == User!Magnitude(b)
           d == p \div q
           x == d * q
           k == IF User!IsNegative(a) = User!IsNegative(b) THEN d ELSE - d
<1>4. /\ A \in - h .. h - 1 /\ B \in - h .. h - 1 /\ B # 0
      /\ p = (IF A < 0 THEN - A ELSE A) /\ q = (IF B < 0 THEN - B ELSE B)
      /\ p \in 0 .. h /\ q \in 1 .. h
      /\ User!IsNegative(a) <=> A < 0
      /\ User!IsNegative(b) <=> B < 0
      /\ ~ (A = - h /\ B = - 1)
  <2>1. /\ A = (IF a >= h THEN a - 2 * h ELSE a) /\ B = (IF b >= h THEN b - 2 * h ELSE b)
        /\ User!IsNegative(a) <=> a >= h
        /\ User!IsNegative(b) <=> b >= h
    BY <1>2
  <2>2. p = (IF a >= h THEN 2 * h - a ELSE a) /\ q = (IF b >= h THEN 2 * h - b ELSE b)
    BY <1>2, <1>3 DEF User!Magnitude
  <2>3. ~ (a = h /\ b = 2 * h - 1)
    BY <1>1
  <2> QED BY <2>1, <2>2, <2>3, <1>2, <1>3
<1>5. /\ d \in Nat /\ x \in Nat /\ x <= p /\ p < x + q /\ d <= p
      /\ q > 1 /\ p > 0 => d < p
  <2> HIDE DEF p, q
  <2>1. p \in Nat /\ q \in Nat \ {0}
    BY <1>4
  <2> QED BY <2>1, Quotient
<1>6. k * B = (IF A < 0 THEN - x ELSE x)
  <2>1. k = IF (A < 0) <=> (B < 0) THEN d ELSE - d
    BY <1>4 DEF User!IsNegative
  <2>2. B = IF B < 0 THEN - q ELSE q
    BY <1>4
  <2> HIDE DEF k, B, A, q, d
  <2>3. d \in Int /\ q \in Int /\ A \in Int /\ B \in Int
    BY <1>4, <1>5
  <2>4. (- d) * q = - (d * q) /\ d * (- q) = - (d * q) /\ (- d) * (- q) = d * q
    BY <2>3
  <2> QED BY <2>1, <2>2, <2>3, <2>4
<1>7. k \in - h .. h - 1
  <2>1. k = IF (A < 0) <=> (B < 0) THEN d ELSE - d
    BY <1>4 DEF User!IsNegative
  <2> HIDE DEF k, B, A, q, d, p
  <2> QED BY <2>1, <1>2, <1>4, <1>5
<1>8. A - k * B \in - h .. h - 1 /\ A - k * B = IF A < 0 THEN - (p - x) ELSE p - x
  <2> HIDE DEF k, B, A, q, d, p, x
  <2> QED BY <1>2, <1>4, <1>5, <1>6
<1>9. User!HiLo("DIV", a, b) = <<User!ToWord(A - k * B), User!ToWord(k)>>
  BY DEF User!HiLo, User!Div
<1> DEFINE r == User!HiLo("DIV", a, b)
<1>10. User!Signed(r[2]) = k /\ User!Signed(r[1]) = A - k * B
  <2>1. r[1] = User!ToWord(A - k * B) /\ r[2] = User!ToWord(k)
    BY <1>9
  <2> HIDE DEF k, A, B, r
  <2> QED BY <2>1, <1>2, <1>7, <1>8
<1>11. r[1] = IF A - k * B < 0 THEN A - k * B + 2 * h ELSE A - k * B
  <2>1. r[1] = User!ToWord(A - k * B)
    BY <1>9
  <2> HIDE DEF k, A, B, r
  <2> QED BY <2>1, <1>2, <1>8
<1>12. k * B + (A - k * B) = A
  <2>1. k * B \in Int /\ A \in Int
    <3> HIDE DEF k, A, B
    <3> QED BY <1>4, <1>7
  <2> HIDE DEF k, A, B
  <2> QED BY <2>1
<1>13. User!Magnitude(r[1]) = IF A - k * B < 0 THEN - (A - k * B) ELSE A - k * B
  <2> HIDE DEF k, A, B, r
  <2> DEFINE y == A - k * B
  <2>1. y \in - h .. h - 1 /\ r[1] = IF y < 0 THEN y + 2 * h ELSE y
    BY <1>8, <1>11
  <2> HIDE DEF y
  <2>2. CASE y < 0
    <3>1. User!IsNegative(r[1]) /\ - r[1] \in - 2 * h .. 4 * h - 1 /\ - r[1] < 0
      BY <1>2, <2>1, <2>2
    <3>2. User!ToWord(- r[1]) = - r[1] + 2 * h
      BY <3>1, <1>2
    <3> QED BY <3>1, <3>2, <2>1, <2>2 DEF User!Magnitude, y
  <2>3. CASE ~ (y < 0)
    BY <1>2, <2>1, <2>3 DEF User!Magnitude, y
  <2> QED BY <2>2, <2>3
<1>14. User!Magnitude(r[1]) < q
  <2> HIDE DEF k, A, B, r, q, p, d, x
  <2> QED BY <1>4, <1>5, <1>8, <1>13
<1>15. r[1] # 0 => (User!IsNegative(r[1]) <=> A < 0)
  <2> HIDE DEF k, A, B, r, q, p, d, x
  <2> QED BY <1>2, <1>4, <1>5, <1>8, <1>11
<1> QED BY <1>10, <1>12, <1>14, <1>15

\* The instructions of which ExactArithmetic speaks.
Exactly == {"ADD", "ADDI", "SUB", "MULT", "MULTU", "DIV", "LB", "LH"}

LEMMA OthersAreExact ==
  ASSUME userLast'.op \notin Exactly
  PROVE  User!ExactArithmetic'
  BY DEF User!ExactArithmetic, Exactly

LEMMA FaultsAreExact ==
  ASSUME userLast'.op \notin {"ADD", "ADDI", "SUB", "MULT", "MULTU"}, userLast'.raised # "none"
  PROVE  User!ExactArithmetic'
  BY DEF User!ExactArithmetic

LEMMA ComputesExact ==
  ASSUME User!UserProgramAssumption, NEW op \in User!ThreeRegisters \cup User!WithImmediate,
         NEW a \in User!Word, NEW b \in User!Word, NEW dest, User!Computes(op, a, b, dest)
  PROVE  User!ExactArithmetic'
<1> DEFINE r == User!Result(op, a, b)
           over == User!Overflows(op, a, b, r)
<1>1. /\ userLast'.op = op /\ userLast'.a = a /\ userLast'.b = b
      /\ over => userLast'.raised = "Overflow"
      /\ ~ over => userLast'.raised = "none" /\ userLast'.result = <<r>>
  BY DEF User!Computes, User!Records
<1> HIDE DEF r, over
<1>2. CASE op \in {"ADD", "ADDI"}
  <2> DEFINE n == User!Signed(a) + User!Signed(b)
  <2>1. over <=> ~ User!InRange(n)
    BY <1>2, SignTests DEF over, r
  <2>2. r = User!ToWord(n)
    BY <1>2, SignTests DEF r
  <2>3. User!Signed(userLast'.a) + User!Signed(userLast'.b) = n
    BY <1>1
  <2> HIDE DEF n
  <2>4. (userLast'.raised = "Overflow" <=> ~ User!InRange(n))
        /\ (User!InRange(n) => userLast'.result = <<User!ToWord(n)>>)
    BY <1>1, <2>1, <2>2
  <2> QED BY <1>1, <1>2, <2>3, <2>4 DEF User!ExactArithmetic
<1>3. CASE op = "SUB"
  <2> DEFINE n == User!Signed(a) - User!Signed(b)
  <2>1. over <=> ~ User!InRange(n)
    BY <1>3, SignTests DEF over, r
  <2>2. r = User!ToWord(n)
    BY <1>3, SignTests DEF r
  <2>3. User!Signed(userLast'.a) - User!Signed(userLast'.b) = n
    BY <1>1
  <2> HIDE DEF n
  <2>4. (userLast'.raised = "Overflow" <=> ~ User!InRange(n))
        /\ (User!InRange(n) => userLast'.result = <<User!ToWord(n)>>)
    BY <1>1, <2>1, <2>2
  <2> QED BY <1>1, <1>3, <2>3, <2>4 DEF User!ExactArithmetic
<1>4. CASE op \notin {"ADD", "ADDI", "SUB"}
  <2>1. op \notin Exactly
    BY <1>4 DEF Exactly, User!ThreeRegisters, User!WithImmediate
  <2> QED BY <1>1, <2>1, OthersAreExact
<1> QED BY <1>2, <1>3, <1>4

LEMMA HiLoExact ==
  ASSUME User!UserProgramAssumption, NEW op \in {"MULT", "MULTU", "DIV", "DIVU"},
         NEW a \in User!Word, NEW b \in User!Word,
         ~ (op = "DIV" /\ a = User!Size \div 2 /\ b = User!Size - 1),
         User!Records(op, a, b, User!HiLo(op, a, b), "none")
  PROVE  User!ExactArithmetic'
<1> DEFINE r == User!HiLo(op, a, b)
<1>1. /\ userLast'.op = op /\ userLast'.a = a /\ userLast'.b = b
      /\ userLast'.raised = "none" /\ userLast'.result = r
  BY DEF User!Records
<1>2. CASE op = "MULT"
  <2>1. User!Signed(r[1]) * User!Size + r[2] = User!Signed(a) * User!Signed(b)
    BY <1>2, ProductExact
  <2> HIDE DEF r
  <2> QED BY <1>1, <1>2, <2>1 DEF User!ExactArithmetic
<1>3. CASE op = "MULTU"
  <2>1. r[1] * User!Size + r[2] = a * b
    BY <1>3, ProductExact
  <2> HIDE DEF r
  <2> QED BY <1>1, <1>3, <2>1 DEF User!ExactArithmetic
<1>4. CASE op = "DIV"
  <2>1. ASSUME b # 0
        PROVE  /\ User!Signed(r[2]) * User!Signed(b) + User!Signed(r[1]) = User!Signed(a)
               /\ User!Magnitude(r[1]) < User!Magnitude(b)
               /\ r[1] # 0 => (User!IsNegative(r[1]) <=> User!Signed(a) < 0)
    BY <1>4, <2>1, DivisionExact
  <2>2. b = 0 => User!Signed(b) = 0
    <3>1. PICK h \in Nat \ {0} : User!Size = 2 * h
      BY SizeIs
    <3>2. \A w : User!Signed(w) = IF w >= h THEN w - 2 * h ELSE w
      BY <3>1, Signs
    <3> QED BY <3>2
  <2> HIDE DEF r
  <2>3. CASE b = 0
    BY <1>1, <1>4, <2>2, <2>3 DEF User!ExactArithmetic
  <2>4. CASE b # 0
    BY <1>1, <1>4, <2>1, <2>4 DEF User!ExactArithmetic
  <2> QED BY <2>3, <2>4
<1>5. CASE op = "DIVU"
  BY <1>1, <1>5, OthersAreExact DEF Exactly
<1> QED BY <1>2, <1>3, <1>4, <1>5

\* A load or a store keeps the types, and a load the value of what has a sign.
LEMMA AccessTyped ==
  ASSUME User!UserProgramAssumption, User!TypeOK, User!Running,
         NEW op, NEW addr \in User!Word, NEW rt \in Registers, User!Access(op, addr, rt),
         op \in {"LB", "LBU", "LH", "LHU", "LW", "LWL", "LWR", "SB", "SH", "SW", "SWL", "SWR"}
  PROVE  User!TypeOK' /\ User!ExactArithmetic'
<1> DEFINE store == op \in {"SB", "SH", "SW", "SWL", "SWR"}
           size == User!SizeOf(op)
           where == User!Translate(addr, size, store)
           value == User!Extended(op, User!Bytes(where.address, size), rt)
<1>1. CASE op \in {"LWL", "LWR", "SWL", "SWR"} /\ addr % 4 # 0
  <2>1. User!Aborts /\ userLast'.op = op /\ userLast'.raised = "fault"
    BY <1>1 DEF User!Access, User!Records
  <2> QED BY <1>1, <2>1, AbortsTyped, FaultsAreExact
<1>2. CASE ~ (op \in {"LWL", "LWR", "SWL", "SWR"} /\ addr % 4 # 0) /\ where.exception # "none"
  <2>1. User!Raises(where.exception) /\ userLast'.op = op /\ userLast'.raised = where.exception
    BY <1>2 DEF User!Access, User!Records
  <2> HIDE DEF where
  <2> QED BY <1>2, <2>1, RaisesTyped, FaultsAreExact
<1>3. CASE ~ (op \in {"LWL", "LWR", "SWL", "SWR"} /\ addr % 4 # 0) /\ where.exception = "none"
  <2>1. size \in {1, 2, 4}
    BY DEF User!SizeOf
  <2>2. /\ where.address \in Nat
        /\ \A i \in 0 .. size - 1 : where.address + i \in 0 .. NumPhysPages * PageSize - 1
    BY <1>3, <2>1, TranslateIs
  <2>3. userMemory \in [0 .. NumPhysPages * PageSize - 1 -> Byte]
    BY DEF User!TypeOK, Byte
  <2>4. \A i \in 0 .. size - 1 : userMemory[where.address + i] \in Byte
    BY <2>2, <2>3
  <2>5. userRegisters \in RegisterValues /\ userNextPc + 4 \in Int
    <3>1. userNextPc \in Int
      BY WordsAre DEF User!TypeOK
    <3> QED BY <3>1 DEF User!TypeOK, RegisterValues
  <2>6. CASE store
    <3>1. /\ userMemory' = User!Stored(where.address, size, User!Stores(op, rt, where.address))
          /\ User!Completes(userRegisters, User!NoLoad, userNextPc + 4)
          /\ userLast'.op = op
      BY <1>3, <2>6 DEF User!Access, User!Records
    <3> HIDE DEF where
    <3>2. User!Stores(op, rt, where.address) \in Nat
      BY <2>2, <2>4, StoresAre
    <3>3. userMemory' \in [0 .. NumPhysPages * PageSize - 1 -> Byte]
      <4>1. 0 .. NumPhysPages * PageSize - 1 \subseteq Nat
        OBVIOUS
      <4> QED BY <2>1, <2>2, <2>3, <3>1, <3>2, <4>1, StoredIs
    <3>4. User!NoLoad \in [reg : Registers, value : User!Word]
      BY WordsAre DEF User!NoLoad, User!UserProgramAssumption
    <3>5. User!TypeOK'
      BY <2>5, <3>1, <3>3, <3>4, CompletesTyped DEF Byte
    <3>6. userLast'.op \notin Exactly
      BY <2>6, <3>1 DEF Exactly
    <3> QED BY <3>5, <3>6, OthersAreExact
  <2>7. CASE ~ store
    <3>1. /\ User!Completes(userRegisters, [reg |-> rt, value |-> value], userNextPc + 4)
          /\ userLast'.op = op /\ userLast'.a = addr
          /\ userLast'.result = <<value>> /\ userMemory' = userMemory
      BY <1>3, <2>7 DEF User!Access, User!Records
    <3> DEFINE bytes == User!Bytes(where.address, size)
    <3>2. bytes \in 0 .. User!Bits(size) - 1
      <4> HIDE DEF where
      <4> QED BY <2>1, <2>2, <2>4, BytesAre
    <3> HIDE DEF bytes
    <3>3. /\ value \in User!Word
          /\ op \in {"LB", "LH"} =>
               /\ User!Signed(value) \in - (User!Bits(size) \div 2) .. User!Bits(size) \div 2 - 1
               /\ value % User!Bits(size) = bytes
      BY <3>2, ExtendedIs DEF bytes
    <3>8. User!InMemory(op, addr)' = bytes
      <4>1. where.address = User!Translate(addr, size, FALSE).address
        BY <1>3, <2>7 DEF User!Translate, User!PageTable
      <4>2. User!Translate(addr, size, FALSE)' = User!Translate(addr, size, FALSE)
        BY DEF User!Translate, User!PageTable
      <4> DEFINE at == User!Translate(addr, size, FALSE).address
      <4>3. User!InMemory(op, addr)' = User!Bytes(at, size)'
        BY <4>2 DEF User!InMemory
      <4>4. where.address = at
        BY <4>1
      <4> HIDE DEF where, at
      <4>5. User!Bytes(at, size)' = User!Bytes(at, size)
        BY <3>1 DEF User!Bytes
      <4> QED BY <4>3, <4>4, <4>5 DEF bytes
    <3> HIDE DEF where, value
    <3>4. [reg |-> rt, value |-> value] \in [reg : Registers, value : User!Word]
      BY <3>3
    <3>5. User!TypeOK'
      BY <2>3, <2>5, <3>1, <3>4, CompletesTyped DEF Byte
    <3>6. CASE op \in {"LB", "LH"}
      <4>1. userLast'.result[1] = value
        BY <3>1
      <4>3. User!InMemory(userLast.op, userLast.a)' = bytes
        BY <3>1, <3>8 DEF User!InMemory, User!Bytes
      <4> HIDE DEF size
      <4>2. User!ExactArithmetic'
        BY <3>1, <3>3, <3>6, <4>1, <4>3 DEF User!ExactArithmetic, size
      <4> QED BY <3>5, <4>2
    <3>7. CASE op \notin {"LB", "LH"}
      <4>1. userLast'.op \notin Exactly
        BY <2>7, <3>1, <3>7 DEF Exactly
      <4> QED BY <3>5, <4>1, OthersAreExact
    <3> QED BY <3>6, <3>7
  <2> QED BY <2>6, <2>7
<1> QED BY <1>1, <1>2, <1>3

\* Each instruction, trap and interrupt keeps the types and records what is exact.
LEMMA NextTyped ==
  ASSUME User!UserProgramAssumption, User!TypeOK, User!ExactArithmetic, [User!Next]_(User!vars)
  PROVE  User!TypeOK' /\ User!ExactArithmetic'
<1>a. CASE UNCHANGED User!vars
  <2>1. User!InMemory(userLast.op, userLast.a)' = User!InMemory(userLast.op, userLast.a)
    BY <1>a DEF User!vars, User!InMemory, User!Bytes
  <2> QED BY <1>a, <2>1 DEF User!vars, User!TypeOK, User!ExactArithmetic
<1> SUFFICES ASSUME User!Next PROVE User!TypeOK' /\ User!ExactArithmetic'
  BY <1>a
<1>1. /\ userRegisters \in RegisterValues
      /\ Rs \cup Rt \cup Rd \subseteq Registers
      /\ \A r \in Registers \cup {User!HiReg, User!LoReg} : userRegisters[r] \in User!Word
      /\ \A r \in Registers \cup {User!HiReg, User!LoReg}, w \in User!Word :
           [userRegisters EXCEPT ![r] = w] \in RegisterValues
  BY DEF User!TypeOK, RegisterValues, User!UserProgramAssumption
<1>2. /\ User!NoLoad \in [reg : Registers, value : User!Word]
      /\ userMemory \in [0 .. NumPhysPages * PageSize - 1 -> 0 .. User!Bits(1) - 1]
  BY WordsAre DEF User!NoLoad, User!TypeOK, User!UserProgramAssumption
<1>3. /\ \A w \in User!Word : w \in Int
      /\ \A n \in Int : User!ToWord(n) \in User!Word
  BY WordsAre
<1>4. /\ userNextPc \in Int /\ userNextPc + 4 \in Int
      /\ User!Next4 \in User!Word /\ User!Next4 \in Int
  <2>1. userNextPc \in Int
    BY <1>3 DEF User!TypeOK
  <2> QED BY <1>3, <2>1, Next4IsWord
<1>5. ASSUME NEW regs \in RegisterValues, NEW after \in Int, User!Running,
             User!Completes(regs, User!NoLoad, after), userMemory' = userMemory
      PROVE  User!TypeOK'
  BY <1>2, <1>5, CompletesTyped
<1>6. CASE User!FetchFails
  <2>1. User!Running /\ User!Raises(User!Fetch) /\ userLast'.op = "fetch"
    BY <1>6 DEF User!FetchFails, User!Records
  <2>2. userLast'.op \notin Exactly
    BY <2>1 DEF Exactly
  <2> QED BY <2>1, <2>2, RaisesTyped, OthersAreExact
<1>7. CASE User!Arithmetic
  <2>1. ASSUME NEW op \in User!ThreeRegisters \cup User!WithImmediate,
               NEW a \in User!Word, NEW b \in User!Word, NEW dest \in Registers,
               User!Running, User!Computes(op, a, b, dest)
        PROVE  User!TypeOK' /\ User!ExactArithmetic'
    <3> DEFINE r == User!Result(op, a, b)
    <3>1. r \in User!Word
      BY ResultIsWord
    <3>2. ASSUME User!Overflows(op, a, b, r) PROVE User!TypeOK'
      BY <2>1, <3>2, RaisesTyped DEF User!Computes
    <3>3. ASSUME ~ User!Overflows(op, a, b, r) PROVE User!TypeOK'
      <4>1. User!Completes([userRegisters EXCEPT ![dest] = r], User!NoLoad, userNextPc + 4)
            /\ userMemory' = userMemory
        BY <2>1, <3>3 DEF User!Computes
      <4> HIDE DEF r
      <4>2. [userRegisters EXCEPT ![dest] = r] \in RegisterValues
        BY <1>1, <3>1
      <4> QED BY <1>4, <1>5, <2>1, <4>1, <4>2
    <3>4. User!TypeOK'
      BY <3>2, <3>3
    <3> QED BY <2>1, <3>4, ComputesExact
  <2>2. User!Running
    BY <1>7 DEF User!Arithmetic, User!Fetched
  <2>3. PICK rs \in Rs :
          \/ \E op \in User!ThreeRegisters, rt \in Rt, rd \in Rd :
               User!Computes(op, userRegisters[rs], userRegisters[rt], rd)
          \/ \E op \in User!WithImmediate, rt \in Rt, x \in Immediates :
               User!Computes(op, userRegisters[rs],
                             IF op \in {"ANDI", "ORI", "XORI"} THEN x % User!Bits(2) ELSE User!ToWord(x), rt)
    BY <1>7 DEF User!Arithmetic
  <2>4. userRegisters[rs] \in User!Word
    BY <1>1
  <2>5. CASE \E op \in User!ThreeRegisters, rt \in Rt, rd \in Rd :
               User!Computes(op, userRegisters[rs], userRegisters[rt], rd)
    <3>1. PICK op \in User!ThreeRegisters, rt \in Rt, rd \in Rd :
               User!Computes(op, userRegisters[rs], userRegisters[rt], rd)
      BY <2>5
    <3>2. userRegisters[rt] \in User!Word /\ rd \in Registers
      BY <1>1
    <3> QED BY <2>1, <2>2, <2>4, <3>1, <3>2
  <2>6. CASE \E op \in User!WithImmediate, rt \in Rt, x \in Immediates :
               User!Computes(op, userRegisters[rs],
                             IF op \in {"ANDI", "ORI", "XORI"} THEN x % User!Bits(2) ELSE User!ToWord(x), rt)
    <3>1. PICK op \in User!WithImmediate, rt \in Rt, x \in Immediates :
               User!Computes(op, userRegisters[rs],
                             IF op \in {"ANDI", "ORI", "XORI"} THEN x % User!Bits(2) ELSE User!ToWord(x), rt)
      BY <2>6
    <3>2. x \in Int /\ rt \in Registers
      BY <1>1 DEF User!UserProgramAssumption
    <3>3. x % User!Bits(2) \in User!Word
      <4> DEFINE B == User!Bits(2)
      <4>1. B \in Nat \ {0} /\ B * B = User!Size /\ User!Word = 0 .. User!Size - 1
        BY Quarters DEF User!Word
      <4> HIDE DEF B, User!Size
      <4>2. x % B \in 0 .. B - 1
        BY <3>2, <4>1, Z3
      <4>3. B <= User!Size
        <5>1. 1 * B <= B * B
          BY <4>1, ProductGrows
        <5> QED BY <4>1, <5>1
      <4>4. User!Size \in Int
        BY <4>1
      <4> DEFINE v == x % B
      <4> HIDE DEF v
      <4>5. v \in 0 .. User!Size - 1
        BY <4>1, <4>2, <4>3, <4>4 DEF v
      <4> QED BY <4>1, <4>5 DEF v, B
    <3>4. User!ToWord(x) \in User!Word
      BY <1>3, <3>2
    <3> QED BY <2>1, <2>2, <2>4, <3>1, <3>2, <3>3, <3>4
  <2> QED BY <2>3, <2>5, <2>6
<1>8. CASE User!Shift
  <2>1. User!Running /\ userMemory' = userMemory
    BY <1>8 DEF User!Shift, User!Fetched
  <2>2. PICK rt \in Rt, rd \in Rd :
        \E s \in ({"SLL", "SRA", "SRL"} \X Shifts)
                 \cup ({"SLLV", "SRAV", "SRLV"} \X {userRegisters[rs] % WordBits : rs \in Rs}) :
          LET r == User!Shifted(s[1], userRegisters[rt], s[2]) IN
          /\ User!Completes([userRegisters EXCEPT ![rd] = r], User!NoLoad, userNextPc + 4)
          /\ User!Records(s[1], userRegisters[rt], s[2], <<r>>, "none")
    BY <1>8 DEF User!Shift
  <2>3. PICK s \in ({"SLL", "SRA", "SRL"} \X Shifts)
                 \cup ({"SLLV", "SRAV", "SRLV"} \X {userRegisters[rs] % WordBits : rs \in Rs}) :
          /\ User!Completes([userRegisters EXCEPT ![rd] = User!Shifted(s[1], userRegisters[rt], s[2])],
                            User!NoLoad, userNextPc + 4)
          /\ userLast'.op = s[1]
    BY <2>2 DEF User!Records
  <2>4. s[1] \in {"SLL", "SRA", "SRL", "SLLV", "SRAV", "SRLV"} /\ s[2] \in Nat
    <3>1. CASE s \in {"SLL", "SRA", "SRL"} \X Shifts
      BY <3>1 DEF User!UserProgramAssumption
    <3>2. CASE s \in {"SLLV", "SRAV", "SRLV"} \X {userRegisters[rs] % WordBits : rs \in Rs}
      <4>1. PICK rs \in Rs : s[2] = userRegisters[rs] % WordBits
        BY <3>2
      <4>2. userRegisters[rs] \in Nat /\ WordBits \in Nat \ {0}
        BY <1>1, WordsAre DEF User!UserProgramAssumption
      <4>3. s[2] \in 0 .. WordBits - 1
        BY <4>1, <4>2, RemainderLess
      <4>4. s[2] \in Nat
        BY <4>2, <4>3
      <4> QED BY <3>2, <4>4
    <3> QED BY <3>1, <3>2
  <2> DEFINE r == User!Shifted(s[1], userRegisters[rt], s[2])
  <2>5. r \in User!Word
    BY <1>1, <2>4, ShiftedIsWord
  <2> HIDE DEF r
  <2>6. [userRegisters EXCEPT ![rd] = r] \in RegisterValues
    BY <1>1, <2>5
  <2>7. User!TypeOK'
    BY <1>4, <1>5, <2>1, <2>3, <2>6 DEF r
  <2>8. userLast'.op \notin Exactly
    BY <2>3, <2>4 DEF Exactly
  <2> QED BY <2>7, <2>8, OthersAreExact
<1>9. CASE User!Move
  <2>1. User!Running /\ userMemory' = userMemory /\ userLast'.op = "move"
    BY <1>9 DEF User!Move, User!Fetched, User!Records
  <2>2. PICK m \in ({User!HiReg, User!LoReg} \X Rd) \cup (Rs \X {User!HiReg, User!LoReg}) :
          User!Completes([userRegisters EXCEPT ![m[2]] = userRegisters[m[1]]], User!NoLoad, userNextPc + 4)
    BY <1>9 DEF User!Move
  <2>3. m[1] \in Registers \cup {User!HiReg, User!LoReg} /\ m[2] \in Registers \cup {User!HiReg, User!LoReg}
    BY <1>1
  <2>4. [userRegisters EXCEPT ![m[2]] = userRegisters[m[1]]] \in RegisterValues
    BY <1>1, <2>3
  <2>5. User!TypeOK'
    BY <1>4, <1>5, <2>1, <2>2, <2>4
  <2>6. userLast'.op \notin Exactly
    BY <2>1 DEF Exactly
  <2> QED BY <2>5, <2>6, OthersAreExact
<1>10. CASE User!MultiplyDivide
  <2>1. User!Running
    BY <1>10 DEF User!MultiplyDivide, User!Fetched
  <2>2. PICK op \in {"MULT", "MULTU", "DIV", "DIVU"}, rs \in Rs, rt \in Rt :
          LET a == userRegisters[rs]
              b == userRegisters[rt]
              r == User!HiLo(op, a, b)
          IN IF op = "DIV" /\ a = User!Size \div 2 /\ b = User!Size - 1
             THEN User!Aborts /\ User!Records(op, a, b, <<>>, "fault")
             ELSE /\ User!Completes([userRegisters EXCEPT ![User!HiReg] = r[1], ![User!LoReg] = r[2]],
                                    User!NoLoad, userNextPc + 4)
                  /\ User!Records(op, a, b, r, "none")
                  /\ userMemory' = userMemory
    BY <1>10, ZenonT(60) DEF User!MultiplyDivide
  <2> DEFINE a == userRegisters[rs]
             b == userRegisters[rt]
             r == User!HiLo(op, a, b)
  <2>3. a \in User!Word /\ b \in User!Word
    BY <1>1
  <2>4. CASE op = "DIV" /\ a = User!Size \div 2 /\ b = User!Size - 1
    <3>1. User!Aborts /\ userLast'.op = "DIV" /\ userLast'.raised = "fault"
      BY <2>2, <2>4 DEF User!Records
    <3> QED BY <2>1, <3>1, AbortsTyped, FaultsAreExact
  <2>5. CASE ~ (op = "DIV" /\ a = User!Size \div 2 /\ b = User!Size - 1)
    <3>1. /\ User!Completes([userRegisters EXCEPT ![User!HiReg] = r[1], ![User!LoReg] = r[2]],
                            User!NoLoad, userNextPc + 4)
          /\ User!Records(op, a, b, r, "none")
          /\ userMemory' = userMemory
      BY <2>2, <2>5
    <3>2. r[1] \in User!Word /\ r[2] \in User!Word
      BY <2>3, HiLoIsWords
    <3>3. User!ExactArithmetic'
      BY <2>3, <2>5, <3>1, HiLoExact
    <3> HIDE DEF r
    <3>4. [userRegisters EXCEPT ![User!HiReg] = r[1], ![User!LoReg] = r[2]] \in RegisterValues
      BY <1>1, <3>2 DEF RegisterValues
    <3> QED BY <1>4, <1>5, <2>1, <3>1, <3>3, <3>4
  <2> QED BY <2>4, <2>5
<1>11. \A op : User!Linked(op) \in RegisterValues
  BY <1>1, <1>4 DEF User!Linked, RegisterValues
<1>12. CASE User!Branch
  <2>1. User!Running /\ userMemory' = userMemory
    BY <1>12 DEF User!Branch, User!Fetched
  <2>2. PICK op \in {"BEQ", "BNE", "BGEZ", "BGEZAL", "BLTZ", "BLTZAL", "BGTZ", "BLEZ"}, x \in Immediates :
          /\ \/ User!Completes(User!Linked(op), User!NoLoad, userNextPc + 4 * x)
             \/ User!Completes(User!Linked(op), User!NoLoad, userNextPc + 4)
          /\ userLast'.op = op
    BY <1>12 DEF User!Branch, User!Records
  <2>3. userNextPc + 4 * x \in Int
    <3>1. x \in Int
      BY DEF User!UserProgramAssumption
    <3> QED BY <1>4, <3>1
  <2>4. User!TypeOK'
    BY <1>4, <1>5, <1>11, <2>1, <2>2, <2>3
  <2>5. userLast'.op \notin Exactly
    BY <2>2 DEF Exactly
  <2> QED BY <2>4, <2>5, OthersAreExact
<1>13. CASE User!Jump
  <2>1. User!Running /\ userMemory' = userMemory /\ userLast'.op = "jump"
    BY <1>13 DEF User!Jump, User!Fetched, User!Records
  <2>2. ASSUME \E op \in {"J", "JAL"}, x \in Targets :
                 User!Completes(User!Linked(op), User!NoLoad,
                                User!Next4 - (User!Next4 % 2 ^ (WordBits - 4)) + 4 * x)
        PROVE  User!TypeOK'
    <3>1. PICK op \in {"J", "JAL"}, x \in Targets :
               User!Completes(User!Linked(op), User!NoLoad,
                              User!Next4 - (User!Next4 % 2 ^ (WordBits - 4)) + 4 * x)
      BY <2>2
    <3>2. x \in Nat /\ WordBits - 4 \in Nat
      BY DEF User!UserProgramAssumption
    <3> DEFINE p == 2 ^ (WordBits - 4)
               t == User!Next4
    <3>3. p \in Nat \ {0} /\ t \in Nat
      <4>1. User!Next4 \in Nat
        BY <1>4, WordsAre
      <4>2. 2 ^ (WordBits - 4) \in Nat /\ 2 ^ (WordBits - 4) > 0
        BY <3>2, Powers
      <4> QED BY <4>1, <4>2
    <3> HIDE DEF p, t
    <3>4. t % p \in 0 .. p - 1
      BY <3>3, RemainderLess
    <3>5. t - (t % p) + 4 * x \in Int
      BY <3>2, <3>3, <3>4
    <3> QED BY <1>5, <1>11, <2>1, <3>1, <3>5 DEF p, t
  <2>3. ASSUME \E rs \in Rs : User!Completes(userRegisters, User!NoLoad, userRegisters[rs])
        PROVE  User!TypeOK'
    <3>1. PICK rs \in Rs : User!Completes(userRegisters, User!NoLoad, userRegisters[rs])
      BY <2>3
    <3>2. userRegisters[rs] \in Int
      BY <1>1, <1>3
    <3> QED BY <1>1, <1>5, <2>1, <3>1, <3>2
  <2>4. ASSUME \E rs \in Rs, rd \in Rd :
                 LET regs == [userRegisters EXCEPT ![rd] = User!Next4]
                 IN  User!Completes(regs, User!NoLoad, regs[rs])
        PROVE  User!TypeOK'
    <3>1. PICK rs \in Rs, rd \in Rd :
            LET regs == [userRegisters EXCEPT ![rd] = User!Next4]
            IN  User!Completes(regs, User!NoLoad, regs[rs])
      BY <2>4
    <3> DEFINE regs == [userRegisters EXCEPT ![rd] = User!Next4]
    <3>2. regs \in RegisterValues
      BY <1>1, <1>4
    <3>3. User!Completes(regs, User!NoLoad, regs[rs])
      BY <3>1
    <3> HIDE DEF regs
    <3>4. regs[rs] \in Int
      BY <1>1, <1>3, <3>2 DEF RegisterValues
    <3> QED BY <1>5, <2>1, <3>2, <3>3, <3>4
  <2>5. User!TypeOK'
    BY <1>13, <2>2, <2>3, <2>4 DEF User!Jump
  <2>6. userLast'.op \notin Exactly
    BY <2>1 DEF Exactly
  <2> QED BY <2>5, <2>6, OthersAreExact
<1>14. CASE User!LoadStore
  <2>1. User!Running
    BY <1>14 DEF User!LoadStore, User!Fetched
  <2>2. PICK op \in {"LB", "LBU", "LH", "LHU", "LW", "LWL", "LWR", "SB", "SH", "SW", "SWL", "SWR"},
             rs \in Rs, rt \in Rt, x \in Immediates :
          User!Access(op, User!ToWord(userRegisters[rs] + x), rt)
    BY <1>14 DEF User!LoadStore
  <2>3. rt \in Registers /\ userRegisters[rs] + x \in Int
    <3>1. userRegisters[rs] \in Int /\ x \in Int
      BY <1>1, <1>3 DEF User!UserProgramAssumption
    <3> QED BY <1>1, <3>1
  <2> QED BY <1>3, <2>1, <2>2, <2>3, AccessTyped
<1>15. CASE User!Trap
  <2>1. User!Running /\ userLast'.op = "trap" /\ \E which : User!Raises(which)
    BY <1>15 DEF User!Trap, User!Fetched, User!Records
  <2>2. userLast'.op \notin Exactly
    BY <2>1 DEF Exactly
  <2> QED BY <2>1, <2>2, RaisesTyped, OthersAreExact
<1>16. CASE User!Interrupted
  <2>1. userLast'.op \notin Exactly
    BY <1>16 DEF User!Interrupted, User!Records, Exactly
  <2>2. userRegisters' \in RegisterValues /\ userRegisters'[0] = 0
    BY <1>1, <1>16, LoadedIs DEF User!Interrupted
  <2>3. User!TypeOK'
    BY <1>2, <1>16, <2>2 DEF User!Interrupted, User!TypeOK, RegisterValues
  <2> QED BY <2>1, <2>3, OthersAreExact
<1> QED BY <1>6, <1>7, <1>8, <1>9, <1>10, <1>12, <1>13, <1>14, <1>15, <1>16 DEF User!Next

\* The first state: the loader and the program have put bytes and words where they are.
LEMMA InitTyped ==
  ASSUME User!UserProgramAssumption, User!Init
  PROVE  User!TypeOK /\ User!ExactArithmetic
<1>1. /\ userRegisters \in [Registers \cup {User!HiReg, User!LoReg} -> Operands \cup {0}]
      /\ \A x \in DOMAIN userRegisters : userRegisters[x] # 0 => x \in (Rs \cup Rt) \ {0}
      /\ userPc \in {0, NumPages * PageSize - 4} /\ userNextPc = userPc + 4
      /\ userLoad = User!NoLoad /\ userMemory = Image /\ userStatus = "running" /\ userSteps = 0
  BY DEF User!Init
<1>2. /\ User!Word = 0 .. User!Size - 1 /\ User!Size \in Nat /\ 0 \in User!Word
      /\ 0 \in Registers /\ Operands \subseteq User!Word /\ NumPages * PageSize \in User!Word
  BY WordsAre DEF User!UserProgramAssumption
<1>3. userRegisters \in [Registers \cup {User!HiReg, User!LoReg} -> User!Word] /\ userRegisters[0] = 0
  BY <1>1, <1>2
<1>4. userPc \in User!Word /\ userNextPc \in User!Word
  <2>1. NumPages * PageSize \in Nat /\ NumPages * PageSize >= 4
    <3>1. NumPages \in Nat \ {0} /\ PageSize \in Nat /\ PageSize >= 4
      BY DEF User!UserProgramAssumption
    <3>2. 1 * PageSize <= NumPages * PageSize /\ NumPages * PageSize \in Nat
      BY <3>1, ProductGrows
    <3> QED BY <3>1, <3>2
  <2> DEFINE end == NumPages * PageSize
  <2>2. end \in Nat /\ end >= 4 /\ end \in 0 .. User!Size - 1 /\ userPc \in {0, end - 4}
    BY <1>1, <1>2, <2>1
  <2> HIDE DEF end, User!Size
  <2>3. userPc \in 0 .. User!Size - 1 /\ userPc + 4 \in 0 .. User!Size - 1
    BY <1>2, <2>2
  <2> QED BY <1>1, <1>2, <2>3
<1>5. userLoad \in [reg : Registers, value : User!Word]
  BY <1>1, <1>2 DEF User!NoLoad
<1>6. userMemory \in [0 .. NumPhysPages * PageSize - 1 -> 0 .. User!Bits(1) - 1]
      /\ userSteps \in 0 .. MaxSteps
  BY <1>1 DEF User!UserProgramAssumption
<1>7. userLast.op = "none"
  BY DEF User!Init, User!Nothing
<1>8. User!ExactArithmetic
  BY <1>7 DEF User!ExactArithmetic
<1> QED BY <1>1, <1>3, <1>4, <1>5, <1>6, <1>8 DEF User!TypeOK

-----------------------------------------------------------------------------
(* Traps are precise.                                                      *)

\* What a trap relies on: the pending load is of a register, and register 0 is 0.
CanTrap ==
  /\ DOMAIN userRegisters = Registers \cup {User!HiReg, User!LoReg}
  /\ userRegisters = [r \in DOMAIN userRegisters |-> userRegisters[r]]
  /\ userRegisters[0] = 0
  /\ userLoad.reg \in Registers

Precisely ==
      /\ userLast'.raised \notin {"none", "fault"} =>
           /\ userRegisters' = [userRegisters EXCEPT ![userLoad.reg] = userLoad.value, ![0] = 0]
           /\ userMemory' = userMemory
           /\ userLoad' = User!NoLoad
           /\ IF userStatus' = "running" THEN <<userPc, userNextPc>>' = <<userNextPc, User!Next4>>
              ELSE UNCHANGED <<userPc, userNextPc>>
      /\ userLoad.reg # 0 /\ userStatus' # "aborted"
          => userRegisters'[userLoad.reg] = userLoad.value

\* An exception is precise.
LEMMA RaisesStep ==
  ASSUME User!UserProgramAssumption, CanTrap, NEW which, User!Raises(which)
  PROVE  Precisely
  BY DEF User!UserProgramAssumption, CanTrap, User!Raises, User!Loaded, User!NoLoad, Precisely,
         User!HiReg, User!LoReg

\* An instruction that completes does the load that was pending.
LEMMA CompletesStep ==
  ASSUME User!UserProgramAssumption, CanTrap, NEW regs, NEW newLoad, NEW after,
         DOMAIN regs = Registers \cup {User!HiReg, User!LoReg}, newLoad.reg \in Registers,
         User!Completes(regs, newLoad, after), userLast'.raised = "none"
  PROVE  Precisely
  BY DEF User!UserProgramAssumption, CanTrap, User!Completes, User!Loaded, User!NoLoad, Precisely,
         User!HiReg, User!LoReg

\* A fault of the host changes nothing.
LEMMA AbortsStep ==
  ASSUME User!UserProgramAssumption, CanTrap, User!Aborts, userLast'.raised = "fault"
  PROVE  Precisely
  BY DEF User!UserProgramAssumption, CanTrap, User!Aborts, Precisely

\* Each instruction, trap and interrupt is precise.
LEMMA NextUser ==
  ASSUME User!UserProgramAssumption, CanTrap, [User!Next]_(User!vars)
  PROVE  [Precisely]_(User!vars)
<1> SUFFICES ASSUME User!Next PROVE Precisely
  OBVIOUS
<1>0. /\ \A d \in Registers \cup {User!HiReg, User!LoReg} : \A v :
           DOMAIN [userRegisters EXCEPT ![d] = v] = Registers \cup {User!HiReg, User!LoReg}
      /\ User!NoLoad.reg \in Registers
      /\ Rs \cup Rt \cup Rd \subseteq Registers
  BY DEF CanTrap, User!UserProgramAssumption, User!NoLoad
<1> USE DEF User!Records
<1>1. CASE User!FetchFails
  BY <1>1, RaisesStep DEF User!FetchFails
<1>2. ASSUME NEW op, NEW a, NEW b, NEW d \in Registers, User!Computes(op, a, b, d) PROVE Precisely
  <2>1. CASE User!Overflows(op, a, b, User!Result(op, a, b))
    BY <1>2, <2>1, RaisesStep DEF User!Computes
  <2>2. CASE ~ User!Overflows(op, a, b, User!Result(op, a, b))
    BY <1>2, <2>2, <1>0, CompletesStep DEF User!Computes
  <2> QED BY <2>1, <2>2
<1>3. CASE User!Arithmetic
  BY <1>3, <1>2, <1>0 DEF User!Arithmetic
<1>4. CASE User!Shift
  <2>0. userLast'.raised = "none"
    BY <1>4 DEF User!Shift
  <2>1. PICK rd \in Rd : \E v : User!Completes([userRegisters EXCEPT ![rd] = v], User!NoLoad, userNextPc + 4)
    BY <1>4, Zenon DEF User!Shift
  <2>2. rd \in Registers
    BY <1>0
  <2> QED BY <2>0, <2>1, <2>2, <1>0, CompletesStep
<1>5. CASE User!Move
  <2>1. PICK m \in ({User!HiReg, User!LoReg} \X Rd) \cup (Rs \X {User!HiReg, User!LoReg}) :
          User!Completes([userRegisters EXCEPT ![m[2]] = userRegisters[m[1]]], User!NoLoad, userNextPc + 4)
    BY <1>5 DEF User!Move
  <2>2. m[2] \in Registers \cup {User!HiReg, User!LoReg} /\ userLast'.raised = "none"
    BY <1>0, <1>5 DEF User!Move
  <2> QED BY <2>1, <2>2, <1>0, CompletesStep
<1>6. CASE User!MultiplyDivide
  <2>1. \/ User!Aborts /\ userLast'.raised = "fault"
        \/ \E v, w : /\ User!Completes([userRegisters EXCEPT ![User!HiReg] = v, ![User!LoReg] = w], User!NoLoad, userNextPc + 4)
                     /\ userLast'.raised = "none"
    <3>1. PICK op \in {"MULT", "MULTU", "DIV", "DIVU"}, rs \in Rs, rt \in Rt :
            \/ User!Aborts /\ User!Records(op, userRegisters[rs], userRegisters[rt], <<>>, "fault")
            \/ LET r == User!HiLo(op, userRegisters[rs], userRegisters[rt])
               IN  /\ User!Completes([userRegisters EXCEPT ![User!HiReg] = r[1], ![User!LoReg] = r[2]], User!NoLoad,
                                userNextPc + 4)
                   /\ User!Records(op, userRegisters[rs], userRegisters[rt], r, "none")
      BY <1>6, ZenonT(60) DEF User!MultiplyDivide
    <3>2. CASE User!Aborts
        /\ User!Records(op, userRegisters[rs], userRegisters[rt], <<>>, "fault")
      BY <3>2
    <3>3. CASE LET r == User!HiLo(op, userRegisters[rs], userRegisters[rt])
               IN  /\ User!Completes([userRegisters EXCEPT ![User!HiReg] = r[1], ![User!LoReg] = r[2]], User!NoLoad,
                                userNextPc + 4)
                   /\ User!Records(op, userRegisters[rs], userRegisters[rt], r, "none")
      <4>1. userLast'.raised = "none"
        BY <3>3
      <4>2. \E v, w : User!Completes([userRegisters EXCEPT ![User!HiReg] = v, ![User!LoReg] = w], User!NoLoad, userNextPc + 4)
        BY <3>3, Zenon
      <4> QED BY <4>1, <4>2
    <3> QED BY <3>1, <3>2, <3>3
  <2>2. \A v, w : DOMAIN [userRegisters EXCEPT ![User!HiReg] = v, ![User!LoReg] = w]
      = Registers \cup {User!HiReg, User!LoReg}
    BY DEF CanTrap
  <2> QED BY <2>1, <2>2, <1>0, CompletesStep, AbortsStep
<1>12. \A op : DOMAIN User!Linked(op) = Registers \cup {User!HiReg, User!LoReg}
  BY DEF User!Linked, CanTrap
<1>7. CASE User!Branch
  <2>1. PICK op, after :
          User!Completes(User!Linked(op), User!NoLoad, after) /\ userLast'.raised = "none"
    BY <1>7 DEF User!Branch
  <2> QED BY <2>1, <1>0, <1>12, CompletesStep
<1>8. CASE User!Jump
  <2>1. PICK regs, after : /\ DOMAIN regs = Registers \cup {User!HiReg, User!LoReg}
                           /\ User!Completes(regs, User!NoLoad, after)
                           /\ userLast'.raised = "none"
    <3>1. CASE \E op \in {"J", "JAL"}, x \in Targets :
                 User!Completes(User!Linked(op), User!NoLoad, User!Next4 - (User!Next4 % 2 ^ (WordBits - 4)) + 4 * x)
      BY <3>1, <1>8, <1>12 DEF User!Jump
    <3>2. CASE \E rs \in Rs : User!Completes(userRegisters, User!NoLoad, userRegisters[rs])
      BY <3>2, <1>8 DEF User!Jump, CanTrap
    <3>3. CASE \E rs \in Rs, rd \in Rd :
                 LET regs == [userRegisters EXCEPT ![rd] = User!Next4]
                 IN  User!Completes(regs, User!NoLoad, regs[rs])
      BY <3>3, <1>8, <1>0 DEF User!Jump
    <3> QED BY <1>8, <3>1, <3>2, <3>3 DEF User!Jump
  <2> QED BY <2>1, <1>0, CompletesStep
<1>9. CASE User!LoadStore
  <2>1. PICK op, addr, rt : rt \in Registers /\ User!Access(op, addr, rt)
    BY <1>9, <1>0 DEF User!LoadStore
  <2>2. \/ User!Aborts /\ userLast'.raised = "fault"
        \/ \E which : User!Raises(which)
        \/ \E l, after : User!Completes(userRegisters, l, after) /\ l.reg \in Registers
            /\ userLast'.raised = "none"
    BY <2>1, <1>0 DEF User!Access
  <2> QED BY <2>2, CompletesStep, RaisesStep, AbortsStep DEF CanTrap
<1>10. CASE User!Trap
  BY <1>10, RaisesStep DEF User!Trap
<1>11. CASE User!Interrupted
  BY <1>11 DEF User!Interrupted, User!Loaded, User!NoLoad, CanTrap, Precisely,
               User!UserProgramAssumption, User!HiReg, User!LoReg
<1> QED BY <1>1, <1>3, <1>4, <1>5, <1>6, <1>7, <1>8, <1>9, <1>10, <1>11 DEF User!Next

\* The inductive invariant: the types, from which a trap has what it relies on.
UserInv == User!TypeOK /\ User!ExactArithmetic

LEMMA TypedCanTrap ==
  ASSUME User!UserProgramAssumption, User!TypeOK
  PROVE  CanTrap
  BY DEF User!TypeOK, CanTrap, User!UserProgramAssumption

-----------------------------------------------------------------------------
(* The program that main runs.                                             *)

NachosInv == command \in {"-o", "-c", "-x"} /\ MailInv /\ EchoInv /\ UserInv

\* A step of Nachos is one of the program that runs, and leaves the others alone.
LEMMA NachosStep ==
  ASSUME [Next]_vars
  PROVE  [Mail!Next]_(Mail!vars) /\ [Echo!Next]_(Echo!vars) /\ [User!Next]_(User!vars)
<1>1. \/ Mail!Next \/ UNCHANGED Mail!vars
  BY DEF Next, MailTest, ConsoleTest, StartProcess, vars, mailVars, Mail!vars,
         Mail!monitorVars, Mail!networkVars, Mail!threadVars, Mail!history
<1>2. \/ Echo!Next \/ UNCHANGED Echo!vars
  BY DEF Next, MailTest, ConsoleTest, StartProcess, vars, echoVars, Echo!vars,
         Echo!device, Echo!semaphores
<1>3. \/ User!Next \/ UNCHANGED User!vars
  BY DEF Next, MailTest, ConsoleTest, StartProcess, vars, userVars, User!vars
<1> QED BY <1>1, <1>2, <1>3

\* The invariant of Nachos holds in every state.
THEOREM NachosInvariant == Spec => []NachosInv
<1> USE NachosAssumption
<1>1. Init => NachosInv
  <2>1. Init => /\ command \in {"-o", "-c", "-x"}
                /\ MailInv /\ EchoInv
                /\ User!TypeOK /\ User!ExactArithmetic
    BY InitMail, InitEcho, InitTyped DEF Init, NachosAssumption
  <2> QED BY <2>1 DEF NachosInv, UserInv
<1>2. NachosInv /\ [Next]_vars => NachosInv'
  <2> SUFFICES ASSUME NachosInv, [Next]_vars PROVE NachosInv'
    OBVIOUS
  <2>1. [Mail!Next]_(Mail!vars) /\ [Echo!Next]_(Echo!vars) /\ [User!Next]_(User!vars)
    BY NachosStep
  <2>2. command' = command
    BY DEF Next, MailTest, ConsoleTest, StartProcess, vars
  <2>3. User!TypeOK' /\ User!ExactArithmetic'
    BY <2>1, NextTyped DEF NachosInv, UserInv, NachosAssumption
  <2>4. MailInv' /\ EchoInv'
    BY <2>1, NextMail, NextEcho DEF NachosInv, NachosAssumption
  <2> QED BY <2>2, <2>3, <2>4 DEF NachosInv, UserInv
<1> QED BY <1>1, <1>2, PTL DEF Spec

\* Registers, counters and memory hold words and bytes, register 0 is 0, and no
\* address that is found lies beyond the memory (machine/mipssim.cc, translate.cc);
\* and the types of the mail and of the console.
THEOREM TypesAreKept == Spec => []TypeOK
<1>1. NachosInv => TypeOK
  BY DEF NachosInv, MailInv, EchoInv, UserInv, TypeOK
<1> QED BY <1>1, NachosInvariant, PTL

\* ADD, ADDI, SUB, MULT, MULTU, DIV, LB and LH of words of every multiple of four bits do what
\* arithmetic says (machine/mipssim.cc, OneInstruction and Mult).
THEOREM ArithmeticIsExact == Spec => []ExactArithmetic
<1>1. NachosInv => ExactArithmetic
  BY DEF NachosInv, UserInv, ExactArithmetic
<1> QED BY <1>1, NachosInvariant, PTL

\* Mail is received once and in the order in which it was put on the wire: the
\* buffer of Network is never overwritten, nor taken empty (network/post.cc).
THEOREM MailIsInOrder == Spec => []MailInOrder
<1> USE NachosAssumption
<1>1. NachosInv => MailInOrder
  BY MailProperties DEF NachosInv, MailInOrder, NachosAssumption
<1> QED BY <1>1, NachosInvariant, PTL

\* sendLock alone keeps one message at a time on its way to the network, and
\* each completion interrupt is for the thread that waits (PostOffice::Send).
THEOREM OneSendAtATime == Spec => []OneSend
<1> USE NachosAssumption
<1>1. NachosInv => OneSend
  BY MailProperties DEF NachosInv, OneSend, NachosAssumption
<1> QED BY <1>1, NachosInvariant, PTL

\* No thread is left waiting at a mailbox that has more mail than there are
\* threads on their way to take it (SynchList::Append and Remove).
THEOREM NoMailIsForgotten == Spec => []NoMailForgotten
<1>1. NachosInv => NoMailForgotten
  BY DEF NachosInv, MailInv, NoMailForgotten
<1> QED BY <1>1, NachosInvariant, PTL

\* What is typed is echoed in order, none of it lost in the one-character buffer
\* of Console (machine/console.cc) and none twice.
THEOREM EchoIsInOrder == Spec => []EchoInOrder
<1>1. NachosInv => EchoInOrder
  BY DEF NachosInv, EchoInv, EchoInOrder
<1> QED BY <1>1, NachosInvariant, PTL

\* Traps are precise, and a pending load is done once, by the next instruction,
\* trap or interrupt (Machine::OneInstruction, RaiseException, CheckIfDue).
THEOREM TrapsArePrecise == Spec => PreciseTraps
<1> USE NachosAssumption
<1>1. NachosInv /\ [Next]_vars => [Precisely]_(User!vars)
  BY NachosStep, NextUser, TypedCanTrap DEF NachosInv, UserInv, NachosAssumption
<1>2. PreciseTraps <=> [][Precisely]_(User!vars)
  BY PTL DEF PreciseTraps, User!PreciseTraps, Precisely
<1> QED BY <1>1, <1>2, NachosInvariant, PTL DEF Spec

=============================================================================
