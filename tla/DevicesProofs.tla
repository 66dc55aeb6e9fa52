---------------------------- MODULE DevicesProofs ---------------------------
(***************************************************************************)
(* No interrupt is lost, early or late, for any times of the devices, any  *)
(* disk and any number of threads; and a request of the disk takes the     *)
(* time in which its sector passes the head, for any geometry.             *)
(*                                                                         *)
(* The argument is about bounds on the times in the list of pending        *)
(* interrupts: enabling interrupts lets the time run at most one           *)
(* SystemTick past the first of them, the loop of OneTick handles all that *)
(* are due, and Idle advances the time to the first one and no further.    *)
(***************************************************************************)
EXTENDS Devices, NachosListProofs, SequenceTheorems

\* Nothing on the list is due before a time.
AtLeast(list, time) == \A i \in 1 .. Len(list) : time <= list[i].key

ListInv(list) ==
  /\ list \in Seq(Elements(Devs)) /\ AtLeast(list, 0)
  /\ Sorted(list) /\ NoDuplicates(list)

\* The types but for pending; the thread that runs is one of MaxThreads too.
Counts ==
  /\ totalTicks \in Nat
  /\ yieldOnReturn \in BOOLEAN
  /\ cpu \in CpuPlaces
  /\ ready \in Nat /\ asleep \in Nat
  /\ ready + asleep <= MaxThreads
  /\ cpu \in {"running", "enabling", "OneTick", "Yield"} => ready + asleep < MaxThreads
  /\ active \in BOOLEAN
  /\ lastSector \in Sectors
  /\ bufferInit \in Nat /\ arrival \in Nat

\* What may be due: one SystemTick ago in the loop of OneTick, now in that of Idle,
\* nothing when a thread runs or is about to yield.  The timer alone may be due when
\* the machine has been idle.
DueInv ==
  /\ AtLeast(pending, totalTicks - SystemTick)
  /\ cpu \notin {"OneTick", "aborted"} => AtLeast(pending, totalTicks)
  /\ cpu \in {"running", "Yield"} => AtLeast(pending, totalTicks + 1)
  /\ cpu \in {"enabling", "FindNextToRun"} =>
       AtLeast(pending, totalTicks + 1) \/ Items(pending) = {"timer"}

\* The inductive invariant.
IInv ==
  /\ Counts
  /\ ListInv(pending)
  /\ DueInv
  /\ active <=> "disk" \in Items(pending)
  /\ cpu \in {"running", "enabling", "FindNextToRun"} => ~ yieldOnReturn
  /\ cpu = "halted" => ready = 0 /\ Items(pending) \subseteq {"timer"}

-----------------------------------------------------------------------------
(* The list of pending interrupts.                                         *)

\* InterruptsOnTime and its types are parts of the invariant.
LEMMA NatKeys ==
  ASSUME NEW list, ListInv(list)
  PROVE  /\ list \in Seq([item : Devs, key : Nat])
         /\ Len(list) \in Nat
         /\ \A i \in 1 .. Len(list) : list[i] \in Elements(Devs) /\ list[i].key \in Nat
<1>1. Len(list) \in Nat /\ list \in [1 .. Len(list) -> Elements(Devs)]
  BY DEF ListInv
<1>2. \A i \in 1 .. Len(list) : list[i] \in Elements(Devs) /\ list[i].key \in Nat
  BY <1>1 DEF ListInv, AtLeast, Elements
<1>3. \A i \in 1 .. Len(list) : list[i] \in [item : Devs, key : Nat]
  BY <1>2 DEF Elements
<1>4. list \in [1 .. Len(list) -> [item : Devs, key : Nat]]
  BY <1>1, <1>3
<1>5. list \in Seq([item : Devs, key : Nat])
  BY <1>1, <1>4, SeqDef
<1> QED BY <1>1, <1>2, <1>5

LEMMA Weaker ==
  ASSUME NEW list, ListInv(list), NEW early \in Int, NEW late \in Int, early <= late,
         AtLeast(list, late)
  PROVE  AtLeast(list, early)
  BY NatKeys DEF AtLeast

\* On an empty list nothing is due at any time.
LEMMA NoneDue ==
  ASSUME NEW list, ListInv(list), Items(list) = {}, NEW time \in Int
  PROVE  AtLeast(list, time)
  BY DEF Items, AtLeast

\* Inserting a device that is not on the list, to be due at a time.
LEMMA Inserted ==
  ASSUME NEW list, ListInv(list), NEW dev \in Devs, dev \notin Items(list), NEW key \in Nat
  PROVE  /\ ListInv(SortedInsert(list, dev, key))
         /\ Items(SortedInsert(list, dev, key)) = Items(list) \cup {dev}
         /\ \A time \in Int : AtLeast(list, time) /\ time <= key =>
              AtLeast(SortedInsert(list, dev, key), time)
<1> DEFINE new == SortedInsert(list, dev, key)
           p == InsertPlace(list, key)
<1>1. list \in Seq(Elements(Devs)) /\ key \in Int
  BY DEF ListInv
<1>2. new \in Seq(Elements(Devs)) /\ Len(new) = Len(list) + 1
  BY <1>1, SortedInsertType
<1>3. Len(list) \in Nat /\ \A i \in 1 .. Len(list) : list[i].key \in Nat
  BY NatKeys
<1>4. p \in 1 .. Len(list) + 1
  BY <1>1, InsertPlaceProperty
<1>5. \A time \in Int : AtLeast(list, time) /\ time <= key => AtLeast(new, time)
  <2> SUFFICES ASSUME NEW time \in Int, AtLeast(list, time), time <= key,
                      NEW i \in 1 .. Len(new)
               PROVE  time <= new[i].key
    BY DEF AtLeast
  <2>1. new[i] = IF i < p THEN list[i] ELSE IF i = p THEN Element(dev, key) ELSE list[i - 1]
    BY <1>2, <1>3, <1>4 DEF SortedInsert
  <2>2. \A j \in 1 .. Len(list) : time <= list[j].key
    BY DEF AtLeast
  <2>3. i \in Nat /\ p \in Nat /\ i <= Len(list) + 1
    BY <1>2, <1>3, <1>4
  <2>4. CASE i < p
    BY <1>3, <1>4, <2>1, <2>2, <2>3, <2>4
  <2>5. CASE i = p
    BY <2>1, <2>5 DEF Element
  <2>6. CASE i > p
    <3>1. i - 1 \in 1 .. Len(list)
      BY <1>3, <1>4, <2>3, <2>6
    <3> QED BY <2>1, <2>2, <2>3, <2>6, <3>1
  <2> QED BY <2>3, <2>4, <2>5, <2>6
<1>6. AtLeast(new, 0)
  BY <1>5 DEF ListInv
<1>7. Sorted(new) /\ NoDuplicates(new) /\ Items(new) = Items(list) \cup {dev}
  BY <1>1, SortedInsertSorted, SortedInsertNoDuplicates, SortedInsertItems DEF ListInv
<1> QED BY <1>2, <1>5, <1>6, <1>7 DEF ListInv

\* Taking off the first, before whose time nothing is due.
LEMMA TakenOff ==
  ASSUME NEW list, ListInv(list), list /= <<>>
  PROVE  /\ First(list) \in Devs /\ Head(list).key \in Nat
         /\ ListInv(Rest(list))
         /\ First(list) \notin Items(Rest(list))
         /\ Items(list) = Items(Rest(list)) \cup {First(list)}
         /\ AtLeast(list, Head(list).key)
         /\ \A time \in Int : AtLeast(list, time) =>
              AtLeast(Rest(list), time) /\ time <= Head(list).key
<1>1. list \in Seq(Elements(Devs)) /\ Sorted(list) /\ NoDuplicates(list)
  BY DEF ListInv
<1>2. Len(list) \in Nat /\ \A i \in 1 .. Len(list) : list[i].key \in Nat
  BY NatKeys
<1>3. /\ First(list) \in Devs /\ First(list) \in Items(list)
      /\ Rest(list) \in Seq(Elements(Devs)) /\ Len(Rest(list)) = Len(list) - 1
      /\ \A i \in 1 .. Len(Rest(list)) : Rest(list)[i] = list[i + 1]
  BY <1>1, RemoveProperties
<1>4. Items(Rest(list)) = Items(list) \ {First(list)} /\ NoDuplicates(Rest(list))
  BY <1>1, RemoveItems
<1>5. Sorted(Rest(list))
  BY <1>1, RemoveSorted
<1>6. 1 \in 1 .. Len(list) /\ Head(list) = list[1]
  BY <1>1, <1>2
<1>7. AtLeast(list, Head(list).key)
  <2> SUFFICES ASSUME NEW i \in 1 .. Len(list) PROVE list[1].key <= list[i].key
    BY <1>6 DEF AtLeast
  <2> QED BY <1>1, <1>2, <1>6 DEF Sorted
<1>8. \A time \in Int : AtLeast(list, time) =>
        AtLeast(Rest(list), time) /\ time <= Head(list).key
  BY <1>2, <1>3, <1>6 DEF AtLeast
<1>9. AtLeast(Rest(list), 0)
  BY <1>8 DEF ListInv
<1> QED BY <1>2, <1>3, <1>4, <1>5, <1>6, <1>7, <1>8, <1>9 DEF ListInv

-----------------------------------------------------------------------------
(* The actions.                                                            *)

LEMMA SomeSector == 0 \in Sectors
<1>1. SectorsPerTrack \in Nat \ {0} /\ NumTracks \in Nat \ {0}
  BY DevicesAssumption
<1>2. SectorsPerTrack * NumTracks \in Nat /\ SectorsPerTrack * NumTracks > 0
  BY <1>1
<1> QED BY <1>2 DEF Sectors

LEMMA InitInv == Init => IInv
<1> SUFFICES ASSUME Init PROVE IInv
  OBVIOUS
<1>1. Counts
  <2>1. 0 \in Sectors
    BY SomeSector
  <2>2. MaxThreads \in Nat /\ MaxThreads > 0
    BY DevicesAssumption
  <2>3. yieldOnReturn \in BOOLEAN /\ active \in BOOLEAN
    BY Zenon DEF Init
  <2>4. /\ totalTicks = 0 /\ cpu = "enabling" /\ ready = 0 /\ asleep = 0
        /\ lastSector = 0 /\ bufferInit = 0 /\ arrival = 0
    BY DEF Init
  <2> QED BY <2>1, <2>2, <2>3, <2>4 DEF Counts, CpuPlaces
<1>2. /\ ListInv(pending) /\ AtLeast(pending, 1)
      /\ Items(pending) = {} \/ Items(pending) = {"timer"}
  <2>1. CASE pending = <<>>
    BY <2>1 DEF ListInv, AtLeast, Sorted, NoDuplicates, Items
  <2>2. ASSUME NEW t \in TimeOfNextInterrupt, pending = <<Element("timer", t)>>
        PROVE  /\ ListInv(pending) /\ AtLeast(pending, 1)
               /\ Items(pending) = {"timer"}
    <3>1. t \in Nat /\ t >= 1
      BY DevicesAssumption DEF TimeOfNextInterrupt
    <3>2. Element("timer", t) \in Elements(Devs)
      BY <3>1 DEF Element, Elements, Devs
    <3>3. Len(pending) = 1 /\ pending[1] = Element("timer", t) /\ pending \in Seq(Elements(Devs))
      BY <2>2, <3>2
    <3> QED BY <3>1, <3>3 DEF ListInv, AtLeast, Sorted, NoDuplicates, Items, Element
  <2> QED BY <2>1, <2>2 DEF Init
<1>3. DueInv
  <2>1. AtLeast(pending, 0 + 1) /\ AtLeast(pending, 0) /\ AtLeast(pending, 0 - SystemTick)
    BY <1>2, Weaker, DevicesAssumption
  <2> QED BY <2>1 DEF DueInv, Init
<1> QED BY <1>1, <1>2, <1>3 DEF IInv, Init

\* The time goes on, by a tick at most.
LEMMA TickInv == ASSUME IInv, Tick PROVE IInv'
<1>1. /\ totalTicks' \in Nat /\ totalTicks <= totalTicks' /\ totalTicks' <= totalTicks + SystemTick
      /\ totalTicks \in Nat /\ SystemTick \in Nat
  BY DevicesAssumption DEF Tick, IInv, Counts
<1>2. AtLeast(pending, totalTicks)
  BY DEF IInv, DueInv, Tick
<1>3. AtLeast(pending, totalTicks' - SystemTick)
  BY <1>1, <1>2, Weaker DEF IInv
<1>4. cpu' \in {"OneTick", "aborted"} /\ cpu \in {"running", "enabling"}
  BY DEF Tick
<1>5. UNCHANGED <<pending, yieldOnReturn, ready, asleep, active, lastSector, bufferInit, arrival>>
  BY DEF Tick, threads, disk
<1>6. Counts'
  BY <1>1, <1>4, <1>5 DEF IInv, Counts, CpuPlaces
<1>7. DueInv'
  BY <1>3, <1>4, <1>5 DEF DueInv, AtLeast
<1> QED BY <1>4, <1>5, <1>6, <1>7 DEF IInv, ListInv, AtLeast

\* CheckIfDue calls a handler, in one of the two loops or at the start of Idle: the
\* time goes on to that of the first interrupt at most, and what the handler
\* schedules is due later.
LEMMA FiresInv ==
  ASSUME IInv, NEW advanceClock \in BOOLEAN, NEW idle \in BOOLEAN, NEW then,
         \/ cpu = "OneTick" /\ ~ advanceClock /\ then = "OneTick"
         \/ cpu = "FindNextToRun" /\ advanceClock /\ then = "Idling"
         \/ cpu = "Idling" /\ ~ advanceClock /\ then = "Idling",
         Fires(advanceClock, idle, then)
  PROVE  IInv'
<1> DEFINE now == Advanced(advanceClock)
           rest == Rest(pending)
<1>1. /\ pending /= <<>> /\ Head(pending).key <= now /\ totalTicks' = now
      /\ \/ First(pending) = "timer" /\ TimerExpired(rest, now, then)
         \/ First(pending) = "disk" /\ HandleInterrupt(rest, then)
         \/ First(pending) = "poll" /\ Poll(rest, now, then)
  BY DEF Fires
<1>2. /\ Head(pending).key \in Nat /\ ListInv(rest) /\ First(pending) \notin Items(rest)
      /\ Items(pending) = Items(rest) \cup {First(pending)}
      /\ AtLeast(pending, Head(pending).key)
      /\ \A time \in Int : AtLeast(pending, time) => AtLeast(rest, time) /\ time <= Head(pending).key
  BY <1>1, TakenOff DEF IInv
<1>3. totalTicks \in Nat /\ SystemTick \in Nat /\ now \in Nat
  BY <1>2, DevicesAssumption DEF IInv, Counts, Advanced
<1>4. /\ then = "Idling" => AtLeast(rest, now)
      /\ AtLeast(rest, now - SystemTick)
  <2>1. CASE ~ advanceClock
    BY <1>2, <1>3, <2>1 DEF IInv, DueInv, Advanced
  <2>2. CASE advanceClock
    <3>1. AtLeast(pending, totalTicks)
      BY <2>2 DEF IInv, DueInv
    <3>2. now = Head(pending).key
      BY <1>1, <1>2, <1>3, <2>2, <3>1 DEF Advanced
    <3>3. AtLeast(rest, now)
      BY <1>2, <1>3, <3>2
    <3> QED BY <1>2, <1>3, <3>3, Weaker
  <2> QED BY <2>1, <2>2
<1>5. /\ ListInv(pending')
      /\ then = "Idling" => AtLeast(pending', now)
      /\ AtLeast(pending', now - SystemTick)
      /\ active' <=> "disk" \in Items(pending')
  <2>1. ASSUME NEW dev \in Devs, dev /= "disk", First(pending) = dev, NEW fromNow \in Nat,
               pending' = SortedInsert(rest, dev, now + fromNow), active' = active
        PROVE  /\ ListInv(pending')
               /\ then = "Idling" => AtLeast(pending', now)
               /\ AtLeast(pending', now - SystemTick)
               /\ active' <=> "disk" \in Items(pending')
    BY <1>2, <1>3, <1>4, <2>1, Inserted DEF IInv
  <2>2. CASE First(pending) = "timer" /\ TimerExpired(rest, now, then)
    BY <2>1, <2>2, DevicesAssumption DEF TimerExpired, Schedule, TimeOfNextInterrupt, Devs, disk
  <2>3. CASE First(pending) = "disk" /\ HandleInterrupt(rest, then)
    BY <1>2, <1>4, <2>3 DEF HandleInterrupt
  <2>4. CASE First(pending) = "poll" /\ Poll(rest, now, then)
    BY <2>1, <2>4, DevicesAssumption DEF Poll, Schedule, Devs, disk
  <2> QED BY <1>1, <2>2, <2>3, <2>4
<1>6. cpu' \in {then, "aborted"}
  BY <1>1 DEF TimerExpired, HandleInterrupt, Poll
<1>7. ready' \in Nat /\ asleep' \in Nat /\ ready' + asleep' = ready + asleep
  BY <1>1 DEF TimerExpired, HandleInterrupt, Poll, HandlerWakes, threads, IInv, Counts
<1>8. yieldOnReturn' \in BOOLEAN /\ active' \in BOOLEAN
      /\ UNCHANGED <<lastSector, bufferInit, arrival>>
  BY <1>1 DEF TimerExpired, HandleInterrupt, Poll, disk, IInv, Counts
<1>9. Counts'
  BY <1>1, <1>3, <1>6, <1>7, <1>8 DEF IInv, Counts, CpuPlaces
<1>10. DueInv'
  BY <1>1, <1>5, <1>6 DEF DueInv, AtLeast
<1> QED BY <1>5, <1>6, <1>9, <1>10 DEF IInv, ListInv, AtLeast

\* CheckIfDue puts the first interrupt back: nothing is due, or it is the timer's
\* and the only one.
LEMMA FiresNoneInv ==
  ASSUME IInv, NEW advanceClock \in BOOLEAN, NEW idle \in BOOLEAN, NEW then,
         advanceClock => AtLeast(pending, totalTicks),
         FiresNone(advanceClock, idle, then)
  PROVE  /\ totalTicks' \in Nat
         /\ ListInv(pending') /\ Items(pending') = Items(pending)
         /\ \A time \in Int : AtLeast(pending, time) => AtLeast(pending', time)
         /\ advanceClock => AtLeast(pending', totalTicks')
         /\ ~ advanceClock => totalTicks' = totalTicks
         /\ \/ ~ advanceClock /\ AtLeast(pending', totalTicks + 1)
            \/ Items(pending) = {}
            \/ idle /\ Items(pending) = {"timer"}
         /\ UNCHANGED <<threads, disk>> /\ cpu' = then
<1> DEFINE now == Advanced(advanceClock)
           rest == Rest(pending)
           key == Head(pending).key
<1>1. UNCHANGED <<threads, disk>> /\ cpu' = then
  BY DEF FiresNone
<1>2. CASE pending = <<>> /\ UNCHANGED <<totalTicks, pending>>
  BY <1>1, <1>2 DEF IInv, Counts, Items
<1>3. CASE pending /= <<>> /\ FiresNone(advanceClock, idle, then)
  <2>1. /\ key > now \/ OnlyTimer(idle)
        /\ totalTicks' = now
        /\ pending' = SortedInsert(rest, First(pending), key)
    BY <1>3 DEF FiresNone
  <2>2. /\ First(pending) \in Devs /\ key \in Nat
        /\ ListInv(rest) /\ First(pending) \notin Items(rest)
        /\ Items(pending) = Items(rest) \cup {First(pending)}
        /\ AtLeast(pending, key)
        /\ \A time \in Int : AtLeast(pending, time) => AtLeast(rest, time) /\ time <= key
    BY <1>3, TakenOff DEF IInv
  <2>3. totalTicks \in Nat /\ now \in Nat
    BY <2>2 DEF IInv, Counts, Advanced
  <2>4. /\ ListInv(pending') /\ Items(pending') = Items(pending)
        /\ \A time \in Int : AtLeast(pending, time) => AtLeast(pending', time)
    BY <2>1, <2>2, Inserted
  <2>5. AtLeast(pending', key)
    BY <2>2, <2>4
  <2>6. advanceClock => AtLeast(pending', now)
    <3>1. advanceClock => totalTicks <= key
      BY <2>2, <2>3
    <3>2. advanceClock => now = key
      BY <2>2, <2>3, <3>1 DEF Advanced
    <3> QED BY <2>5, <3>2
  <2>7. CASE key > now
    <3>1. ~ advanceClock /\ now = totalTicks
      BY <2>2, <2>3, <2>7 DEF Advanced
    <3>2. AtLeast(pending', totalTicks + 1)
      BY <2>2, <2>3, <2>4, <2>5, <2>7, <3>1, Weaker
    <3> QED BY <1>1, <2>1, <2>3, <2>4, <3>1, <3>2
  <2>8. CASE OnlyTimer(idle)
    <3>1. idle /\ Items(pending) = {"timer"}
      <4>1. idle /\ First(pending) = "timer" /\ rest = <<>>
        BY <2>8 DEF OnlyTimer
      <4>2. Items(<<>>) = {}
        BY DEF Items
      <4> QED BY <2>2, <4>1, <4>2
    <3>2. ~ advanceClock => now = totalTicks
      BY DEF Advanced
    <3> QED BY <1>1, <2>1, <2>3, <2>4, <2>6, <3>1, <3>2
  <2> QED BY <2>1, <2>7, <2>8
<1> QED BY <1>2, <1>3 DEF FiresNone

\* while (CheckIfDue(FALSE)), in OneTick and in Idle, and CheckIfDue(TRUE).
LEMMA OneTickInv == ASSUME IInv, OneTick PROVE IInv'
<1>1. CASE Fires(FALSE, FALSE, "OneTick")
  BY <1>1, FiresInv DEF OneTick
<1>2. CASE /\ FiresNone(FALSE, FALSE, IF yieldOnReturn THEN "Yield" ELSE "running")
           /\ UNCHANGED yieldOnReturn
  <2> DEFINE then == IF yieldOnReturn THEN "Yield" ELSE "running"
  <2>1. /\ totalTicks' = totalTicks /\ totalTicks \in Nat
        /\ ListInv(pending') /\ Items(pending') = Items(pending)
        /\ AtLeast(pending', totalTicks + 1) \/ Items(pending') = {}
        /\ UNCHANGED <<threads, disk>> /\ cpu' = then
    BY <1>2, FiresNoneInv DEF IInv, Counts
  <2>2. AtLeast(pending', totalTicks + 1)
    BY <2>1, NoneDue
  <2>3. Counts'
    BY <1>2, <2>1 DEF OneTick, IInv, Counts, CpuPlaces, threads, disk
  <2>4. AtLeast(pending', totalTicks') /\ AtLeast(pending', totalTicks' - SystemTick)
    BY <2>1, <2>2, Weaker, DevicesAssumption
  <2>5. DueInv'
    BY <2>1, <2>2, <2>4 DEF DueInv, AtLeast
  <2> QED BY <1>2, <2>1, <2>3, <2>5 DEF IInv, ListInv, AtLeast, disk
<1> QED BY <1>1, <1>2 DEF OneTick

LEMMA IdlingInv == ASSUME IInv, Idling PROVE IInv'
<1>1. CASE Fires(FALSE, TRUE, "Idling")
  BY <1>1, FiresInv DEF Idling
<1>2. CASE FiresNone(FALSE, TRUE, "FindNextToRun") /\ yieldOnReturn' = FALSE
  <2>1. /\ totalTicks' = totalTicks /\ totalTicks \in Nat
        /\ ListInv(pending') /\ Items(pending') = Items(pending)
        /\ \/ AtLeast(pending', totalTicks + 1)
           \/ Items(pending') = {}
           \/ Items(pending') = {"timer"}
        /\ \A time \in Int : AtLeast(pending, time) => AtLeast(pending', time)
        /\ UNCHANGED <<threads, disk>> /\ cpu' = "FindNextToRun"
    BY <1>2, FiresNoneInv DEF IInv, Counts
  <2>2. AtLeast(pending', totalTicks + 1) \/ Items(pending') = {"timer"}
    BY <2>1, NoneDue
  <2>3. Counts'
    BY <1>2, <2>1 DEF Idling, IInv, Counts, CpuPlaces, threads, disk
  <2>4. AtLeast(pending', totalTicks') /\ AtLeast(pending', totalTicks' - SystemTick)
    BY <2>1, DevicesAssumption DEF IInv, DueInv, Idling
  <2>5. DueInv'
    BY <2>1, <2>2, <2>4 DEF DueInv, AtLeast
  <2> QED BY <1>2, <2>1, <2>3, <2>5 DEF IInv, ListInv, AtLeast, disk
<1> QED BY <1>1, <1>2 DEF Idling

LEMMA IdleInv == ASSUME IInv, Idle PROVE IInv'
<1>1. CASE Fires(TRUE, TRUE, "Idling")
  BY <1>1, FiresInv DEF Idle
<1>2. CASE FiresNone(TRUE, TRUE, "halted") /\ UNCHANGED yieldOnReturn
  <2>1. AtLeast(pending, totalTicks)
    BY DEF Idle, IInv, DueInv
  <2>2. /\ totalTicks' \in Nat
        /\ ListInv(pending') /\ Items(pending') = Items(pending)
        /\ AtLeast(pending', totalTicks')
        /\ Items(pending) \subseteq {"timer"}
        /\ UNCHANGED <<threads, disk>> /\ cpu' = "halted"
    BY <1>2, <2>1, FiresNoneInv
  <2>3. Counts'
    BY <1>2, <2>2 DEF Idle, IInv, Counts, CpuPlaces, threads, disk
  <2>4. AtLeast(pending', totalTicks' - SystemTick)
    BY <2>2, Weaker, DevicesAssumption
  <2>5. DueInv'
    BY <2>2, <2>4 DEF DueInv, AtLeast
  <2> QED BY <1>2, <2>2, <2>3, <2>5 DEF Idle, IInv, ListInv, AtLeast, threads, disk
<1> QED BY <1>1, <1>2 DEF Idle

\* What a thread does, and what goes on between threads: nothing becomes due.
LEMMA ThreadInv ==
  ASSUME IInv, YieldDone \/ Dispatch \/ Fork \/ Wake \/ Sleep
  PROVE  IInv'
<1>1. /\ UNCHANGED <<totalTicks, pending, disk>>
      /\ \/ cpu \in {"running", "Yield"}
         \/ cpu = "FindNextToRun" /\ cpu' = "enabling"
      /\ cpu' \in {"enabling", "FindNextToRun"}
  BY DEF YieldDone, Dispatch, Fork, Wake, Sleep
<1>2. ~ yieldOnReturn' /\ active' \in BOOLEAN
  BY <1>1 DEF YieldDone, Dispatch, Fork, Wake, Sleep, IInv, Counts, disk
<1>3. /\ ready' \in Nat /\ asleep' \in Nat /\ ready' + asleep' <= MaxThreads
      /\ cpu' = "enabling" => ready' + asleep' < MaxThreads
  <2>1. /\ ready \in Nat /\ asleep \in Nat /\ ready + asleep <= MaxThreads
        /\ cpu \in {"running", "enabling", "OneTick", "Yield"} => ready + asleep < MaxThreads
        /\ MaxThreads \in Nat
    BY DevicesAssumption DEF IInv, Counts
  <2>2. CASE YieldDone
    BY <2>1, <2>2 DEF YieldDone, threads
  <2>3. CASE Dispatch
    BY <2>1, <2>3 DEF Dispatch
  <2>4. CASE Fork
    BY <2>1, <2>4 DEF Fork
  <2>5. CASE Wake
    BY <2>1, <2>5 DEF Wake
  <2>6. CASE Sleep
    <3>1. ready' = ready /\ cpu = "running" /\ cpu' = "FindNextToRun"
          /\ (asleep' = asleep \/ asleep' = asleep + 1)
      BY <2>6 DEF Sleep
    <3> QED BY <2>1, <3>1
  <2> QED BY <2>2, <2>3, <2>4, <2>5, <2>6
<1>4. Counts'
  <2>1. /\ totalTicks' \in Nat /\ lastSector' \in Sectors
        /\ bufferInit' \in Nat /\ arrival' \in Nat
    BY <1>1 DEF IInv, Counts, disk
  <2>2. yieldOnReturn' \in BOOLEAN
    BY <1>1 DEF YieldDone, Dispatch, Fork, Wake, Sleep, IInv, Counts
  <2> QED BY <1>1, <1>2, <1>3, <2>1, <2>2 DEF Counts, CpuPlaces
<1>5. AtLeast(pending, totalTicks + 1) \/ Items(pending) = {"timer"}
  BY <1>1 DEF IInv, DueInv
<1>6. AtLeast(pending, totalTicks) /\ AtLeast(pending, totalTicks - SystemTick)
  BY <1>1 DEF IInv, DueInv
<1>7. DueInv'
  BY <1>1, <1>5, <1>6 DEF DueInv, AtLeast, Items
<1> QED BY <1>1, <1>2, <1>4, <1>7 DEF IInv, ListInv, AtLeast, Sorted, NoDuplicates, Items, disk

\* A running thread schedules an interrupt of a device that has none.
LEMMA ScheduleInv ==
  ASSUME IInv, NEW dev \in Devs, NEW fromNow \in Nat \ {0}, cpu = "running",
         dev \notin Items(pending), Schedule(pending, dev, totalTicks, fromNow),
         active' <=> active \/ dev = "disk",
         cpu' \in {"running", "aborted"}, Counts', UNCHANGED <<totalTicks, yieldOnReturn>>
  PROVE  IInv'
<1>1. ListInv(pending) /\ totalTicks \in Nat
      /\ AtLeast(pending, totalTicks + 1) /\ AtLeast(pending, totalTicks)
      /\ AtLeast(pending, totalTicks - SystemTick)
  BY DEF IInv, DueInv, Counts
<1>2. pending' = SortedInsert(pending, dev, totalTicks + fromNow)
  BY DEF Schedule
<1>3. /\ ListInv(pending') /\ Items(pending') = Items(pending) \cup {dev}
      /\ AtLeast(pending', totalTicks + 1) /\ AtLeast(pending', totalTicks)
      /\ AtLeast(pending', totalTicks - SystemTick)
  <2>1. SystemTick \in Nat /\ totalTicks + fromNow \in Nat
    BY <1>1, DevicesAssumption
  <2> QED BY <1>1, <1>2, <2>1, Inserted
<1>4. DueInv'
  BY <1>3 DEF DueInv, AtLeast
<1>5. active' <=> "disk" \in Items(pending')
  BY <1>3 DEF IInv
<1> QED BY <1>3, <1>4, <1>5 DEF IInv, ListInv, AtLeast

LEMMA StartPollingInv == ASSUME IInv, StartPolling PROVE IInv'
<1>1. Counts'
  BY DEF StartPolling, IInv, Counts, CpuPlaces, threads, disk
<1>2. PollTime \in Nat \ {0} /\ "poll" \in Devs
  BY DevicesAssumption DEF Devs
<1>3. active' = active /\ cpu' \in {"running", "aborted"}
  BY DEF StartPolling, disk
<1> QED BY <1>1, <1>2, <1>3, ScheduleInv DEF StartPolling

-----------------------------------------------------------------------------
(* The disk.                                                               *)

\* The times of a seek and of the rotation after it.
LEMMA SeekNat ==
  ASSUME IInv, NEW sector \in Sectors
  PROVE  SeekTo(sector) \in Nat /\ RotationAfter(SeekTo(sector)) \in Nat
<1>1. SectorsPerTrack \in Nat \ {0} /\ SeekTime \in Nat \ {0} /\ RotationTime \in Nat \ {0}
  BY DevicesAssumption
<1>2. sector \in Int /\ lastSector \in Int /\ totalTicks \in Nat
  BY DEF IInv, Counts, Sectors
<1>3. Track(sector) \in Int /\ Track(lastSector) \in Int
  BY <1>1, <1>2 DEF Track
<1> DEFINE tracks == Track(sector) - Track(lastSector)
           far == IF tracks < 0 THEN -tracks ELSE tracks
<1>4. far \in Nat
  BY <1>3
<1>5. far * SeekTime \in Nat
  <2> HIDE DEF far
  <2> QED BY <1>1, <1>4
<1>6. SeekTo(sector) \in Nat
  BY <1>5 DEF SeekTo
<1> DEFINE over == (totalTicks + SeekTo(sector)) % RotationTime
<1>7. over \in Nat /\ over < RotationTime
  BY <1>1, <1>2, <1>6
<1>8. RotationAfter(SeekTo(sector)) \in Nat
  <2>1. RotationAfter(SeekTo(sector)) = IF over > 0 THEN RotationTime - over ELSE 0
    BY DEF RotationAfter
  <2> HIDE DEF over
  <2> QED BY <1>1, <1>7, <2>1
<1> QED BY <1>6, <1>8

\* A request takes some time.
LEMMA LatencyPositive ==
  ASSUME IInv, NEW sector \in Sectors, NEW writing \in BOOLEAN
  PROVE  ComputeLatency(sector, writing) \in Nat \ {0}
<1> DEFINE seek == SeekTo(sector)
           rotation == RotationAfter(seek)
           timeAfter == totalTicks + seek + rotation
           turns == ModuloDiff(sector, timeAfter \div RotationTime)
<1>1. SectorsPerTrack \in Nat \ {0} /\ RotationTime \in Nat \ {0}
  BY DevicesAssumption
<1>2. seek \in Nat /\ rotation \in Nat
  BY SeekNat
<1>3. timeAfter \in Nat /\ sector \in Int
  BY <1>2 DEF IInv, Counts, Sectors
<1>4. turns \in Nat
  <2> HIDE DEF timeAfter
  <2>1. timeAfter \div RotationTime \in Int
    BY <1>1, <1>3
  <2> QED BY <1>1, <1>3, <2>1 DEF ModuloDiff
<1>5. turns * RotationTime \in Nat
  <2> HIDE DEF turns
  <2> QED BY <1>1, <1>4
<1>6. \/ ComputeLatency(sector, writing) = RotationTime
      \/ ComputeLatency(sector, writing)
           = seek + rotation + RotationTime + turns * RotationTime
  BY DEF ComputeLatency
<1>7. seek + rotation + RotationTime + turns * RotationTime \in Nat \ {0}
  <2> HIDE DEF seek, rotation, turns
  <2> QED BY <1>1, <1>2, <1>5
<1> QED BY <1>1, <1>6, <1>7

LEMMA RequestInv ==
  ASSUME IInv, NEW sector \in Sectors, NEW writing \in BOOLEAN, Request(sector, writing)
  PROVE  IInv'
<1>1. SeekTo(sector) \in Nat /\ RotationAfter(SeekTo(sector)) \in Nat
  BY SeekNat
<1>2. /\ totalTicks \in Nat /\ bufferInit \in Nat /\ arrival \in Nat
      /\ UNCHANGED <<totalTicks, yieldOnReturn, ready, asleep>>
  BY DEF IInv, Counts, Request, threads
<1>3. active' = TRUE /\ lastSector' = sector
  BY DEF Request, UpdateLast
<1>4. bufferInit' \in Nat /\ arrival' \in Nat
  BY <1>1, <1>2 DEF Request, UpdateLast
<1>5. cpu = "running" /\ cpu' \in {"running", "aborted"}
  BY DEF Request
<1>6. Counts'
  BY <1>2, <1>3, <1>4, <1>5 DEF IInv, Counts, CpuPlaces
<1>7. "disk" \in Devs /\ "disk" \notin Items(pending)
  BY DEF Devs, Request, IInv
<1>8. Schedule(pending, "disk", totalTicks, ComputeLatency(sector, writing))
  BY DEF Request
<1> QED BY <1>2, <1>3, <1>5, <1>6, <1>7, <1>8, LatencyPositive, ScheduleInv

-----------------------------------------------------------------------------

LEMMA NextInv == ASSUME IInv, [Next]_vars PROVE IInv'
<1>1. CASE UNCHANGED vars
  BY <1>1 DEF vars, threads, disk, IInv, Counts, ListInv, DueInv, AtLeast, Sorted, NoDuplicates,
              Items
<1>2. CASE \E sector \in Sectors, writing \in BOOLEAN : Request(sector, writing)
  BY <1>2, RequestInv
<1> QED
  BY <1>1, <1>2, TickInv, OneTickInv, IdleInv, IdlingInv, ThreadInv, StartPollingInv DEF Next

\* What the run checks follows from the invariant.
LEMMA OnTimeNow == IInv => InterruptsOnTime
<1> SUFFICES ASSUME IInv PROVE InterruptsOnTime
  OBVIOUS
<1>1. /\ pending \in Seq([item : Devs, key : Nat]) /\ Len(pending) \in Nat
      /\ \A i \in 1 .. Len(pending) : pending[i].key \in Nat
  BY NatKeys DEF IInv
<1>2. TypeOK
  BY <1>1 DEF IInv, Counts, TypeOK
<1>3. totalTicks \in Nat /\ SystemTick \in Nat
  BY DevicesAssumption DEF IInv, Counts
<1>4. \A i \in 1 .. Len(pending) : totalTicks <= pending[i].key + SystemTick
  BY <1>1, <1>3 DEF IInv, DueInv, AtLeast
<1>5. AtLeast(pending, totalTicks + 1) => Overdue = {}
  BY <1>1, <1>3 DEF AtLeast, Overdue
<1> QED BY <1>2, <1>4, <1>5 DEF IInv, ListInv, DueInv, InterruptsOnTime

\* No interrupt is lost, early or late (CheckIfDue, OneTick and Idle of interrupt.cc),
\* and the machine halts only when nothing is left to do.
THEOREM OnTime == Spec => []InterruptsOnTime
<1>1. IInv /\ [Next]_vars => IInv'
  BY NextInv
<1> QED BY <1>1, InitInv, OnTimeNow, PTL DEF Spec

-----------------------------------------------------------------------------
(* Multiples and remainders.                                               *)

LEMMA Division ==
  ASSUME NEW x \in Nat, NEW n \in Nat \ {0}
  PROVE  x \div n \in Nat /\ x % n \in 0 .. n - 1 /\ x = n * (x \div n) + (x % n)
  BY Z3

LEMMA Larger ==
  ASSUME NEW n \in Nat \ {0}, NEW i \in Int, NEW j \in Int, i < j
  PROVE  n * i + n <= n * j
<1>1. PICK k \in Nat : j = i + 1 + k
  <2>1. j - i - 1 \in Nat /\ j = i + 1 + (j - i - 1)
    OBVIOUS
  <2> QED BY <2>1
<1>2. n * j = n * i + n + n * k
  BY <1>1, Z3
<1>3. n * k \in Nat /\ n * i \in Int
  BY <1>1
<1> QED BY <1>2, <1>3

LEMMA Quotient ==
  ASSUME NEW n \in Nat \ {0}, NEW q \in Nat, NEW r \in 0 .. n - 1
  PROVE  (n * q + r) \div n = q /\ (n * q + r) % n = r
<1> DEFINE x == n * q + r
           d == x \div n
<1>1. n * q \in Nat /\ x \in Nat
  OBVIOUS
<1>2. d \in Nat /\ x % n \in 0 .. n - 1 /\ x = n * d + (x % n)
  <2> HIDE DEF x
  <2> QED BY <1>1, Division DEF x
<1>3. d = q
  <2>1. n * d \in Nat /\ x = n * q + r
    BY <1>2
  <2> HIDE DEF d, x
  <2>2. ~ d < q
    <3>1. d < q => n * d + n <= n * q
      BY <1>2, Larger
    <3> QED BY <1>1, <1>2, <2>1, <3>1
  <2>3. ~ q < d
    <3>1. q < d => n * q + n <= n * d
      BY <1>2, Larger
    <3>2. r < n /\ x % n >= 0 /\ r \in Nat /\ n \in Nat
      BY <1>2
    <3> QED BY <1>1, <1>2, <2>1, <3>1, <3>2
  <2> QED BY <1>2, <2>2, <2>3
<1>4. x % n = r
  <2>1. n * d = n * q
    BY <1>3
  <2>2. x = n * q + r
    OBVIOUS
  <2> HIDE DEF d, x
  <2> QED BY <1>1, <1>2, <2>1, <2>2
<1> QED BY <1>3, <1>4

\* ModuloDiff is how far it is from one number up to the first with the remainder
\* of another.
LEMMA ModuloDiffIs ==
  ASSUME NEW to \in Nat, NEW from \in Nat
  PROVE  /\ ModuloDiff(to, from) \in 0 .. SectorsPerTrack - 1
         /\ (from + ModuloDiff(to, from)) % SectorsPerTrack = to % SectorsPerTrack
         /\ \A c \in Nat : from <= c /\ c % SectorsPerTrack = to % SectorsPerTrack
              => from + ModuloDiff(to, from) <= c
<1> DEFINE S == SectorsPerTrack
           p == to % S
           q == from % S
           k == from \div S
           m == ModuloDiff(to, from)
<1>1. S \in Nat \ {0}
  BY DevicesAssumption
<1>2. p \in 0 .. S - 1 /\ q \in 0 .. S - 1 /\ k \in Nat /\ from = S * k + q
  BY <1>1, Division
<1>3. m = (p - q + S) % S
  BY DEF ModuloDiff
<1>4. m = IF q <= p THEN p - q ELSE p - q + S
  <2> HIDE DEF p, q, m, S
  <2>1. CASE q <= p
    <3>1. p - q \in 0 .. S - 1 /\ p - q + S = S * 1 + (p - q)
      BY <1>1, <1>2, <2>1
    <3>2. (S * 1 + (p - q)) % S = p - q
      BY <1>1, <3>1, Quotient
    <3> QED BY <1>3, <2>1, <3>1, <3>2
  <2>2. CASE ~ q <= p
    <3>1. p - q + S \in 0 .. S - 1 /\ p - q + S = S * 0 + (p - q + S)
      BY <1>1, <1>2, <2>2
    <3>2. (S * 0 + (p - q + S)) % S = p - q + S
      BY <1>1, <3>1, Quotient
    <3> QED BY <1>3, <2>2, <3>1, <3>2
  <2> QED BY <2>1, <2>2
<1>5. m \in 0 .. S - 1
  <2> HIDE DEF p, q, m, S
  <2> QED BY <1>1, <1>2, <1>4
<1>6. PICK l \in Nat : from + m = S * l + p
  <2> HIDE DEF p, q, m, k, S
  <2>1. S * (k + 1) = S * k + S /\ S * k \in Nat
    BY <1>1, <1>2
  <2>2. CASE q <= p
    BY <1>1, <1>2, <1>4, <2>1, <2>2
  <2>3. CASE ~ q <= p
    <3>1. from + m = S * (k + 1) + p
      BY <1>1, <1>2, <1>4, <2>1, <2>3
    <3> QED BY <1>2, <3>1
  <2> QED BY <2>2, <2>3
<1>7. (from + m) % S = p
  <2> HIDE DEF p, m, S
  <2> QED BY <1>1, <1>2, <1>6, Quotient
<1>8. ASSUME NEW c \in Nat, from <= c, c % S = p
      PROVE  from + m <= c
  <2>1. PICK j \in Nat : c = S * j + p
    <3> HIDE DEF p, S
    <3> QED BY <1>1, <1>8, Division
  <2> HIDE DEF p, m, S
  <2>2. S * j \in Nat /\ S * l \in Nat
    BY <1>1
  <2>3. CASE j < l
    <3>1. S * j + S <= S * l
      BY <1>1, <2>3, Larger
    <3> QED BY <1>1, <1>2, <1>5, <1>6, <1>8, <2>1, <2>2, <3>1
  <2>4. CASE l < j
    <3>1. S * l + S <= S * j
      BY <1>1, <2>4, Larger
    <3> QED BY <1>1, <1>2, <1>5, <1>6, <2>1, <2>2, <3>1
  <2>5. CASE l = j
    BY <1>2, <1>5, <1>6, <2>1, <2>5
  <2> QED BY <2>3, <2>4, <2>5
<1> QED BY <1>5, <1>7, <1>8

\* From a later number, but not beyond, it is as much less far.
LEMMA ModuloDiffLater ==
  ASSUME NEW to \in Nat, NEW from \in Nat, NEW later \in Nat, from <= later,
         later <= from + ModuloDiff(to, from)
  PROVE  later + ModuloDiff(to, later) = from + ModuloDiff(to, from)
<1>1. ModuloDiff(to, from) \in Nat /\ ModuloDiff(to, later) \in Nat
  BY ModuloDiffIs, DevicesAssumption
<1>2. later + ModuloDiff(to, later) <= from + ModuloDiff(to, from)
  BY <1>1, ModuloDiffIs
<1>3. from + ModuloDiff(to, from) <= later + ModuloDiff(to, later)
  BY <1>1, ModuloDiffIs
<1> QED BY <1>1, <1>2, <1>3

-----------------------------------------------------------------------------
(* The rotation of the disk: sectors begin at the multiples of             *)
(* RotationTime.                                                           *)

OnBoundary(time) == time \in Nat /\ time % RotationTime = 0

\* When the sector's passage begins, while the head is on its track since from.
Passages(sector, from) ==
  {t \in from .. from + (SectorsPerTrack + 1) * RotationTime :
     /\ t % RotationTime = 0
     /\ (t \div RotationTime) % SectorsPerTrack = sector % SectorsPerTrack}

FirstPassage(sector, from) ==
  CHOOSE t \in Passages(sector, from) : \A u \in Passages(sector, from) : t <= u

LEMMA Turns ==
  ASSUME NEW time, OnBoundary(time)
  PROVE  time \div RotationTime \in Nat /\ time = RotationTime * (time \div RotationTime)
<1>1. RotationTime \in Nat \ {0} /\ time \in Nat /\ time % RotationTime = 0
  BY DevicesAssumption DEF OnBoundary
<1>2. /\ time \div RotationTime \in Nat
      /\ time = RotationTime * (time \div RotationTime) + (time % RotationTime)
  BY <1>1, Division
<1> QED BY <1>1, <1>2

\* The boundary some turns after another.
LEMMA BoundaryAfter ==
  ASSUME NEW time, OnBoundary(time), NEW turns \in Nat
  PROVE  /\ turns * RotationTime \in Nat
         /\ OnBoundary(time + turns * RotationTime)
         /\ (time + turns * RotationTime) \div RotationTime = (time \div RotationTime) + turns
<1> DEFINE R == RotationTime
           n == time \div R
<1>1. R \in Nat \ {0} /\ time \in Nat
  BY DevicesAssumption DEF OnBoundary
<1>2. n \in Nat /\ time = R * n
  BY Turns
<1>3. turns * R \in Nat
  BY <1>1
<1>4. time + turns * R = R * (n + turns) + 0
  <2> HIDE DEF n, R
  <2> QED BY <1>1, <1>2, Z3
<1>5. /\ (R * (n + turns) + 0) \div R = n + turns
      /\ (R * (n + turns) + 0) % R = 0
  <2>1. n + turns \in Nat /\ 0 \in 0 .. R - 1
    BY <1>1, <1>2
  <2> HIDE DEF n, R
  <2> QED BY <1>1, <2>1, Quotient
<1> QED BY <1>1, <1>3, <1>4, <1>5 DEF OnBoundary

\* Boundaries are a rotation apart, at least.
LEMMA BoundariesApart ==
  ASSUME NEW early, OnBoundary(early), NEW late, OnBoundary(late), early <= late
  PROVE  /\ early \div RotationTime <= late \div RotationTime
         /\ early < late => early + RotationTime <= late
         /\ (late - early) \div RotationTime
              = (late \div RotationTime) - (early \div RotationTime)
<1> DEFINE R == RotationTime
           i == early \div R
           j == late \div R
<1>1. R \in Nat \ {0} /\ early \in Nat /\ late \in Nat
  BY DevicesAssumption DEF OnBoundary
<1>2. i \in Nat /\ early = R * i /\ j \in Nat /\ late = R * j
  BY Turns
<1> HIDE DEF i, j, R
<1>3. i <= j
  <2>1. CASE j < i
    <3>1. R * j + R <= R * i
      BY <1>1, <1>2, <2>1, Larger
    <3> QED BY <1>1, <1>2, <3>1
  <2> QED BY <1>2, <2>1
<1>4. early < late => early + R <= late
  <2>1. i < j => R * i + R <= R * j
    BY <1>1, <1>2, Larger
  <2>2. i = j => early = late
    BY <1>2
  <2> QED BY <1>1, <1>2, <1>3, <2>1, <2>2
<1>5. (late - early) \div R = j - i
  <2>1. j - i \in Nat /\ 0 \in 0 .. R - 1
    BY <1>1, <1>2, <1>3
  <2>2. late - early = R * (j - i) + 0
    BY <1>1, <1>2, Z3
  <2>3. (R * (j - i) + 0) \div R = j - i
    BY <1>1, <2>1, Quotient
  <2> QED BY <2>2, <2>3
<1> QED BY <1>3, <1>4, <1>5 DEF i, j, R

\* RotationAfter takes the head to the next boundary.
LEMMA NextBoundary ==
  ASSUME totalTicks \in Nat, NEW seek \in Nat
  PROVE  /\ RotationAfter(seek) \in Nat /\ RotationAfter(seek) < RotationTime
         /\ OnBoundary(totalTicks + seek + RotationAfter(seek))
<1> DEFINE R == RotationTime
           from == totalTicks + seek
           over == from % R
           n == from \div R
<1>1. R \in Nat \ {0} /\ from \in Nat
  BY DevicesAssumption
<1>2. over \in 0 .. R - 1 /\ n \in Nat /\ from = R * n + over
  <2> HIDE DEF from
  <2> QED BY <1>1, Division
<1>3. RotationAfter(seek) = IF over > 0 THEN R - over ELSE 0
  BY DEF RotationAfter
<1>4. \E k \in Nat : from + RotationAfter(seek) = R * k + 0
  <2> HIDE DEF R, over, n, from
  <2>1. R * (n + 1) = R * n + R /\ R * n \in Nat
    BY <1>1, <1>2, Z3
  <2>2. CASE over > 0
    <3>1. from + RotationAfter(seek) = R * (n + 1) + 0
      BY <1>1, <1>2, <1>3, <2>1, <2>2
    <3> QED BY <1>2, <3>1
  <2>3. CASE over = 0
    BY <1>2, <1>3, <2>3
  <2> QED BY <1>1, <1>2, <2>2, <2>3
<1>5. RotationAfter(seek) \in Nat /\ RotationAfter(seek) < R
  <2> HIDE DEF R, over
  <2> QED BY <1>1, <1>2, <1>3
<1>6. (from + RotationAfter(seek)) % R = 0
  <2>1. PICK k \in Nat : from + RotationAfter(seek) = R * k + 0
    BY <1>4
  <2>2. 0 \in 0 .. R - 1
    BY <1>1
  <2> HIDE DEF R, from
  <2>3. (R * k + 0) % R = 0
    BY <1>1, <2>2, Quotient
  <2> QED BY <2>1, <2>3
<1>7. from + RotationAfter(seek) \in Nat
  BY <1>1, <1>5
<1> QED BY <1>5, <1>6, <1>7 DEF OnBoundary

\* The first passage begins ModuloDiff turns after the first boundary.
LEMMA FirstPassageIs ==
  ASSUME NEW sector \in Nat, NEW from \in Nat, NEW time, OnBoundary(time),
         from <= time, time < from + RotationTime
  PROVE  FirstPassage(sector, from)
           = time + ModuloDiff(sector, time \div RotationTime) * RotationTime
<1> DEFINE R == RotationTime
           S == SectorsPerTrack
           b == time \div R
           m == ModuloDiff(sector, b)
           first == time + m * R
           P == Passages(sector, from)
<1>1. R \in Nat \ {0} /\ S \in Nat \ {0} /\ time \in Nat
  BY DevicesAssumption DEF OnBoundary
<1>2. b \in Nat
  BY Turns
<1>3. /\ m \in 0 .. S - 1
      /\ (b + m) % S = sector % S
      /\ \A c \in Nat : b <= c /\ c % S = sector % S => b + m <= c
  BY <1>2, ModuloDiffIs
<1>4. m * R \in Nat /\ OnBoundary(first) /\ first \div R = b + m
  <2>1. m \in Nat
    BY <1>1, <1>3
  <2> HIDE DEF m
  <2> QED BY <2>1, BoundaryAfter
<1>5. first \in P
  <2>1. m * R + R <= S * R /\ S * R + R = (S + 1) * R /\ S * R \in Nat
    <3>1. R * m + R <= R * S
      BY <1>1, <1>3, Larger
    <3> HIDE DEF m, R, S
    <3>2. m \in Nat
      BY <1>1, <1>3
    <3>3. R * m = m * R /\ R * S = S * R /\ S * R + R = (S + 1) * R
      BY <1>1, <3>2, Z3
    <3> QED BY <1>1, <3>1, <3>3
  <2>2. (S + 1) * R \in Nat
    BY <1>1
  <2> HIDE DEF m, b, R, S
  <2>3. first \in from .. from + (S + 1) * R
    BY <1>1, <1>4, <2>1, <2>2 DEF R
  <2> QED BY <1>3, <1>4, <2>3 DEF Passages, OnBoundary, R, S
<1>6. ASSUME NEW u \in P
      PROVE  first <= u
  <2>1. u \in Nat /\ from <= u /\ OnBoundary(u) /\ (u \div R) % S = sector % S
    <3>1. (S + 1) * R \in Nat
      BY <1>1
    <3> QED BY <3>1 DEF Passages, OnBoundary
  <2>2. time <= u
    <3>1. CASE u < time
      <4>1. u <= time
        BY <1>1, <2>1, <3>1
      <4>2. u + R <= time
        BY <2>1, <3>1, <4>1, BoundariesApart
      <4> QED BY <1>1, <2>1, <4>2
    <3> QED BY <1>1, <2>1, <3>1
  <2>3. b <= u \div R /\ u \div R \in Nat
    BY <2>1, <2>2, BoundariesApart, Turns
  <2>4. b + m <= u \div R
    BY <1>3, <2>1, <2>3
  <2> HIDE DEF first, m, b
  <2>5. CASE u < first
    <3>1. u \div R <= first \div R
      BY <1>4, <2>1, <2>5, BoundariesApart DEF OnBoundary
    <3>2. u \div R = first \div R
      BY <1>2, <1>3, <1>4, <2>3, <2>4, <3>1
    <3>3. u = first
      BY <1>4, <2>1, <3>2, Turns
    <3> QED BY <2>5, <3>3, <2>1
  <2> QED BY <1>4, <2>1, <2>5 DEF OnBoundary
<1>7. \A t \in P : (\A u \in P : t <= u) => t = first
  <2> SUFFICES ASSUME NEW t \in P, \A u \in P : t <= u PROVE t = first
    OBVIOUS
  <2>1. t \in Nat /\ first \in Nat
    <3>1. (S + 1) * R \in Nat
      BY <1>1
    <3> QED BY <3>1, <1>4 DEF Passages, OnBoundary
  <2>2. t <= first /\ first <= t
    BY <1>5, <1>6
  <2> HIDE DEF first
  <2> QED BY <2>1, <2>2
<1>8. FirstPassage(sector, from) = first
  <2> HIDE DEF first, P
  <2> QED BY <1>5, <1>6, <1>7 DEF FirstPassage, P
<1> QED BY <1>8

-----------------------------------------------------------------------------
(* Where the head is.                                                      *)

Scheduled(list) == {list[i] : i \in 1 .. Len(list)}

DiskAfter(list, time) == \A e \in Scheduled(list) : e.item = "disk" => time <= e.key

\* The track buffer fills from the first boundary after the head came to its track,
\* and that is before the interrupt of the request that sent the head there.
HeadInv ==
  /\ OnBoundary(bufferInit)
  /\ arrival <= bufferInit /\ bufferInit < arrival + RotationTime
  /\ ~ active => bufferInit <= totalTicks
  /\ DiskAfter(pending, bufferInit)

LEMMA ScheduledInserted ==
  ASSUME NEW list, ListInv(list), NEW dev \in Devs, NEW key \in Nat
  PROVE  Scheduled(SortedInsert(list, dev, key)) = Scheduled(list) \cup {Element(dev, key)}
<1> DEFINE n == Len(list)
           new == SortedInsert(list, dev, key)
           p == InsertPlace(list, key)
<1>1. list \in Seq(Elements(Devs)) /\ n \in Nat
  BY NatKeys DEF ListInv
<1>2. p \in 1 .. n + 1
  BY <1>1, InsertPlaceProperty
<1>3. Len(new) = n + 1
  BY <1>1, SortedInsertType
<1>4. \A i \in 1 .. n + 1 : new[i] = IF i < p THEN list[i] ELSE IF i = p THEN Element(dev, key)
                                     ELSE list[i - 1]
  BY DEF SortedInsert
<1> HIDE DEF n, new, p
<1>5. Scheduled(list) = {list[i] : i \in 1 .. n} /\ Scheduled(new) = {new[i] : i \in 1 .. n + 1}
  BY <1>3 DEF Scheduled, n
<1>6. ASSUME NEW i \in 1 .. n + 1
      PROVE  new[i] \in Scheduled(list) \cup {Element(dev, key)}
  <2>1. CASE i < p
    BY <1>1, <1>2, <1>4, <1>5, <2>1
  <2>2. CASE i = p
    BY <1>4, <2>2
  <2>3. CASE i > p
    <3>1. i - 1 \in 1 .. n /\ new[i] = list[i - 1]
      BY <1>1, <1>2, <1>4, <2>3
    <3> QED BY <1>5, <3>1
  <2> QED BY <1>2, <2>1, <2>2, <2>3
<1>7. Element(dev, key) \in Scheduled(new)
  BY <1>2, <1>4, <1>5
<1>8. ASSUME NEW i \in 1 .. n
      PROVE  list[i] \in Scheduled(new)
  <2>1. CASE i < p
    <3>1. i \in 1 .. n + 1 /\ new[i] = list[i]
      BY <1>1, <1>4, <2>1
    <3> QED BY <1>5, <3>1
  <2>2. CASE i >= p
    <3>1. i + 1 \in 1 .. n + 1 /\ new[i + 1] = list[i + 1 - 1] /\ i + 1 - 1 = i
      BY <1>1, <1>2, <1>4, <2>2
    <3> QED BY <1>5, <3>1
  <2> QED BY <1>2, <2>1, <2>2
<1> QED BY <1>5, <1>6, <1>7, <1>8 DEF new

LEMMA ScheduledRest ==
  ASSUME NEW list, ListInv(list), list /= <<>>
  PROVE  /\ Scheduled(Rest(list)) \subseteq Scheduled(list)
         /\ Head(list) \in Scheduled(list)
         /\ Element(First(list), Head(list).key) = Head(list)
<1>1. list \in Seq(Elements(Devs)) /\ Len(list) \in Nat
  BY NatKeys DEF ListInv
<1>2. Head(list) = list[1] /\ 1 \in 1 .. Len(list)
  BY <1>1
<1>3. /\ Len(Rest(list)) = Len(list) - 1
      /\ \A i \in 1 .. Len(Rest(list)) : Rest(list)[i] = list[i + 1] /\ i + 1 \in 1 .. Len(list)
  BY <1>1, RemoveProperties
<1>4. list[1] \in [item : Devs, key : Int]
  <2>1. list[1] \in Elements(Devs)
    BY <1>1, <1>2
  <2> QED BY <2>1 DEF Elements
<1> QED BY <1>2, <1>3, <1>4 DEF Scheduled, Element, First

\* The steps in which the disk does nothing.
LEMMA HeadStays ==
  ASSUME HeadInv, totalTicks \in Nat, totalTicks' \in Nat, totalTicks <= totalTicks',
         UNCHANGED disk,
         \A e \in Scheduled(pending') : e \in Scheduled(pending) \/ e.item /= "disk"
  PROVE  HeadInv'
<1>1. /\ active' = active /\ bufferInit' = bufferInit /\ arrival' = arrival
  BY DEF disk
<1>2. DiskAfter(pending', bufferInit)
  BY DEF HeadInv, DiskAfter
<1>3. ~ active => bufferInit <= totalTicks'
  BY DEF HeadInv, OnBoundary
<1> QED BY <1>1, <1>2, <1>3 DEF HeadInv, OnBoundary, DiskAfter, Scheduled

\* The time at which a handler is called is not before the interrupt's.
LEMMA FiresHead ==
  ASSUME IInv, HeadInv, NEW advanceClock \in BOOLEAN, NEW idle, NEW then,
         Fires(advanceClock, idle, then)
  PROVE  HeadInv'
<1> DEFINE now == Advanced(advanceClock)
           rest == Rest(pending)
<1>1. /\ pending /= <<>> /\ Head(pending).key <= now /\ totalTicks' = now
      /\ \/ First(pending) = "timer" /\ TimerExpired(rest, now, then)
         \/ First(pending) = "disk" /\ HandleInterrupt(rest, then)
         \/ First(pending) = "poll" /\ Poll(rest, now, then)
  BY DEF Fires
<1>2. ListInv(pending) /\ ListInv(rest) /\ Head(pending).key \in Nat /\ totalTicks \in Nat
  BY <1>1, TakenOff DEF IInv, Counts
<1>3. now \in Nat /\ totalTicks <= now
  BY <1>2 DEF Advanced
<1>4. /\ Scheduled(rest) \subseteq Scheduled(pending) /\ Head(pending) \in Scheduled(pending)
      /\ First(pending) = Head(pending).item
  BY <1>1, <1>2, ScheduledRest DEF First
<1> HIDE DEF now, rest
<1>5. ASSUME NEW dev \in Devs, dev /= "disk", NEW fromNow \in Nat,
             pending' = SortedInsert(rest, dev, now + fromNow), UNCHANGED disk
      PROVE  HeadInv'
  <2>1. Scheduled(pending') = Scheduled(rest) \cup {Element(dev, now + fromNow)}
    BY <1>2, <1>3, <1>5, ScheduledInserted
  <2>2. \A e \in Scheduled(pending') : e \in Scheduled(pending) \/ e.item /= "disk"
    BY <1>4, <1>5, <2>1 DEF Element
  <2> QED BY <1>1, <1>2, <1>3, <1>5, <2>2, HeadStays
<1>6. CASE First(pending) = "timer" /\ TimerExpired(rest, now, then)
  BY <1>5, <1>6, DevicesAssumption DEF TimerExpired, Schedule, TimeOfNextInterrupt, Devs
<1>7. CASE First(pending) = "poll" /\ Poll(rest, now, then)
  BY <1>5, <1>7, DevicesAssumption DEF Poll, Schedule, Devs
<1>8. CASE First(pending) = "disk" /\ HandleInterrupt(rest, then)
  <2>1. pending' = rest /\ bufferInit' = bufferInit /\ arrival' = arrival
    BY <1>8 DEF HandleInterrupt
  <2>2. bufferInit <= now
    <3>1. bufferInit <= Head(pending).key
      BY <1>4, <1>8 DEF HeadInv, DiskAfter
    <3> QED BY <1>1, <1>2, <1>3, <3>1 DEF HeadInv, OnBoundary
  <2>3. DiskAfter(rest, bufferInit)
    BY <1>4 DEF HeadInv, DiskAfter
  <2> QED BY <1>1, <2>1, <2>2, <2>3 DEF HeadInv, OnBoundary, DiskAfter, Scheduled
<1> QED BY <1>1, <1>6, <1>7, <1>8

LEMMA FiresNoneHead ==
  ASSUME IInv, HeadInv, NEW advanceClock \in BOOLEAN, NEW idle, NEW then,
         FiresNone(advanceClock, idle, then)
  PROVE  HeadInv'
<1>1. ListInv(pending) /\ totalTicks \in Nat /\ UNCHANGED disk
  BY DEF IInv, Counts, FiresNone
<1>2. CASE pending = <<>> /\ UNCHANGED <<totalTicks, pending>>
  BY <1>1, <1>2, HeadStays
<1>3. CASE ~ (pending = <<>> /\ UNCHANGED <<totalTicks, pending>>)
  <2>1. /\ pending /= <<>> /\ totalTicks' = Advanced(advanceClock)
        /\ pending' = SortedInsert(Rest(pending), First(pending), Head(pending).key)
    BY <1>3 DEF FiresNone
  <2>2. ListInv(Rest(pending)) /\ First(pending) \in Devs /\ Head(pending).key \in Nat
    BY <1>1, <2>1, TakenOff
  <2>3. Advanced(advanceClock) \in Nat /\ totalTicks <= Advanced(advanceClock)
    BY <1>1, <2>2 DEF Advanced
  <2>4. Scheduled(pending') \subseteq Scheduled(pending)
    BY <1>1, <2>1, <2>2, ScheduledInserted, ScheduledRest
  <2> QED BY <1>1, <2>1, <2>3, <2>4, HeadStays
<1> QED BY <1>2, <1>3

-----------------------------------------------------------------------------
(* A request for a sector.                                                 *)

LEMMA SeekIs ==
  ASSUME IInv, NEW sector \in Sectors
  PROVE  SeekTo(sector) = 0 <=> Track(sector) = Track(lastSector)
<1> DEFINE tracks == Track(sector) - Track(lastSector)
           far == IF tracks < 0 THEN -tracks ELSE tracks
<1>1. SectorsPerTrack \in Nat \ {0} /\ SeekTime \in Nat \ {0}
  BY DevicesAssumption
<1>2. Track(sector) \in Int /\ Track(lastSector) \in Int
  BY <1>1 DEF IInv, Counts, Sectors, Track
<1>3. SeekTo(sector) = far * SeekTime
  BY DEF SeekTo
<1>4. far \in Nat /\ (far = 0 <=> Track(sector) = Track(lastSector))
  BY <1>2
<1> HIDE DEF far
<1>5. far * SeekTime = 0 <=> far = 0
  BY <1>1, <1>4, Z3
<1> QED BY <1>3, <1>4, <1>5

\* The moment from which the head may be used, as in RightSector.
UsableFrom(sector, writing) ==
  IF Track(sector) /= Track(lastSector) THEN totalTicks + SeekTo(sector)
  ELSE IF writing THEN totalTicks ELSE arrival

\* What ComputeLatency computes is when the first passage begins, or now.
LEMMA LatencyIs ==
  ASSUME IInv, HeadInv, ~ active, NEW sector \in Sectors, NEW writing \in BOOLEAN
  PROVE  LET first == FirstPassage(sector, UsableFrom(sector, writing))
         IN  totalTicks + ComputeLatency(sector, writing)
               = (IF first > totalTicks THEN first ELSE totalTicks) + RotationTime
<1> DEFINE R == RotationTime
           seek == SeekTo(sector)
           from == UsableFrom(sector, writing)
           first == FirstPassage(sector, from)
           after == totalTicks + seek + RotationAfter(seek)
           late == ModuloDiff(sector, after \div R)
           early == ModuloDiff(sector, bufferInit \div R)
           inBuffer == /\ ~writing /\ seek = 0
                       /\ (after - bufferInit) \div R > early
           ticks == ComputeLatency(sector, writing)
<1> SUFFICES totalTicks + ticks = (IF first > totalTicks THEN first ELSE totalTicks) + R
  OBVIOUS
<1>1. R \in Nat \ {0} /\ totalTicks \in Nat /\ arrival \in Nat /\ sector \in Nat
  <2>1. SectorsPerTrack * NumTracks \in Nat
    BY DevicesAssumption
  <2> QED BY <2>1, DevicesAssumption DEF IInv, Counts, Sectors
<1>2. seek \in Nat /\ (seek = 0 <=> Track(sector) = Track(lastSector))
  BY SeekNat, SeekIs
<1>3. RotationAfter(seek) \in Nat /\ RotationAfter(seek) < R /\ OnBoundary(after)
  BY <1>1, <1>2, NextBoundary
<1>4. ticks = IF inBuffer THEN R ELSE seek + RotationAfter(seek) + R + late * R
  BY DEF ComputeLatency
<1>5. /\ OnBoundary(bufferInit) /\ arrival <= bufferInit /\ bufferInit < arrival + R
      /\ bufferInit <= totalTicks
  BY DEF HeadInv
<1>6. after \div R \in Nat /\ bufferInit \div R \in Nat
  BY <1>3, <1>5, Turns
<1>7. late \in Nat /\ early \in Nat /\ late * R \in Nat /\ early * R \in Nat
  <2>1. late \in Nat /\ early \in Nat
    BY <1>1, <1>6, ModuloDiffIs, DevicesAssumption
  <2> HIDE DEF late, early
  <2> QED BY <1>1, <2>1
\* The head waits for the first passage after the seek.
<1>8. CASE seek /= 0 \/ writing
  <2>1. from = totalTicks + seek /\ from \in Nat
    BY <1>1, <1>2, <1>8 DEF UsableFrom
  <2>2. from <= after /\ after < from + R /\ after \in Nat
    BY <1>1, <1>2, <1>3, <2>1
  <2>3. first = after + late * R
    BY <1>1, <1>3, <2>1, <2>2, FirstPassageIs
  <2>4. ticks = seek + RotationAfter(seek) + R + late * R
    BY <1>4, <1>8
  <2> HIDE DEF first, ticks, late, R
  <2> QED BY <1>1, <1>2, <1>3, <1>7, <2>1, <2>2, <2>3, <2>4
\* The sector may be in the track buffer, of which all the turns have passed that
\* are between two boundaries.
<1>9. CASE seek = 0 /\ ~ writing
  <2>1. from = arrival
    BY <1>2, <1>9 DEF UsableFrom
  <2>2. first = bufferInit + early * R
    BY <1>1, <1>5, <2>1, FirstPassageIs
  <2>3. after \in Nat /\ totalTicks <= after /\ after < totalTicks + R
    BY <1>1, <1>2, <1>3, <1>9
  <2>4. bufferInit <= after /\ bufferInit \in Nat
    BY <1>1, <1>5, <2>3 DEF OnBoundary
  <2>5. (after - bufferInit) \div R = (after \div R) - (bufferInit \div R)
    BY <1>3, <1>5, <2>4, BoundariesApart
  <2>6. OnBoundary(first) /\ first \div R = (bufferInit \div R) + early
    <3> HIDE DEF early
    <3> QED BY <1>5, <1>7, <2>2, BoundaryAfter
  <2>7. CASE inBuffer
    <3>1. first < after
      <4>1. first \div R < after \div R
        BY <1>6, <1>7, <2>5, <2>6, <2>7
      <4>2. after <= first => after \div R <= first \div R
        BY <1>3, <2>6, BoundariesApart
      <4> HIDE DEF first, after, R
      <4>3. first \in Nat /\ first \div R \in Nat
        BY <2>6, Turns DEF OnBoundary, R
      <4> QED BY <1>6, <2>3, <4>1, <4>2, <4>3
    <3>2. first + R <= after /\ first \in Nat
      <4>1. first <= after
        BY <2>3, <2>6, <3>1 DEF OnBoundary
      <4> QED BY <1>3, <2>6, <3>1, <4>1, BoundariesApart DEF OnBoundary
    <3>3. ~ first > totalTicks
      <4> HIDE DEF first, after, R
      <4> QED BY <1>1, <2>3, <3>2
    <3>4. ticks = R
      BY <1>4, <2>7
    <3> QED BY <3>3, <3>4
  <2>8. CASE ~ inBuffer
    <3>1. after \div R <= (bufferInit \div R) + early
      BY <1>6, <1>7, <1>9, <2>5, <2>8
    <3>2. bufferInit \div R <= after \div R
      BY <1>3, <1>5, <2>4, BoundariesApart
    <3>3. (after \div R) + late = (bufferInit \div R) + early
      BY <1>1, <1>6, <3>1, <3>2, ModuloDiffLater
    <3>4. first = after + late * R
      <4> HIDE DEF late, first, after
      <4>1. OnBoundary(after + late * R) /\ (after + late * R) \div R = (after \div R) + late
        BY <1>3, <1>7, BoundaryAfter
      <4>2. first = R * (first \div R) /\ after + late * R = R * ((after + late * R) \div R)
        BY <2>6, <4>1, Turns
      <4> QED BY <2>6, <3>3, <4>1, <4>2
    <3>5. ticks = seek + RotationAfter(seek) + R + late * R
      BY <1>4, <2>8
    <3>6. totalTicks + ticks = first + R
      <4> HIDE DEF first, ticks, late, R, seek
      <4> QED BY <1>1, <1>2, <1>3, <1>7, <3>4, <3>5
    <3>7. first >= totalTicks /\ first \in Nat
      <4> HIDE DEF first, after, late, R
      <4> QED BY <1>1, <1>7, <2>3, <3>4
    <3> HIDE DEF first, ticks, R
    <3> QED BY <1>1, <3>6, <3>7
  <2> QED BY <2>7, <2>8
<1> QED BY <1>2, <1>8, <1>9

\* The request's interrupt is scheduled, among those there are.
LEMMA RequestSchedules ==
  ASSUME IInv, NEW sector \in Sectors, NEW writing \in BOOLEAN, Request(sector, writing)
  PROVE  Scheduled(pending') = Scheduled(pending)
           \cup {Element("disk", totalTicks + ComputeLatency(sector, writing))}
<1>1. ListInv(pending) /\ totalTicks \in Nat /\ "disk" \in Devs
  BY DEF IInv, Counts, Devs
<1>2. totalTicks + ComputeLatency(sector, writing) \in Nat
  BY <1>1, LatencyPositive
<1>3. pending' = SortedInsert(pending, "disk", totalTicks + ComputeLatency(sector, writing))
  BY DEF Request, Schedule
<1> QED BY <1>1, <1>2, <1>3, ScheduledInserted

LEMMA RequestHead ==
  ASSUME IInv, HeadInv, NEW sector \in Sectors, NEW writing \in BOOLEAN,
         Request(sector, writing)
  PROVE  HeadInv'
<1> DEFINE seek == SeekTo(sector)
           after == totalTicks + seek + RotationAfter(seek)
           ticks == ComputeLatency(sector, writing)
<1>1. totalTicks \in Nat /\ totalTicks' = totalTicks /\ ~ active /\ active' = TRUE
      /\ arrival \in Nat /\ RotationTime \in Nat
  BY DevicesAssumption DEF IInv, Counts, Request
<1>2. /\ seek \in Nat /\ (seek = 0 <=> Track(sector) = Track(lastSector))
      /\ RotationAfter(seek) \in Nat /\ RotationAfter(seek) < RotationTime /\ OnBoundary(after)
  BY <1>1, SeekNat, SeekIs, NextBoundary
<1>3. /\ bufferInit' = IF seek /= 0 THEN after ELSE bufferInit
      /\ arrival' = IF seek = 0 THEN arrival ELSE totalTicks + seek
  BY <1>2 DEF Request, UpdateLast
<1>4. /\ OnBoundary(bufferInit') /\ arrival' <= bufferInit'
      /\ bufferInit' < arrival' + RotationTime
  BY <1>1, <1>2, <1>3 DEF HeadInv
<1>5. ticks \in Nat \ {0}
  BY LatencyPositive
<1>6. bufferInit' <= totalTicks + ticks
  <2>1. CASE seek = 0
    BY <1>1, <1>3, <1>5, <2>1 DEF HeadInv, OnBoundary
  <2>2. CASE seek /= 0
    <3>1. \E turns \in Nat : ticks = seek + RotationAfter(seek) + RotationTime
                                       + turns * RotationTime
      <4>1. ModuloDiff(sector, after \div RotationTime) \in Nat
        <5>1. sector \in Nat
          <6>1. SectorsPerTrack * NumTracks \in Nat
            BY DevicesAssumption
          <6> QED BY <6>1 DEF Sectors
        <5> QED BY <1>2, <5>1, Turns, ModuloDiffIs, DevicesAssumption
      <4> QED BY <2>2, <4>1 DEF ComputeLatency
    <3>2. PICK turns \in Nat : ticks = seek + RotationAfter(seek) + RotationTime
                                       + turns * RotationTime
      BY <3>1
    <3>3. turns * RotationTime \in Nat
      BY <1>1
    <3> HIDE DEF ticks, seek
    <3> QED BY <1>1, <1>2, <1>3, <2>2, <3>2, <3>3
  <2> QED BY <2>1, <2>2
<1>7. DiskAfter(pending', bufferInit')
  <2>1. ASSUME NEW e \in Scheduled(pending), e.item = "disk"
        PROVE  FALSE
    <3>1. "disk" \in Items(pending)
      BY <2>1 DEF Items, Scheduled
    <3> QED BY <1>1, <3>1 DEF IInv
  <2>2. Element("disk", totalTicks + ticks).key = totalTicks + ticks
    BY DEF Element
  <2> HIDE DEF ticks
  <2>3. Scheduled(pending') = Scheduled(pending) \cup {Element("disk", totalTicks + ticks)}
    BY RequestSchedules DEF ticks
  <2> QED BY <1>6, <2>1, <2>2, <2>3 DEF DiskAfter
<1> QED BY <1>1, <1>4, <1>7 DEF HeadInv, DiskAfter, Scheduled

LEMMA InitHead == Init => HeadInv
<1> SUFFICES ASSUME Init PROVE HeadInv
  OBVIOUS
<1>1. bufferInit = 0 /\ arrival = 0 /\ totalTicks = 0
  BY DEF Init
<1>2. RotationTime \in Nat \ {0} /\ 0 % RotationTime = 0
  <2>1. RotationTime \in Nat \ {0}
    BY DevicesAssumption
  <2>2. 0 \in 0 .. RotationTime - 1 /\ RotationTime * 0 + 0 = 0
    BY <2>1
  <2> QED BY <2>1, <2>2, Quotient
<1>3. DiskAfter(pending, 0)
  <2>1. ListInv(pending)
    BY InitInv DEF IInv
  <2> QED BY <2>1, NatKeys DEF DiskAfter, Scheduled
<1> QED BY <1>1, <1>2, <1>3 DEF HeadInv, OnBoundary

LEMMA NextHead == ASSUME IInv, HeadInv, IInv', [Next]_vars PROVE HeadInv'
<1>1. totalTicks \in Nat /\ totalTicks' \in Nat /\ UserTick \in Nat /\ SystemTick \in Nat
      /\ ListInv(pending)
  BY DevicesAssumption DEF IInv, Counts
<1>2. CASE UNCHANGED vars
  BY <1>1, <1>2, HeadStays DEF vars, disk
<1>3. CASE Tick
  <2>1. totalTicks <= totalTicks'
    BY <1>1, <1>3 DEF Tick
  <2> QED BY <1>1, <1>3, <2>1, HeadStays DEF Tick
<1>4. CASE YieldDone \/ Dispatch \/ Fork \/ Wake \/ Sleep
  <2>1. UNCHANGED <<totalTicks, pending, disk>>
    BY <1>4 DEF YieldDone, Dispatch, Fork, Wake, Sleep
  <2> QED BY <1>1, <2>1, HeadStays
<1>5. CASE OneTick
  BY <1>5, FiresHead, FiresNoneHead DEF OneTick
<1>6. CASE Idle
  BY <1>6, FiresHead, FiresNoneHead DEF Idle
<1>7. CASE Idling
  BY <1>7, FiresHead, FiresNoneHead DEF Idling
<1>8. CASE StartPolling
  <2>1. "poll" \in Devs /\ totalTicks + PollTime \in Nat
    BY <1>1, DevicesAssumption DEF Devs
  <2>2. Scheduled(pending') = Scheduled(pending) \cup {Element("poll", totalTicks + PollTime)}
    BY <1>1, <1>8, <2>1, ScheduledInserted DEF StartPolling, Schedule
  <2>3. totalTicks' = totalTicks /\ UNCHANGED disk
    BY <1>8 DEF StartPolling
  <2> QED BY <1>1, <2>2, <2>3, HeadStays DEF Element
<1>9. CASE \E sector \in Sectors, writing \in BOOLEAN : Request(sector, writing)
  BY <1>9, RequestHead
<1> QED BY <1>2, <1>3, <1>4, <1>5, <1>6, <1>7, <1>8, <1>9 DEF Next

\* A request takes the time that the rotating disk imposes (ComputeLatency,
\* TimeToSeek, ModuloDiff and UpdateLast of disk.cc), for any number of tracks and
\* of sectors on them, any times to rotate and to seek.
THEOREM RequestsTakeTheirTime == Spec => RightSector
<1>1. Init => IInv /\ HeadInv
  BY InitInv, InitHead
<1>2. IInv /\ HeadInv /\ [Next]_vars => IInv' /\ HeadInv'
  BY NextInv, NextHead
<1>3. IInv /\ HeadInv =>
        \A sector \in Sectors, writing \in BOOLEAN :
          Request(sector, writing) => TakesItsTime(sector, writing)
  <2> SUFFICES ASSUME IInv, HeadInv, NEW sector \in Sectors, NEW writing \in BOOLEAN,
                      Request(sector, writing)
               PROVE  TakesItsTime(sector, writing)
    OBVIOUS
  <2>1. ~ active
    BY DEF Request
  <2> DEFINE first == FirstPassage(sector, UsableFrom(sector, writing))
  <2>2. totalTicks + ComputeLatency(sector, writing)
          = (IF first > totalTicks THEN first ELSE totalTicks) + RotationTime
    BY <2>1, LatencyIs
  <2>3. Element("disk", totalTicks + ComputeLatency(sector, writing)) \in Scheduled(pending')
    BY RequestSchedules
  <2>4. Element("disk", (IF first > totalTicks THEN first ELSE totalTicks) + RotationTime)
          \in Scheduled(pending')
    BY <2>2, <2>3
  <2> QED BY <2>4 DEF TakesItsTime, FirstPassage, Passages, UsableFrom, Scheduled
<1> QED BY <1>1, <1>2, <1>3, PTL DEF Spec, RightSector

=============================================================================
