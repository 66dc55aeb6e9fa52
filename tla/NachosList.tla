----------------------------- MODULE NachosList -----------------------------
(***************************************************************************)
(* The lists of threads/list.cc, as sequences of elements [item, key].     *)
(*                                                                         *)
(* Every queue of the kernel is one of these lists: the ready list, the    *)
(* queue of a semaphore, lock or condition, the list of pending            *)
(* interrupts.  This module says what an operation does to the sequence of *)
(* elements; PointerList checks that the pointer manipulations of list.cc  *)
(* do just that.                                                           *)
(***************************************************************************)
EXTENDS Integers, Sequences

\* A ListElement; its "next" pointer is its place in the sequence.
Element(item, key) == [item |-> item, key |-> key]

\* The elements of a list whose items are from I.
Elements(I) == [item : I, key : Int]

\* The items on a list.
Items(list) == {list[i].item : i \in 1..Len(list)}

\* The places at which an element is inserted by a search for "the first
\* element with a bigger key": before such an element, or at the end.
Places(list, key) ==
  {p \in 1..(Len(list) + 1) : p <= Len(list) => key < list[p].key}

\* List::SortedInsert puts the new element before the first bigger one, hence
\* after every element that has the same key.
InsertPlace(list, key) ==
  CHOOSE p \in Places(list, key) : \A q \in Places(list, key) : p <= q

SortedInsert(list, item, key) ==
  LET p == InsertPlace(list, key)
  IN  [i \in 1..(Len(list) + 1) |->
         IF i < p THEN list[i] ELSE IF i = p THEN Element(item, key) ELSE list[i - 1]]

\* List::Append and List::Prepend give the element the key 0.
AppendItem(list, item)  == Append(list, Element(item, 0))
PrependItem(list, item) == <<Element(item, 0)>> \o list

\* List::Remove and List::SortedRemove unlink the first element: First is what
\* they return (meaningless on an empty list), Rest what they leave.
First(list) == Head(list).item
Rest(list)  == IF list = <<>> THEN list ELSE Tail(list)

-----------------------------------------------------------------------------

\* What is on the list, in increasing order of keys.
Sorted(list) == \A i, j \in 1..Len(list) : i < j => list[i].key <= list[j].key

\* No item is on the list twice.
NoDuplicates(list) ==
  \A i, j \in 1..Len(list) : list[i].item = list[j].item => i = j

=============================================================================
