------------------------------ MODULE ListSpec ------------------------------
(***************************************************************************)
(* What the interface of a List promises: a sequence of elements and the   *)
(* value the last Remove or SortedRemove returned.                         *)
(***************************************************************************)
EXTENDS NachosList

CONSTANTS Item, Sortkey, NULL

VARIABLES list, removed

vars == <<list, removed>>

Init == list = <<>> /\ removed = NULL

Insert(newList) == list' = newList /\ UNCHANGED removed

Remove ==
  \/ /\ list = <<>>
     /\ removed' = NULL
     /\ UNCHANGED list
  \/ /\ list # <<>>
     /\ removed' = Head(list)
     /\ list' = Rest(list)

Next ==
  \/ \E x \in Item :
       \/ Insert(AppendItem(list, x))
       \/ Insert(PrependItem(list, x))
       \/ \E k \in Sortkey : Insert(SortedInsert(list, x, k))
  \/ Remove

Spec == Init /\ [][Next]_vars

=============================================================================
