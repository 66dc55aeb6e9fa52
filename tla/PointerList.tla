----------------------------- MODULE PointerList ----------------------------
(***************************************************************************)
(* threads/list.cc as it is written: list elements allocated with new,     *)
(* linked by their next pointers, and the pointers first and last.         *)
(*                                                                         *)
(* A node that has been deleted keeps its fields, and may be allocated     *)
(* again: a pointer to it that the list still used would show.             *)
(***************************************************************************)
EXTENDS NachosList, FiniteSets

CONSTANTS
  Node,           \* the memory for ListElements
  NULL,
  Item, Sortkey   \* what the callers put on the list, and the keys they use

\* The memory is finite.
ASSUME ListAssumption == NULL \notin Node /\ IsFiniteSet(Node) /\ Sortkey \subseteq Int

VARIABLES
  first, last,    \* List::first, List::last
  next, element,  \* next[n] and (item, key) of the ListElement at n
  allocated,      \* the nodes between their new and their delete
  removed         \* what the last Remove returned: an element, or NULL

vars == <<first, last, next, element, allocated, removed>>

\* The type invariant: in particular Remove returns an element or NULL.
TypeOK ==
  /\ first \in Node \cup {NULL} /\ last \in Node \cup {NULL}
  /\ next \in [Node -> Node \cup {NULL}]
  /\ element \in [Node -> [item : Item, key : Sortkey \cup {0}]]
  /\ allocated \subseteq Node
  /\ removed = NULL \/ removed \in Elements(Item)

Init ==
  /\ first = NULL /\ last = NULL
  /\ next = [n \in Node |-> NULL]
  /\ \E e \in [item : Item, key : {0}] : element = [n \in Node |-> e]
  /\ allocated = {}
  /\ removed = NULL

-----------------------------------------------------------------------------

\* The nodes met by following next from first up to NULL.  (The searches of
\* list.cc follow next in this order; on a cyclic list, which WellFormed
\* excludes, there are no such c.)
IsChain(c) ==
  IF first = NULL
  THEN c = <<>>
  ELSE /\ c # <<>> /\ c[1] = first
       /\ \A i \in 1..Len(c) : next[c[i]] = IF i < Len(c) THEN c[i + 1] ELSE NULL

Chains ==
  {c \in UNION {[1..m -> Node] : m \in 0..Cardinality(Node)} : IsChain(c)}

\* The list, as a sequence of nodes.
Chain == CHOOSE c \in Chains : TRUE

IsEmpty == first = NULL

\* new ListElement(x, k), at node n.
New(n, x, k) ==
  /\ n \notin allocated
  /\ allocated' = allocated \cup {n}
  /\ element' = [element EXCEPT ![n] = Element(x, k)]
  /\ UNCHANGED removed

\* The element n is linked in as the only one, before first, after last, or
\* after ptr.
LinkOnly(n)   == first' = n /\ last' = n /\ next' = [next EXCEPT ![n] = NULL]
LinkFirst(n)  == first' = n /\ next' = [next EXCEPT ![n] = first] /\ UNCHANGED last
LinkLast(n)   == last' = n /\ next' = [next EXCEPT ![n] = NULL, ![last] = n] /\ UNCHANGED first
LinkAfter(n, ptr) ==
  next' = [next EXCEPT ![n] = next[ptr], ![ptr] = n] /\ UNCHANGED <<first, last>>

AppendOp(n, x) ==
  /\ New(n, x, 0)
  /\ IF IsEmpty THEN LinkOnly(n) ELSE LinkLast(n)

PrependOp(n, x) ==
  /\ New(n, x, 0)
  /\ IF IsEmpty THEN LinkOnly(n) ELSE LinkFirst(n)

\* Mutant of SortedInsertOp: goes before the elements with the same key.
SortedInsertBeforeEquals(n, x, k) ==
  /\ New(n, x, k)
  /\ CASE IsEmpty -> LinkOnly(n)
       [] ~ IsEmpty /\ k <= element[first].key -> LinkFirst(n)
       [] OTHER -> LinkLast(n)

\* SortedInsert: the loop looks at every element but the first, and stops at
\* the first one that is bigger; ptr is the one before it.
BiggerAfter(k) ==
  LET c == Chain
  IN  {i \in 1..(Len(c) - 1) : next[c[i]] # NULL /\ k < element[next[c[i]]].key}

SortedInsertOp(n, x, k) ==
  /\ New(n, x, k)
  /\ CASE IsEmpty -> LinkOnly(n)
       [] ~ IsEmpty /\ k < element[first].key -> LinkFirst(n)
       [] ~ IsEmpty /\ k >= element[first].key /\ BiggerAfter(k) # {} ->
            LinkAfter(n, Chain[CHOOSE i \in BiggerAfter(k) : \A j \in BiggerAfter(k) : i <= j])
       [] OTHER -> LinkLast(n)

\* Mutant of RemoveOp: last is not reset.
RemoveKeepsLast ==
  /\ ~ IsEmpty
  /\ removed' = element[first]
  /\ first' = next[first]
  /\ allocated' = allocated \ {first}
  /\ UNCHANGED <<last, next, element>>

\* Remove and SortedRemove: unlink and delete the first element.
RemoveOp ==
  \/ /\ IsEmpty
     /\ removed' = NULL
     /\ UNCHANGED <<first, last, next, element, allocated>>
  \/ /\ ~ IsEmpty
     /\ removed' = element[first]
     /\ IF first = last
        THEN first' = NULL /\ last' = NULL
        ELSE first' = next[first] /\ UNCHANGED last
     /\ allocated' = allocated \ {first}
     /\ UNCHANGED <<next, element>>

Next ==
  \/ \E n \in Node, x \in Item :
       \/ AppendOp(n, x)
       \/ PrependOp(n, x)
       \/ \E k \in Sortkey : SortedInsertOp(n, x, k)
  \/ RemoveOp

Spec == Init /\ [][Next]_vars

-----------------------------------------------------------------------------

\* first and last are the ends of one chain of next pointers that reaches every
\* allocated element once and no deleted one: nothing leaks, and no operation
\* will follow a pointer to a deleted element.
WellFormed ==
  /\ TypeOK
  /\ Chains # {}
  /\ first = NULL <=> last = NULL
  /\ {Chain[i] : i \in 1..Len(Chain)} = allocated
  /\ Len(Chain) = Cardinality(allocated)
  /\ last # NULL => Chain[Len(Chain)] = last /\ next[last] = NULL

\* The list that first and the next pointers make.
L == INSTANCE ListSpec WITH list <- [i \in 1..Len(Chain) |-> element[Chain[i]]]

\* The operations do to the chain what ListSpec says of the sequence of
\* elements: SortedInsert puts an element after all those with the same key,
\* Remove returns the first.
ImplementsList == L!Spec

=============================================================================
