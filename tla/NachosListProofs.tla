-------------------------- MODULE NachosListProofs --------------------------
(***************************************************************************)
(* What the list operations return, for lists of any length: the lemmas    *)
(* the proofs about the scheduler and the synchronization queues cite.     *)
(***************************************************************************)
EXTENDS NachosList, WellFoundedInduction, TLAPS

\* A nonempty set of natural numbers has a least element.
LEMMA LeastNat ==
  ASSUME NEW S \in SUBSET Nat, S # {}
  PROVE  \E m \in S : \A n \in S : m <= n
<1> DEFINE R == {ss \in Nat \X Nat : ss[1] < ss[2]}
<1>0. IsWellFoundedOn(R, Nat)
  BY NatLessThanWellFounded, Zenon DEF OpToRel
<1> HIDE DEF R
<1>1. \E m \in S : \A n \in S : ~ (<<n, m>> \in R)
  BY <1>0, WFMin, Zenon
<1>2. PICK m \in S : \A n \in S : ~ (<<n, m>> \in R)
  BY <1>1
<1>3. ASSUME NEW n \in S
      PROVE  m <= n
  <2>1. ~ (<<n, m>> \in R)
    BY <1>2
  <2>2. ~ (n < m)
    BY <2>1 DEF R
  <2> QED BY <2>2
<1> QED BY <1>3

-----------------------------------------------------------------------------

\* The place of the new element: everything before it has a key that is not
\* bigger, and the element it is put before has a bigger one.
LEMMA InsertPlaceProperty ==
  ASSUME NEW I, NEW list \in Seq(Elements(I)), NEW key \in Int
  PROVE  /\ InsertPlace(list, key) \in 1..(Len(list) + 1)
         /\ InsertPlace(list, key) <= Len(list) => key < list[InsertPlace(list, key)].key
         /\ \A i \in 1..Len(list) : i < InsertPlace(list, key) => list[i].key <= key
<1> DEFINE P == Places(list, key)
           p == InsertPlace(list, key)
<1>1. Len(list) \in Nat
  OBVIOUS
<1>2. P \in SUBSET Nat /\ Len(list) + 1 \in P
  BY <1>1 DEF Places
<1>3. \E m \in P : \A n \in P : m <= n
  BY <1>2, LeastNat
<1>4. p \in P /\ \A q \in P : p <= q
  BY <1>3 DEF InsertPlace
<1>5. ASSUME NEW i \in 1..Len(list), i < p
      PROVE  list[i].key <= key
  <2>1. i \notin P
    BY <1>1, <1>2, <1>4, <1>5
  <2>2. ~ (key < list[i].key)
    BY <1>1, <2>1 DEF Places
  <2>3. list[i] \in Elements(I)
    OBVIOUS
  <2>4. list[i].key \in Int
    BY <2>3 DEF Elements
  <2> HIDE DEF p
  <2> QED BY <2>2, <2>4
<1> QED BY <1>4, <1>5 DEF Places

\* Inserting yields a list again.
LEMMA SortedInsertType ==
  ASSUME NEW I, NEW list \in Seq(Elements(I)), NEW item \in I, NEW key \in Int
  PROVE  /\ SortedInsert(list, item, key) \in Seq(Elements(I))
         /\ Len(SortedInsert(list, item, key)) = Len(list) + 1
         /\ SortedInsert(list, item, key) # <<>>
<1> DEFINE p == InsertPlace(list, key)
           n == Len(list)
<1>1. n \in Nat /\ p \in 1..(n + 1)
  BY InsertPlaceProperty
<1>2. ASSUME NEW i \in 1..(n + 1)
      PROVE  (IF i < p THEN list[i] ELSE IF i = p THEN Element(item, key) ELSE list[i - 1])
               \in Elements(I)
  <2> HIDE DEF p
  <2>1. CASE i < p
    BY <1>1, <2>1
  <2>2. CASE i = p
    BY <2>2 DEF Element, Elements
  <2>3. CASE i > p
    BY <1>1, <2>3
  <2> QED BY <1>1, <2>1, <2>2, <2>3
<1>3. SortedInsert(list, item, key) \in [1..(n + 1) -> Elements(I)]
  BY <1>2 DEF SortedInsert
<1> HIDE DEF n
<1>4. SortedInsert(list, item, key) \in Seq(Elements(I))
      /\ Len(SortedInsert(list, item, key)) = n + 1
  BY <1>1, <1>3
<1> QED BY <1>1, <1>4 DEF n

\* Inserting adds the item and keeps the others.
LEMMA SortedInsertItems ==
  ASSUME NEW I, NEW list \in Seq(Elements(I)), NEW item \in I, NEW key \in Int
  PROVE  Items(SortedInsert(list, item, key)) = Items(list) \cup {item}
<1> DEFINE p == InsertPlace(list, key)
           n == Len(list)
           new == SortedInsert(list, item, key)
<1>1. n \in Nat /\ p \in 1..(n + 1) /\ Len(new) = n + 1
  <2>1. n \in Nat
    OBVIOUS
  <2>2. p \in 1..(n + 1)
    BY InsertPlaceProperty
  <2>3. Len(new) = n + 1
    BY SortedInsertType
  <2> QED BY <2>1, <2>2, <2>3
<1>2. \A i \in 1..(n + 1) : new[i] = IF i < p THEN list[i]
                                     ELSE IF i = p THEN Element(item, key) ELSE list[i - 1]
  BY DEF SortedInsert
<1> HIDE DEF p, n, new
<1>3. ASSUME NEW x \in Items(new)
      PROVE  x \in Items(list) \cup {item}
  <2>1. PICK i \in 1..(n + 1) : x = new[i].item
    BY <1>1 DEF Items
  <2>2. CASE i < p
    BY <1>1, <1>2, <2>1, <2>2 DEF Items, n
  <2>3. CASE i = p
    BY <1>2, <2>1, <2>3 DEF Element
  <2>4. CASE i > p
    <3>1. i - 1 \in 1..n /\ x = list[i - 1].item
      BY <1>1, <1>2, <2>1, <2>4
    <3> QED BY <3>1 DEF Items, n
  <2> QED BY <1>1, <2>2, <2>3, <2>4
<1>4. item \in Items(new)
  <2>1. new[p].item = item /\ p \in 1..Len(new)
    BY <1>1, <1>2 DEF Element
  <2> QED BY <2>1 DEF Items
<1>5. ASSUME NEW x \in Items(list)
      PROVE  x \in Items(new)
  <2>1. PICK i \in 1..n : x = list[i].item
    BY DEF Items, n
  <2>2. CASE i < p
    <3>1. i \in 1..Len(new) /\ new[i].item = x
      BY <1>1, <1>2, <2>1, <2>2
    <3> QED BY <3>1 DEF Items
  <2>3. CASE i >= p
    <3>1. i + 1 \in 1..Len(new) /\ new[i + 1].item = x
      BY <1>1, <1>2, <2>1, <2>3
    <3> QED BY <3>1 DEF Items
  <2> QED BY <1>1, <2>2, <2>3
<1> QED BY <1>3, <1>4, <1>5 DEF new

\* Inserting an item that is not on the list makes no duplicate.
LEMMA SortedInsertNoDuplicates ==
  ASSUME NEW I, NEW list \in Seq(Elements(I)), NEW item \in I, NEW key \in Int,
         NoDuplicates(list), item \notin Items(list)
  PROVE  NoDuplicates(SortedInsert(list, item, key))
<1> DEFINE p == InsertPlace(list, key)
           n == Len(list)
           new == SortedInsert(list, item, key)
           Old(i) == IF i < p THEN i ELSE i - 1
<1>1. n \in Nat /\ p \in 1..(n + 1) /\ Len(new) = n + 1
  <2>1. n \in Nat
    OBVIOUS
  <2>2. p \in 1..(n + 1)
    BY InsertPlaceProperty
  <2>3. Len(new) = n + 1
    BY SortedInsertType
  <2> QED BY <2>1, <2>2, <2>3
<1>2. \A i \in 1..(n + 1) : new[i] = IF i < p THEN list[i]
                                     ELSE IF i = p THEN Element(item, key) ELSE list[i - 1]
  BY DEF SortedInsert
<1>3. \A i \in 1..n : list[i].item # item
  BY DEF Items, n
<1>4. \A i, j \in 1..n : list[i].item = list[j].item => i = j
  BY DEF NoDuplicates, n
<1> HIDE DEF p, n, new
<1>5. ASSUME NEW i \in 1..(n + 1), i # p
      PROVE  Old(i) \in 1..n /\ new[i] = list[Old(i)]
  BY <1>1, <1>2, <1>5
<1>6. new[p].item = item
  BY <1>1, <1>2 DEF Element
<1>7. ASSUME NEW i \in 1..(n + 1), NEW j \in 1..(n + 1), new[i].item = new[j].item
      PROVE  i = j
  <2>1. CASE i = p \/ j = p
    BY <1>3, <1>5, <1>6, <1>7, <2>1
  <2>2. CASE i # p /\ j # p
    <3>1. Old(i) = Old(j)
      <4>1. Old(i) \in 1..n /\ Old(j) \in 1..n /\ new[i] = list[Old(i)] /\ new[j] = list[Old(j)]
        BY <1>5, <2>2
      <4> HIDE DEF Old
      <4> QED BY <1>4, <1>7, <4>1
    <3> QED BY <1>1, <2>2, <3>1
  <2> QED BY <2>1, <2>2
<1> QED BY <1>1, <1>7 DEF NoDuplicates, new

\* Inserting keeps the keys in order.
LEMMA SortedInsertSorted ==
  ASSUME NEW I, NEW list \in Seq(Elements(I)), NEW item \in I, NEW key \in Int,
         Sorted(list)
  PROVE  Sorted(SortedInsert(list, item, key))
<1> DEFINE p == InsertPlace(list, key)
           n == Len(list)
           new == SortedInsert(list, item, key)
           k == [i \in 1..n |-> list[i].key]
<1>1. n \in Nat /\ p \in 1..(n + 1) /\ Len(new) = n + 1
  <2>1. n \in Nat
    OBVIOUS
  <2>2. p \in 1..(n + 1)
    BY InsertPlaceProperty
  <2>3. Len(new) = n + 1
    BY SortedInsertType
  <2> QED BY <2>1, <2>2, <2>3
<1>2. \A i \in 1..n : k[i] \in Int /\ k[i] = list[i].key
  <2>1. \A i \in 1..n : list[i] \in Elements(I)
    OBVIOUS
  <2> QED BY <2>1 DEF Elements
<1>3. \A i, j \in 1..n : i < j => k[i] <= k[j]
  BY DEF Sorted
<1>4. (p <= n => key < k[p]) /\ \A i \in 1..n : i < p => k[i] <= key
  <2>1. /\ p <= n => key < list[p].key
        /\ \A i \in 1..n : i < p => list[i].key <= key
    BY InsertPlaceProperty
  <2> HIDE DEF p, k, n
  <2> QED BY <1>1, <1>2, <2>1
<1>5. \A i \in 1..(n + 1) : new[i].key = IF i < p THEN k[i] ELSE IF i = p THEN key ELSE k[i - 1]
  <2>1. \A i \in 1..(n + 1) : new[i] = IF i < p THEN list[i]
                                     ELSE IF i = p THEN Element(item, key) ELSE list[i - 1]
    BY DEF SortedInsert
  <2> HIDE DEF p, k, n, new
  <2> QED BY <1>1, <1>2, <2>1 DEF Element
<1> HIDE DEF p, k, n, new
<1>6. ASSUME NEW i \in 1..(n + 1), NEW j \in 1..(n + 1), i < j
      PROVE  new[i].key <= new[j].key
  <2>1. \A m \in 1..n : p <= m => key < k[m]
    BY <1>1, <1>2, <1>3, <1>4
  <2>2. CASE j < p
    BY <1>1, <1>2, <1>3, <1>5, <1>6, <2>2
  <2>3. CASE j = p
    BY <1>1, <1>2, <1>4, <1>5, <1>6, <2>3
  <2>4. CASE j > p
    <3>1. j - 1 \in 1..n /\ p <= j - 1 /\ new[j].key = k[j - 1] /\ key < k[j - 1]
      BY <1>1, <1>5, <2>1, <2>4
    <3>2. CASE i < p
      BY <1>1, <1>2, <1>3, <1>5, <1>6, <3>1, <3>2
    <3>3. CASE i = p
      BY <1>1, <1>2, <1>5, <3>1, <3>3
    <3>4. CASE i > p
      BY <1>1, <1>2, <1>3, <1>5, <1>6, <3>1, <3>4
    <3> QED BY <1>1, <3>2, <3>3, <3>4
  <2> QED BY <1>1, <2>2, <2>3, <2>4
<1> QED BY <1>1, <1>6 DEF Sorted, new

-----------------------------------------------------------------------------

\* Removing the first element: what is returned, and what is left.
LEMMA RemoveProperties ==
  ASSUME NEW I, NEW list \in Seq(Elements(I)), list # <<>>
  PROVE  /\ First(list) \in I
         /\ First(list) \in Items(list)
         /\ Rest(list) \in Seq(Elements(I))
         /\ Len(Rest(list)) = Len(list) - 1
         /\ \A i \in 1..Len(Rest(list)) : Rest(list)[i] = list[i + 1]
<1>1. Len(list) \in Nat /\ Len(list) >= 1 /\ list[1] \in Elements(I) /\ Head(list) = list[1]
  OBVIOUS
<1>2. First(list) = list[1].item /\ First(list) \in I
  BY <1>1 DEF First, Elements
<1>3. First(list) \in Items(list)
  BY <1>1, <1>2 DEF Items
<1>4. /\ Rest(list) \in Seq(Elements(I))
      /\ Len(Rest(list)) = Len(list) - 1
      /\ \A i \in 1..Len(Rest(list)) : Rest(list)[i] = list[i + 1]
  BY <1>1 DEF Rest
<1> QED BY <1>2, <1>3, <1>4

\* The items left are the others, when no item is on the list twice.
LEMMA RemoveItems ==
  ASSUME NEW I, NEW list \in Seq(Elements(I)), list # <<>>, NoDuplicates(list)
  PROVE  /\ Items(Rest(list)) = Items(list) \ {First(list)}
         /\ NoDuplicates(Rest(list))
<1> DEFINE n == Len(list)
           rest == Rest(list)
<1>1. n \in Nat /\ n >= 1 /\ Len(rest) = n - 1 /\ First(list) = list[1].item
  BY RemoveProperties DEF First
<1>2. \A i \in 1..(n - 1) : rest[i] = list[i + 1]
  BY RemoveProperties, <1>1
<1>3. \A i, j \in 1..n : list[i].item = list[j].item => i = j
  BY DEF NoDuplicates
<1> HIDE DEF n, rest
<1>4. ASSUME NEW x \in Items(rest)
      PROVE  x \in Items(list) \ {First(list)}
  <2>1. PICK i \in 1..(n - 1) : x = rest[i].item
    BY <1>1 DEF Items
  <2>2. i + 1 \in 1..n /\ x = list[i + 1].item /\ i + 1 # 1 /\ 1 \in 1..n
    BY <1>1, <1>2, <2>1
  <2>3. x \in Items(list)
    BY <2>2 DEF Items, n
  <2>4. x # First(list)
    BY <1>1, <1>3, <2>2
  <2> QED BY <2>3, <2>4
<1>5. ASSUME NEW x \in Items(list) \ {First(list)}
      PROVE  x \in Items(rest)
  <2>1. PICK i \in 1..n : x = list[i].item
    BY DEF Items, n
  <2>2. i # 1
    BY <1>1, <2>1
  <2>3. i - 1 \in 1..(n - 1) /\ rest[i - 1] = list[i]
    BY <1>1, <1>2, <2>2
  <2> QED BY <1>1, <2>1, <2>3 DEF Items
<1>6. NoDuplicates(rest)
  <2>1. \A i, j \in 1..(n - 1) : rest[i].item = rest[j].item => i + 1 = j + 1
    BY <1>1, <1>2, <1>3
  <2> QED BY <1>1, <2>1 DEF NoDuplicates
<1> QED BY <1>4, <1>5, <1>6 DEF rest

\* The keys left are still in order.
LEMMA RemoveSorted ==
  ASSUME NEW I, NEW list \in Seq(Elements(I)), list # <<>>, Sorted(list)
  PROVE  Sorted(Rest(list))
<1>1. Len(list) \in Nat /\ Len(Rest(list)) = Len(list) - 1
  BY RemoveProperties
<1>2. \A i \in 1..Len(Rest(list)) : Rest(list)[i] = list[i + 1]
  BY RemoveProperties
<1>3. \A i, j \in 1..Len(list) : i < j => list[i].key <= list[j].key
  BY DEF Sorted
<1> QED BY <1>1, <1>2, <1>3 DEF Sorted
=============================================================================
