-------------------------- MODULE PointerListProofs -------------------------
(***************************************************************************)
(* The pointers of list.cc always make a list (WellFormed), and its        *)
(* operations do to that list what the sequences of NachosList do, so that *)
(* every queue of the kernel may be taken for a sequence (ImplementsList). *)
(*                                                                         *)
(* The argument: there is a sequence c of nodes that is the chain of next  *)
(* pointers from first, holds each allocated node once and ends in last.   *)
(* An insertion links the new node in at a place p of c, a removal takes   *)
(* the first node off c; and there is only one chain.                      *)
(***************************************************************************)
EXTENDS PointerList, NachosListProofs, FiniteSetTheorems

\* c is the list: its nodes are the allocated ones, once each, and last is the
\* last of them.
IsList(c) ==
  /\ c \in Seq(Node)
  /\ IsChain(c)
  /\ \A i, j \in 1..Len(c) : c[i] = c[j] => i = j
  /\ {c[i] : i \in 1..Len(c)} = allocated
  /\ IF c = <<>> THEN last = NULL ELSE last = c[Len(c)]

\* The inductive invariant.
ListInv == TypeOK /\ \E c \in Seq(Node) : IsList(c)

\* The only chain is the list.
OnlyChain == \A c \in Seq(Node) : IsList(c) => c \in Chains /\ Chain = c

\* s with x at place p, and what was there after it.
PutAt(s, p, x) ==
  [i \in 1..(Len(s) + 1) |-> IF i < p THEN s[i] ELSE IF i = p THEN x ELSE s[i - 1]]

-----------------------------------------------------------------------------

\* Two chains agree: a first place at which they differ is not the first of the
\* list, and those before it have one next node.
LEMMA ChainsAgree ==
  ASSUME NEW c \in Seq(Node), NEW d \in Seq(Node), IsChain(c), IsChain(d), Len(c) <= Len(d)
  PROVE  c = d
<1>0. NULL \notin Node
  BY ListAssumption
<1>1. Len(c) \in Nat /\ Len(d) \in Nat
        /\ (\A i \in 1..Len(c) : c[i] \in Node) /\ (\A i \in 1..Len(d) : d[i] \in Node)
  OBVIOUS
<1>2. CASE first = NULL
  BY <1>2 DEF IsChain
<1>3. CASE first # NULL
  <2>1. /\ c # <<>> /\ c[1] = first /\ d # <<>> /\ d[1] = first
        /\ \A i \in 1..Len(c) : next[c[i]] = IF i < Len(c) THEN c[i + 1] ELSE NULL
        /\ \A i \in 1..Len(d) : next[d[i]] = IF i < Len(d) THEN d[i + 1] ELSE NULL
    BY <1>3 DEF IsChain
  <2>2. Len(c) >= 1
    BY <2>1
  <2> DEFINE Differ == {i \in 1..Len(c) : c[i] # d[i]}
  <2>3. Differ = {}
    <3> SUFFICES ASSUME Differ # {} PROVE FALSE
      OBVIOUS
    <3>1. PICK m \in Differ : \A i \in Differ : m <= i
      <4>1. Differ \in SUBSET Nat
        BY <1>1
      <4> QED BY <4>1, LeastNat
    <3>2. m \in 2..Len(c) /\ c[m] # d[m]
      BY <1>1, <2>1, <3>1
    <3>3. m - 1 \in 1..Len(c) /\ m - 1 < m /\ m - 1 < Len(c) /\ m - 1 < Len(d)
          /\ m - 1 \in 1..Len(d) /\ (m - 1) + 1 = m
      BY <1>1, <3>2
    <3>4. c[m - 1] = d[m - 1]
      BY <1>1, <3>1, <3>3
    <3>5. next[c[m - 1]] = c[m] /\ next[d[m - 1]] = d[m]
      BY <2>1, <3>3
    <3> QED BY <3>2, <3>4, <3>5
  <2>4. Len(c) = Len(d)
    <3> SUFFICES ASSUME Len(c) < Len(d) PROVE FALSE
      BY <1>1
    <3>1. Len(c) \in 1..Len(c) /\ Len(c) \in 1..Len(d) /\ Len(c) + 1 \in 1..Len(d)
      BY <1>1, <2>2
    <3>2. c[Len(c)] = d[Len(c)]
      BY <2>3, <3>1
    <3>3. next[c[Len(c)]] = NULL /\ next[d[Len(c)]] = d[Len(c) + 1]
      BY <1>1, <2>1, <3>1
    <3>4. d[Len(c) + 1] \in Node
      BY <1>1, <3>1
    <3> QED BY <1>0, <3>2, <3>3, <3>4
  <2> QED BY <2>3, <2>4
<1> QED BY <1>2, <1>3

\* What has each allocated node once is not longer than the memory, and as long
\* as the number of allocated nodes.
LEMMA ListLength ==
  ASSUME NEW c \in Seq(Node), IsList(c)
  PROVE  /\ Len(c) = Cardinality(allocated)
         /\ Len(c) \in 0..Cardinality(Node)
<1> DEFINE f == [i \in 1..Len(c) |-> c[i]]
<1>1. Len(c) \in Nat /\ \A i \in 1..Len(c) : c[i] \in Node
  OBVIOUS
<1>2. f \in Bijection(1..Len(c), allocated)
  <2>1. /\ \A i, j \in 1..Len(c) : c[i] = c[j] => i = j
        /\ {c[i] : i \in 1..Len(c)} = allocated
    BY DEF IsList
  <2>2. f \in [1..Len(c) -> allocated]
    BY <2>1
  <2>3. f \in Injection(1..Len(c), allocated)
    BY <2>1, <2>2 DEF Injection, IsInjective
  <2>4. f \in Surjection(1..Len(c), allocated)
    BY <2>1, <2>2 DEF Surjection
  <2> QED BY <2>3, <2>4 DEF Bijection
<1>3. Len(c) = Cardinality(allocated)
  <2>1. ExistsBijection(1..Len(c), allocated)
    BY <1>2 DEF ExistsBijection
  <2> QED BY <1>1, <2>1, FS_CountingElements
<1>4. Cardinality(allocated) <= Cardinality(Node) /\ Cardinality(Node) \in Nat
  <2>1. allocated \in SUBSET Node
    BY <1>1 DEF IsList
  <2> QED BY <2>1, ListAssumption, FS_Subset, FS_CardinalityType
<1> QED BY <1>1, <1>3, <1>4

LEMMA ListIsOnlyChain == OnlyChain
<1> SUFFICES ASSUME NEW c \in Seq(Node), IsList(c)
             PROVE  c \in Chains /\ Chain = c
  BY DEF OnlyChain
<1> DEFINE Bounded == UNION {[1..m -> Node] : m \in 0..Cardinality(Node)}
<1>0. Cardinality(Node) \in Nat
  BY ListAssumption, FS_CardinalityType
<1>1. Bounded \subseteq Seq(Node)
  BY <1>0
<1>2. c \in Bounded
  <2>1. Len(c) \in 0..Cardinality(Node) /\ c \in [1..Len(c) -> Node]
    BY ListLength
  <2> QED BY <2>1
<1>3. IsChain(c)
  BY DEF IsList
<1>4. c \in Chains
  BY <1>2, <1>3 DEF Chains
<1>5. ASSUME NEW d \in Chains
      PROVE  d = c
  <2>1. d \in Seq(Node) /\ IsChain(d)
    BY <1>1 DEF Chains
  <2>2. Len(c) \in Nat /\ Len(d) \in Nat
    BY <2>1
  <2>3. CASE Len(c) <= Len(d)
    BY <1>3, <2>1, <2>3, ChainsAgree
  <2>4. CASE Len(d) <= Len(c)
    BY <1>3, <2>1, <2>4, ChainsAgree
  <2> QED BY <2>2, <2>3, <2>4
<1>6. Chain \in Chains
  BY <1>4 DEF Chain
<1> QED BY <1>4, <1>5, <1>6

\* The invariant has all that WellFormed says.
LEMMA ListIsWellFormed == ListInv => WellFormed
<1> SUFFICES ASSUME ListInv PROVE WellFormed
  OBVIOUS
<1>1. PICK c \in Seq(Node) : IsList(c)
  BY DEF ListInv
<1>2. c \in Chains /\ Chain = c
  BY <1>1, ListIsOnlyChain DEF OnlyChain
<1>3. Len(c) = Cardinality(allocated)
  BY <1>1, ListLength
<1>4. NULL \notin Node /\ Len(c) \in Nat /\ (c # <<>> => Len(c) \in 1..Len(c) /\ c[Len(c)] \in Node)
  BY ListAssumption
<1>5. first = NULL <=> c = <<>>
  BY <1>1 DEF IsList, IsChain
<1>6. last = NULL <=> c = <<>>
  BY <1>1, <1>4 DEF IsList
<1>7. c # <<>> => c[Len(c)] = last /\ next[last] = NULL
  <2>1. c # <<>> => next[c[Len(c)]] = NULL
    BY <1>1, <1>4, <1>5 DEF IsList, IsChain
  <2> QED BY <1>1, <2>1 DEF IsList
<1>8. {c[i] : i \in 1..Len(c)} = allocated
  BY <1>1 DEF IsList
<1>9. TypeOK
  BY DEF ListInv
<1> HIDE DEF ListInv
<1> QED BY <1>2, <1>3, <1>5, <1>6, <1>7, <1>8, <1>9 DEF WellFormed

-----------------------------------------------------------------------------

\* What the four ways of linking a new element do: it is at place p of c.
Linked(c, n, p) ==
  \/ c = <<>> /\ p = 1 /\ LinkOnly(n)
  \/ c # <<>> /\ p = 1 /\ LinkFirst(n)
  \/ c # <<>> /\ p = Len(c) + 1 /\ LinkLast(n)
  \/ p \in 2..Len(c) /\ LinkAfter(n, c[p - 1])

LEMMA PutAtIsSeq ==
  ASSUME NEW c \in Seq(Node), NEW n \in Node, NEW p \in 1..(Len(c) + 1)
  PROVE  /\ PutAt(c, p, n) \in Seq(Node)
         /\ Len(PutAt(c, p, n)) = Len(c) + 1
         /\ PutAt(c, p, n) # <<>>
         /\ \A i \in 1..(Len(c) + 1) :
              PutAt(c, p, n)[i] = IF i < p THEN c[i] ELSE IF i = p THEN n ELSE c[i - 1]
<1> DEFINE d == PutAt(c, p, n)
           len == Len(c)
<1>1. len \in Nat /\ p \in 1..(len + 1) /\ \A i \in 1..len : c[i] \in Node
  OBVIOUS
<1>2. \A i \in 1..(len + 1) : d[i] = IF i < p THEN c[i] ELSE IF i = p THEN n ELSE c[i - 1]
  BY DEF PutAt
<1>3. d = [i \in 1..(len + 1) |-> d[i]]
  BY DEF PutAt
<1> HIDE DEF d, len
<1>4. ASSUME NEW i \in 1..(len + 1)
      PROVE  d[i] \in Node
  <2>1. i < p => i \in 1..len
    BY <1>1
  <2>2. i > p => i - 1 \in 1..len
    BY <1>1
  <2> QED BY <1>1, <1>2, <2>1, <2>2
<1>5. d \in [1..(len + 1) -> Node]
  BY <1>3, <1>4
<1>6. d \in Seq(Node) /\ Len(d) = len + 1
  BY <1>1, <1>5
<1>7. d # <<>>
  BY <1>1, <1>6
<1> QED BY <1>2, <1>6, <1>7 DEF d, len

\* Linking a free node in makes a list of the list.
LEMMA LinkedIsList ==
  ASSUME TypeOK, NEW c \in Seq(Node), IsList(c), NEW n \in Node, n \notin allocated,
         allocated' = allocated \cup {n}, NEW p \in 1..(Len(c) + 1), Linked(c, n, p)
  PROVE  IsList(PutAt(c, p, n))'
<1> DEFINE d == PutAt(c, p, n)
           len == Len(c)
<1>1. /\ len \in Nat /\ p \in 1..(len + 1)
      /\ \A i \in 1..len : c[i] \in Node /\ c[i] # n
  BY DEF IsList
<1>2. /\ d \in Seq(Node) /\ Len(d) = len + 1 /\ d # <<>>
      /\ \A i \in 1..(len + 1) : d[i] = IF i < p THEN c[i] ELSE IF i = p THEN n ELSE c[i - 1]
  BY PutAtIsSeq
<1>3. /\ \A i, j \in 1..len : c[i] = c[j] => i = j
      /\ {c[i] : i \in 1..len} = allocated
      /\ first = NULL <=> len = 0
      /\ len # 0 => c[1] = first /\ last = c[len]
      /\ \A i \in 1..len : next[c[i]] = IF i < len THEN c[i + 1] ELSE NULL
  <2>1. c = <<>> <=> len = 0
    OBVIOUS
  <2> QED BY <2>1 DEF IsList, IsChain
<1>4. next \in [Node -> Node \cup {NULL}] /\ NULL \notin Node
  BY ListAssumption DEF TypeOK
<1>5. c = <<>> <=> len = 0
  OBVIOUS
<1>6. /\ first' = d[1] /\ last' = d[len + 1]
      /\ \A i \in 1..(len + 1) : next'[d[i]] = IF i < len + 1 THEN d[i + 1] ELSE NULL
  <2> HIDE DEF d, len
  <2>1. CASE c = <<>> /\ p = 1 /\ LinkOnly(n)
    <3>1. len = 0 /\ d[1] = n /\ first' = n /\ last' = n /\ next'[n] = NULL
      BY <1>2, <1>4, <1>5, <2>1 DEF LinkOnly
    <3> QED BY <3>1
  <2>2. CASE c # <<>> /\ p = 1 /\ LinkFirst(n)
    <3>1. len # 0 /\ first' = n /\ last' = last /\ next' = [next EXCEPT ![n] = first]
      BY <1>5, <2>2 DEF LinkFirst
    <3>2. d[1] = n /\ \A i \in 2..(len + 1) : d[i] = c[i - 1] /\ i - 1 \in 1..len
      BY <1>1, <1>2, <2>2
    <3>3. ASSUME NEW i \in 1..(len + 1)
          PROVE  next'[d[i]] = IF i < len + 1 THEN d[i + 1] ELSE NULL
      <4>1. CASE i = 1
        BY <1>1, <1>3, <1>4, <3>1, <3>2, <4>1
      <4>2. CASE i > 1
        <5>1. i \in 2..(len + 1) /\ i - 1 \in 1..len /\ d[i] = c[i - 1]
          BY <1>1, <3>2, <4>2
        <5>2. next'[d[i]] = next[c[i - 1]]
          BY <1>1, <1>4, <3>1, <5>1
        <5>3. i < len + 1 => d[i + 1] = c[(i - 1) + 1]
          BY <1>1, <3>2, <5>1
        <5> QED BY <1>1, <1>3, <5>1, <5>2, <5>3
      <4> QED BY <1>1, <4>1, <4>2
    <3>4. d[len + 1] = last
      BY <1>1, <1>3, <3>1, <3>2
    <3> QED BY <3>1, <3>2, <3>3, <3>4
  <2>3. CASE c # <<>> /\ p = len + 1 /\ LinkLast(n)
    <3>1. /\ len # 0 /\ first' = first /\ last' = n
          /\ next' = [next EXCEPT ![n] = NULL, ![last] = n]
      BY <1>5, <2>3 DEF LinkLast
    <3>2. d[len + 1] = n /\ \A i \in 1..len : d[i] = c[i]
      BY <1>1, <1>2, <2>3
    <3>3. last = c[len] /\ last \in Node /\ last # n /\ len \in 1..len
      BY <1>1, <1>3, <3>1
    <3>4. ASSUME NEW i \in 1..(len + 1)
          PROVE  next'[d[i]] = IF i < len + 1 THEN d[i + 1] ELSE NULL
      <4>1. CASE i = len + 1
        BY <1>1, <1>4, <3>1, <3>2, <3>3, <4>1
      <4>2. CASE i = len
        BY <1>1, <1>4, <3>1, <3>2, <3>3, <4>2
      <4>3. CASE i < len
        <5>1. i \in 1..len /\ c[i] # c[len] /\ i + 1 \in 1..len
          BY <1>1, <1>3, <3>3, <4>3
        <5>2. next'[d[i]] = next[c[i]]
          BY <1>1, <1>4, <3>1, <3>2, <3>3, <5>1
        <5> QED BY <1>1, <1>3, <3>2, <4>3, <5>1, <5>2
      <4> QED BY <1>1, <4>1, <4>2, <4>3
    <3>5. d[1] = first
      BY <1>1, <1>3, <3>1, <3>2
    <3> QED BY <3>1, <3>2, <3>4, <3>5
  <2>4. CASE p \in 2..len /\ LinkAfter(n, c[p - 1])
    <3> DEFINE ptr == c[p - 1]
    <3>1. /\ p - 1 \in 1..len /\ p \in 1..len /\ ptr \in Node /\ ptr # n
          /\ first' = first /\ last' = last
          /\ next' = [next EXCEPT ![n] = next[ptr], ![ptr] = n]
      BY <1>1, <2>4 DEF LinkAfter
    <3>2. next[ptr] = c[p]
      BY <1>1, <1>3, <2>4, <3>1
    <3>3. ASSUME NEW i \in 1..(len + 1)
          PROVE  next'[d[i]] = IF i < len + 1 THEN d[i + 1] ELSE NULL
      <4>1. CASE i < p - 1
        <5>1. i \in 1..len /\ i + 1 \in 1..len /\ i < len /\ i + 1 < p
          BY <1>1, <2>4, <4>1
        <5>2. d[i] = c[i] /\ d[i + 1] = c[i + 1] /\ c[i] # ptr
          <6>1. i < p /\ i + 1 \in 1..(len + 1) /\ i # p - 1
            BY <1>1, <4>1, <5>1
          <6>2. d[i] = c[i] /\ d[i + 1] = c[i + 1]
            BY <1>2, <5>1, <6>1
          <6> QED BY <1>3, <3>1, <5>1, <6>1, <6>2
        <5>3. next'[d[i]] = next[c[i]]
          BY <1>1, <1>4, <3>1, <5>1, <5>2
        <5> QED BY <1>1, <1>3, <5>1, <5>2, <5>3
      <4>2. CASE i = p - 1
        <5>1. d[i] = ptr /\ d[i + 1] = n
          BY <1>1, <1>2, <2>4, <3>1, <4>2
        <5> QED BY <1>1, <1>4, <2>4, <3>1, <4>2, <5>1
      <4>3. CASE i = p
        <5>1. d[i] = n /\ d[i + 1] = c[p]
          <6>1. i + 1 \in 1..(len + 1) /\ ~ (i + 1 < p) /\ i + 1 # p /\ (i + 1) - 1 = p
            BY <1>1, <3>1, <4>3
          <6> QED BY <1>2, <4>3, <6>1
        <5> QED BY <1>1, <1>4, <2>4, <3>1, <3>2, <4>3, <5>1
      <4>4. CASE i > p
        <5>1. i - 1 \in 1..len /\ d[i] = c[i - 1] /\ c[i - 1] # ptr
          BY <1>1, <1>2, <1>3, <2>4, <3>1, <4>4
        <5>2. next'[d[i]] = next[c[i - 1]]
          BY <1>1, <1>4, <3>1, <5>1
        <5>3. i < len + 1 => d[i + 1] = c[(i - 1) + 1]
          BY <1>1, <1>2, <4>4
        <5> QED BY <1>1, <1>3, <5>1, <5>2, <5>3
      <4> QED BY <1>1, <3>1, <4>1, <4>2, <4>3, <4>4
    <3>4. d[1] = first /\ d[len + 1] = last
      <4>1. /\ len # 0 /\ 1 \in 1..(len + 1) /\ 1 < p
            /\ len + 1 \in 1..(len + 1) /\ len + 1 > p /\ (len + 1) - 1 = len
        BY <1>1, <2>4, <3>1
      <4>2. d[1] = c[1] /\ d[len + 1] = c[len]
        BY <1>2, <4>1
      <4> QED BY <1>3, <4>1, <4>2
    <3> QED BY <3>1, <3>3, <3>4
  <2> QED BY <2>1, <2>2, <2>3, <2>4 DEF Linked, len
<1> HIDE DEF d, len
<1>7. \A i, j \in 1..(len + 1) : d[i] = d[j] => i = j
  <2> SUFFICES ASSUME NEW i \in 1..(len + 1), NEW j \in 1..(len + 1), d[i] = d[j]
               PROVE  i = j
    OBVIOUS
  <2>1. ASSUME NEW k \in 1..(len + 1)
        PROVE  \/ k < p /\ k \in 1..len /\ d[k] = c[k]
               \/ k = p /\ d[k] = n
               \/ k > p /\ k - 1 \in 1..len /\ d[k] = c[k - 1]
    BY <1>1, <1>2
  <2>2. CASE i = p
    BY <1>1, <2>1, <2>2
  <2>3. CASE j = p
    BY <1>1, <2>1, <2>3
  <2>4. CASE i < p /\ j < p
    <3>1. i \in 1..len /\ j \in 1..len /\ c[i] = c[j]
      BY <1>1, <2>1, <2>4
    <3> QED BY <1>3, <3>1
  <2>5. CASE i < p /\ j > p
    BY <1>1, <1>3, <2>1, <2>5
  <2>6. CASE i > p /\ j < p
    BY <1>1, <1>3, <2>1, <2>6
  <2>7. CASE i > p /\ j > p
    <3>1. i - 1 \in 1..len /\ j - 1 \in 1..len /\ c[i - 1] = c[j - 1]
      BY <1>1, <2>1, <2>7
    <3>2. i - 1 = j - 1
      BY <1>3, <3>1
    <3> QED BY <3>2
  <2>8. i \in Int /\ j \in Int /\ p \in Int
    BY <1>1
  <2> QED BY <2>2, <2>3, <2>4, <2>5, <2>6, <2>7, <2>8
<1>8. {d[i] : i \in 1..(len + 1)} = allocated'
  <2>1. ASSUME NEW i \in 1..(len + 1)
        PROVE  d[i] \in allocated \cup {n}
    <3>1. i < p => i \in 1..len
      BY <1>1
    <3>2. i > p => i - 1 \in 1..len
      BY <1>1
    <3> QED BY <1>1, <1>2, <1>3, <3>1, <3>2
  <2>2. ASSUME NEW m \in allocated
        PROVE  \E i \in 1..(len + 1) : d[i] = m
    <3>1. PICK i \in 1..len : c[i] = m
      BY <1>3
    <3>2. CASE i < p
      <4>1. i \in 1..(len + 1) /\ d[i] = m
        BY <1>1, <1>2, <3>1, <3>2
      <4> QED BY <4>1
    <3>3. CASE i >= p
      <4>1. i + 1 \in 1..(len + 1) /\ d[i + 1] = m
        BY <1>1, <1>2, <3>1, <3>3
      <4> QED BY <4>1
    <3> QED BY <1>1, <3>2, <3>3
  <2>3. p \in 1..(len + 1) /\ d[p] = n
    BY <1>1, <1>2
  <2>4. allocated' = allocated \cup {n}
    OBVIOUS
  <2> QED BY <2>1, <2>2, <2>3, <2>4
<1>9. d[1] \in Node /\ first' # NULL
  BY <1>1, <1>2, <1>4, <1>6
<1>10. IsChain(d)'
  BY <1>2, <1>6, <1>9 DEF IsChain
<1>11. IsList(d)'
  BY <1>2, <1>6, <1>7, <1>8, <1>10 DEF IsList
<1> QED BY <1>11 DEF d

-----------------------------------------------------------------------------

\* The elements at the nodes c.
ElementsAt(c) == [i \in 1..Len(c) |-> element[c[i]]]

\* What a step does: c becomes d, and the elements elements at d.
Becomes(d, elements) ==
  /\ d \in Seq(Node)
  /\ IsList(d)'
  /\ ElementsAt(d)' = elements

\* The elements are sequences that NachosList speaks of.
LEMMA ElementsAtIsList ==
  ASSUME TypeOK, NEW c \in Seq(Node)
  PROVE  /\ ElementsAt(c) \in Seq(Elements(Item))
         /\ Len(ElementsAt(c)) = Len(c)
         /\ \A i \in 1..Len(c) : ElementsAt(c)[i] = element[c[i]]
<1>1. Len(c) \in Nat /\ \A i \in 1..Len(c) : c[i] \in Node
  OBVIOUS
<1>2. ASSUME NEW n \in Node
      PROVE  element[n] \in Elements(Item)
  <2>1. element[n] \in [item : Item, key : Sortkey \cup {0}]
    BY DEF TypeOK
  <2>2. Sortkey \cup {0} \subseteq Int
    BY ListAssumption
  <2> QED BY <2>1, <2>2 DEF Elements
<1>3. ElementsAt(c) \in [1..Len(c) -> Elements(Item)]
  BY <1>1, <1>2 DEF ElementsAt
<1> QED BY <1>1, <1>3 DEF ElementsAt

\* A new element at place p of the list.
LEMMA NewAtPlace ==
  ASSUME TypeOK, NEW c \in Seq(Node), IsList(c), NEW n \in Node, NEW x \in Item, NEW k \in Int,
         New(n, x, k), NEW p \in 1..(Len(c) + 1), Linked(c, n, p)
  PROVE  Becomes(PutAt(c, p, n), PutAt(ElementsAt(c), p, Element(x, k)))
<1> DEFINE d == PutAt(c, p, n)
           len == Len(c)
<1>1. /\ n \notin allocated /\ allocated' = allocated \cup {n}
      /\ element' = [element EXCEPT ![n] = Element(x, k)]
  BY DEF New
<1>2. /\ d \in Seq(Node) /\ Len(d) = len + 1
      /\ \A i \in 1..(len + 1) : d[i] = IF i < p THEN c[i] ELSE IF i = p THEN n ELSE c[i - 1]
  BY PutAtIsSeq
<1>3. IsList(d)'
  BY <1>1, LinkedIsList
<1>4. /\ len \in Nat /\ p \in 1..(len + 1)
      /\ \A i \in 1..len : c[i] \in Node /\ c[i] # n
  BY <1>1 DEF IsList
<1>5. \A i \in 1..len : ElementsAt(c)[i] = element[c[i]]
  BY ElementsAtIsList
<1>6. element \in [Node -> [item : Item, key : Sortkey \cup {0}]]
  BY DEF TypeOK
<1> HIDE DEF d, len
<1>7. ASSUME NEW i \in 1..(len + 1)
      PROVE  element'[d[i]] = IF i < p THEN ElementsAt(c)[i]
                              ELSE IF i = p THEN Element(x, k) ELSE ElementsAt(c)[i - 1]
  <2>1. CASE i < p
    <3>1. i \in 1..len /\ d[i] = c[i]
      BY <1>2, <1>4, <2>1
    <3> QED BY <1>1, <1>4, <1>5, <1>6, <2>1, <3>1
  <2>2. CASE i = p
    <3>1. d[i] = n
      BY <1>2, <2>2
    <3> QED BY <1>1, <1>4, <1>6, <2>2, <3>1
  <2>3. CASE i > p
    <3>1. i - 1 \in 1..len /\ d[i] = c[i - 1]
      BY <1>2, <1>4, <2>3
    <3> QED BY <1>1, <1>4, <1>5, <1>6, <2>3, <3>1
  <2> QED BY <1>4, <2>1, <2>2, <2>3
<1>8. ElementsAt(d)' = PutAt(ElementsAt(c), p, Element(x, k))
  <2>1. ElementsAt(d)' = [i \in 1..(len + 1) |-> element'[d[i]]]
    BY <1>2 DEF ElementsAt
  <2>2. Len(ElementsAt(c)) = len
    BY ElementsAtIsList DEF len
  <2> QED BY <1>7, <2>1, <2>2 DEF PutAt
<1>9. Becomes(d, PutAt(ElementsAt(c), p, Element(x, k)))
  BY <1>2, <1>3, <1>8 DEF Becomes
<1> QED BY <1>9 DEF d, len

\* List::Append appends.
LEMMA AppendAppends ==
  ASSUME TypeOK, NEW c \in Seq(Node), IsList(c), NEW n \in Node, NEW x \in Item,
         AppendOp(n, x)
  PROVE  \E d \in Seq(Node) : Becomes(d, AppendItem(ElementsAt(c), x))
<1> DEFINE p == Len(c) + 1
           e == ElementsAt(c)
<1>1. Len(c) \in Nat /\ p \in 1..(Len(c) + 1) /\ (c = <<>> => p = 1)
  OBVIOUS
<1>2. first = NULL <=> c = <<>>
  BY ListAssumption DEF IsList, IsChain
<1>3. New(n, x, 0) /\ Linked(c, n, p)
  BY <1>1, <1>2 DEF AppendOp, IsEmpty, Linked
<1>4. Becomes(PutAt(c, p, n), PutAt(e, p, Element(x, 0)))
  BY <1>1, <1>3, NewAtPlace
<1>5. e \in Seq(Elements(Item)) /\ Len(e) = Len(c)
  BY ElementsAtIsList
<1>6. AppendItem(e, x) = PutAt(e, p, Element(x, 0))
  <2> HIDE DEF e
  <2>1. Element(x, 0) \in Elements(Item)
    BY DEF Element, Elements
  <2> DEFINE new == AppendItem(e, x)
  <2>2. new \in Seq(Elements(Item)) /\ Len(new) = Len(e) + 1
    BY <1>5, <2>1 DEF AppendItem
  <2>3. ASSUME NEW i \in 1..(Len(e) + 1)
        PROVE  new[i] = IF i <= Len(e) THEN e[i] ELSE Element(x, 0)
    BY <1>1, <1>5, <2>1 DEF AppendItem
  <2> HIDE DEF new
  <2>4. new = [i \in 1..(Len(e) + 1) |-> new[i]]
    BY <2>2
  <2>5. ASSUME NEW i \in 1..(Len(e) + 1)
        PROVE  new[i] = IF i < p THEN e[i] ELSE IF i = p THEN Element(x, 0) ELSE e[i - 1]
    BY <1>1, <1>5, <2>3
  <2>6. new = PutAt(e, p, Element(x, 0))
    BY <2>4, <2>5 DEF PutAt
  <2> QED BY <2>6 DEF new
<1> QED BY <1>1, <1>4, <1>6, PutAtIsSeq

\* List::Prepend prepends.
LEMMA PrependPrepends ==
  ASSUME TypeOK, NEW c \in Seq(Node), IsList(c), NEW n \in Node, NEW x \in Item,
         PrependOp(n, x)
  PROVE  \E d \in Seq(Node) : Becomes(d, PrependItem(ElementsAt(c), x))
<1> DEFINE e == ElementsAt(c)
<1>1. Len(c) \in Nat /\ 1 \in 1..(Len(c) + 1)
  OBVIOUS
<1>2. first = NULL <=> c = <<>>
  BY ListAssumption DEF IsList, IsChain
<1>3. New(n, x, 0) /\ Linked(c, n, 1)
  BY <1>1, <1>2 DEF PrependOp, IsEmpty, Linked
<1>4. Becomes(PutAt(c, 1, n), PutAt(e, 1, Element(x, 0)))
  BY <1>1, <1>3, NewAtPlace
<1>5. e \in Seq(Elements(Item)) /\ Len(e) = Len(c)
  BY ElementsAtIsList
<1>6. PrependItem(e, x) = PutAt(e, 1, Element(x, 0))
  <2> HIDE DEF e
  <2>1. Element(x, 0) \in Elements(Item)
    BY DEF Element, Elements
  <2> DEFINE new == PrependItem(e, x)
  <2>2. new \in Seq(Elements(Item)) /\ Len(new) = Len(e) + 1
    BY <1>5, <2>1 DEF PrependItem
  <2>3. ASSUME NEW i \in 1..(Len(e) + 1)
        PROVE  new[i] = IF i = 1 THEN Element(x, 0) ELSE e[i - 1]
    BY <1>1, <1>5, <2>1 DEF PrependItem
  <2> HIDE DEF new
  <2>4. new = [i \in 1..(Len(e) + 1) |-> new[i]]
    BY <2>2
  <2>5. ASSUME NEW i \in 1..(Len(e) + 1)
        PROVE  new[i] = IF i < 1 THEN e[i] ELSE IF i = 1 THEN Element(x, 0) ELSE e[i - 1]
    BY <1>1, <1>5, <2>3
  <2>6. new = PutAt(e, 1, Element(x, 0))
    BY <2>4, <2>5 DEF PutAt
  <2> QED BY <2>6 DEF new
<1> QED BY <1>1, <1>4, <1>6, PutAtIsSeq

\* List::SortedInsert inserts before the first bigger element.
LEMMA SortedInsertInserts ==
  ASSUME TypeOK, NEW c \in Seq(Node), IsList(c), NEW n \in Node, NEW x \in Item,
         NEW k \in Sortkey, SortedInsertOp(n, x, k)
  PROVE  \E d \in Seq(Node) : Becomes(d, SortedInsert(ElementsAt(c), x, k))
<1> DEFINE e == ElementsAt(c)
           p == InsertPlace(e, k)
           len == Len(c)
           bigger == BiggerAfter(k)
<1>1. len \in Nat /\ k \in Int /\ \A i \in 1..len : c[i] \in Node
  BY ListAssumption
<1>2. first = NULL <=> c = <<>>
  BY ListAssumption DEF IsList, IsChain
<1>3. /\ e \in Seq(Elements(Item)) /\ Len(e) = len
      /\ \A i \in 1..len : e[i] = element[c[i]]
  BY ElementsAtIsList
<1>4. /\ p \in 1..(len + 1)
      /\ p <= len => k < e[p].key
      /\ \A i \in 1..len : i < p => e[i].key <= k
  BY <1>1, <1>3, InsertPlaceProperty
<1>5. ASSUME NEW i \in 1..len
      PROVE  e[i].key \in Int
  <2>1. e[i] \in Elements(Item)
    BY <1>1, <1>3
  <2> QED BY <2>1 DEF Elements
<1>6. c # <<>> => len >= 1 /\ e[1] = element[first]
  BY <1>1, <1>2, <1>3 DEF IsList, IsChain
<1>7. Chain = c
  BY ListIsOnlyChain DEF OnlyChain
<1>8. bigger = {i \in 1..(len - 1) : k < e[i + 1].key}
  <2>1. ASSUME NEW i \in 1..(len - 1)
        PROVE  next[c[i]] # NULL /\ element[next[c[i]]] = e[i + 1]
    <3>1. i \in 1..len /\ i < len /\ i + 1 \in 1..len /\ c # <<>>
      BY <1>1
    <3>2. next[c[i]] = c[i + 1]
      BY <1>2, <3>1 DEF IsList, IsChain
    <3> QED BY <1>1, <1>3, <3>1, <3>2, ListAssumption
  <2> QED BY <1>7, <2>1 DEF BiggerAfter
<1>9. ASSUME c # <<>> /\ ~ (k < element[first].key)
      PROVE  Linked(c, n, p)
  <2>1. p \in 2..(len + 1)
    BY <1>1, <1>4, <1>5, <1>6, <1>9
  <2>2. CASE bigger = {}
    <3>1. p = len + 1
      <4> SUFFICES ASSUME p <= len PROVE FALSE
        BY <1>1, <2>1
      <4> HIDE DEF p, e
      <4>1. p - 1 \in 1..(len - 1) /\ k < e[(p - 1) + 1].key
        BY <1>1, <1>4, <2>1
      <4> QED BY <1>8, <2>2, <4>1
    <3>2. LinkLast(n)
      BY <1>1, <1>2, <1>5, <1>6, <1>9, <2>2 DEF SortedInsertOp, IsEmpty
    <3> QED BY <1>9, <3>1, <3>2 DEF Linked
  <2>3. CASE bigger # {}
    <3> DEFINE m == CHOOSE i \in bigger : \A j \in bigger : i <= j
    <3>1. m \in bigger /\ \A j \in bigger : m <= j
      <4>1. bigger \in SUBSET Nat
        BY <1>1, <1>8
      <4>2. \E i \in bigger : \A j \in bigger : i <= j
        BY <2>3, <4>1, LeastNat
      <4> QED BY <4>2
    <3>2. LinkAfter(n, c[m])
      <4>1. ~ IsEmpty /\ k >= element[first].key
        BY <1>1, <1>2, <1>5, <1>6, <1>9 DEF IsEmpty
      <4>2. LinkAfter(n, Chain[m])
        BY <1>1, <1>9, <2>3, <4>1 DEF SortedInsertOp
      <4> QED BY <1>7, <4>2
    <3> HIDE DEF m, p, e, bigger
    <3>3. m \in 1..(len - 1) /\ k < e[m + 1].key
      BY <1>8, <3>1
    <3>4. p <= m + 1
      <4>1. m + 1 \in 1..len /\ ~ (e[m + 1].key <= k)
        BY <1>1, <1>5, <3>3
      <4> QED BY <1>1, <1>4, <4>1
    <3>5. m <= p - 1
      <4>1. p - 1 \in 1..(len - 1) /\ k < e[(p - 1) + 1].key
        BY <1>1, <1>4, <2>1, <3>3, <3>4
      <4> QED BY <1>8, <3>1, <4>1
    <3>6. m = p - 1 /\ p \in 2..len
      BY <1>1, <2>1, <3>3, <3>4, <3>5
    <3> QED BY <3>2, <3>6 DEF Linked
  <2> QED BY <2>2, <2>3
<1>10. ASSUME c # <<>> /\ k < element[first].key
       PROVE  Linked(c, n, p)
  <2>1. p = 1
    BY <1>1, <1>4, <1>5, <1>6, <1>10
  <2>2. LinkFirst(n)
    BY <1>1, <1>2, <1>5, <1>6, <1>10 DEF SortedInsertOp, IsEmpty
  <2> QED BY <1>10, <2>1, <2>2 DEF Linked
<1>11. ASSUME c = <<>>
       PROVE  Linked(c, n, p)
  <2>1. p = 1
    BY <1>4, <1>11
  <2>2. LinkOnly(n)
    BY <1>2, <1>11 DEF SortedInsertOp, IsEmpty
  <2> QED BY <1>11, <2>1, <2>2 DEF Linked
<1>12. Linked(c, n, p)
  BY <1>9, <1>10, <1>11
<1>13. Becomes(PutAt(c, p, n), PutAt(e, p, Element(x, k)))
  <2>1. New(n, x, k)
    BY DEF SortedInsertOp
  <2> HIDE DEF e, p
  <2>2. Becomes(PutAt(c, p, n), PutAt(ElementsAt(c), p, Element(x, k)))
    BY <1>1, <1>4, <1>12, <2>1, NewAtPlace
  <2> QED BY <2>2 DEF e
<1>14. SortedInsert(e, x, k) = PutAt(e, p, Element(x, k))
  BY DEF SortedInsert, PutAt
<1>15. PutAt(c, p, n) \in Seq(Node)
  BY <1>4, PutAtIsSeq
<1> QED BY <1>13, <1>14, <1>15

\* List::Remove takes the first element, if there is one.
LEMMA RemoveRemoves ==
  ASSUME TypeOK, NEW c \in Seq(Node), IsList(c), RemoveOp
  PROVE  /\ c = <<>> => removed' = NULL /\ UNCHANGED <<first, last, next, element, allocated>>
         /\ c # <<>> => /\ removed' = Head(ElementsAt(c))
                        /\ \E d \in Seq(Node) : Becomes(d, Rest(ElementsAt(c)))
<1> DEFINE e == ElementsAt(c)
           d == Tail(c)
           len == Len(c)
<1>1. len \in Nat /\ (\A i \in 1..len : c[i] \in Node) /\ NULL \notin Node
  BY ListAssumption
<1>2. first = NULL <=> c = <<>>
  BY <1>1 DEF IsList, IsChain
<1>3. /\ e \in Seq(Elements(Item)) /\ Len(e) = len
      /\ \A i \in 1..len : e[i] = element[c[i]]
  BY ElementsAtIsList
<1>4. CASE c = <<>>
  BY <1>2, <1>4 DEF RemoveOp, IsEmpty
<1>5. CASE c # <<>>
  <2>1. /\ first = c[1] /\ last = c[len] /\ len >= 1
        /\ \A i \in 1..len : next[c[i]] = IF i < len THEN c[i + 1] ELSE NULL
        /\ \A i, j \in 1..len : c[i] = c[j] => i = j
        /\ {c[i] : i \in 1..len} = allocated
    BY <1>1, <1>2, <1>5 DEF IsList, IsChain
  <2>2. /\ removed' = element[first]
        /\ IF first = last THEN first' = NULL /\ last' = NULL
           ELSE first' = next[first] /\ last' = last
        /\ allocated' = allocated \ {first}
        /\ next' = next /\ element' = element
    BY <1>2, <1>5 DEF RemoveOp, IsEmpty
  <2>3. removed' = Head(e)
    <3>1. e # <<>> /\ Head(e) = e[1]
      BY <1>1, <1>3, <2>1
    <3> QED BY <1>1, <1>3, <2>1, <2>2, <3>1
  <2>4. /\ d \in Seq(Node) /\ Len(d) = len - 1
        /\ \A i \in 1..(len - 1) : d[i] = c[i + 1]
    BY <1>5
  <2> HIDE DEF d, e, len
  <2>5. first = last <=> len = 1
    BY <1>1, <2>1
  <2>6. d = <<>> <=> len = 1
    BY <1>1, <2>4
  <2>7. ASSUME len # 1
        PROVE  first' = d[1] /\ last' = d[len - 1] /\ first' # NULL
    <3>1. 1 \in 1..(len - 1) /\ len - 1 \in 1..(len - 1) /\ (len - 1) + 1 = len
          /\ 1 < len /\ 1 + 1 = 2 /\ 2 \in 1..len /\ 1 \in 1..len
      BY <1>1, <2>1, <2>7
    <3>2. d[1] = c[2] /\ d[len - 1] = c[len]
      BY <2>4, <3>1
    <3>3. first' = c[2] /\ last' = c[len]
      BY <2>1, <2>2, <2>5, <2>7, <3>1
    <3> QED BY <1>1, <3>1, <3>2, <3>3
  <2>8. ASSUME NEW i \in 1..(len - 1)
        PROVE  next'[d[i]] = IF i < len - 1 THEN d[i + 1] ELSE NULL
    <3>1. i + 1 \in 1..len /\ (i < len - 1 <=> i + 1 < len)
          /\ (i < len - 1 => i + 1 \in 1..(len - 1))
      BY <1>1
    <3>2. next'[d[i]] = IF i + 1 < len THEN c[(i + 1) + 1] ELSE NULL
      BY <2>1, <2>2, <2>4, <3>1
    <3> QED BY <2>4, <3>1, <3>2
  <2>9. IsChain(d)'
    BY <2>2, <2>4, <2>5, <2>6, <2>7, <2>8 DEF IsChain
  <2>10. \A i, j \in 1..Len(d) : d[i] = d[j] => i = j
    <3> SUFFICES ASSUME NEW i \in 1..(len - 1), NEW j \in 1..(len - 1), d[i] = d[j]
                 PROVE  i = j
      BY <2>4
    <3>1. i + 1 \in 1..len /\ j + 1 \in 1..len /\ c[i + 1] = c[j + 1]
      BY <1>1, <2>4
    <3>2. i + 1 = j + 1
      BY <2>1, <3>1
    <3> QED BY <3>2
  <2>11. {d[i] : i \in 1..Len(d)} = allocated \ {c[1]}
    <3>1. ASSUME NEW i \in 1..(len - 1)
          PROVE  d[i] \in allocated \ {c[1]}
      <4>1. i + 1 \in 1..len /\ 1 \in 1..len /\ i + 1 # 1
        BY <1>1, <2>1
      <4> QED BY <2>1, <2>4, <4>1
    <3>2. ASSUME NEW m \in allocated \ {c[1]}
          PROVE  \E i \in 1..(len - 1) : d[i] = m
      <4>1. PICK j \in 1..len : c[j] = m
        BY <2>1
      <4>2. j - 1 \in 1..(len - 1) /\ (j - 1) + 1 = j
        BY <1>1, <4>1
      <4> QED BY <2>4, <4>1, <4>2
    <3> QED BY <2>4, <3>1, <3>2
  <2>12. IF d = <<>> THEN last' = NULL ELSE last' = d[Len(d)]
    BY <2>2, <2>4, <2>5, <2>6, <2>7
  <2>13. IsList(d)'
    BY <2>1, <2>2, <2>4, <2>9, <2>10, <2>11, <2>12 DEF IsList
  <2>14. ElementsAt(d)' = Rest(e)
    <3>1. e # <<>>
      BY <1>1, <1>3, <2>1
    <3>2. /\ Rest(e) \in Seq(Elements(Item)) /\ Len(Rest(e)) = len - 1
          /\ \A i \in 1..(len - 1) : Rest(e)[i] = e[i + 1]
      BY <1>3, <3>1, RemoveProperties
    <3>3. Rest(e) = [i \in 1..(len - 1) |-> Rest(e)[i]]
      BY <3>2
    <3>4. ElementsAt(d)' = [i \in 1..(len - 1) |-> element[d[i]]]
      BY <2>2, <2>4 DEF ElementsAt
    <3>5. ASSUME NEW i \in 1..(len - 1)
          PROVE  Rest(e)[i] = element[d[i]]
      <4>1. i + 1 \in 1..len
        BY <1>1
      <4> QED BY <1>3, <2>4, <3>2, <4>1
    <3> QED BY <3>3, <3>4, <3>5
  <2> QED BY <1>5, <2>3, <2>4, <2>13, <2>14 DEF Becomes, e
<1> QED BY <1>4, <1>5

-----------------------------------------------------------------------------

\* The step of an operation, on whatever list there is: it becomes another one,
\* and that is what ListSpec says of the sequence of its elements.
ListStep(c) ==
  \/ /\ \E x \in Item :
          \E d \in Seq(Node) :
            \/ Becomes(d, AppendItem(ElementsAt(c), x))
            \/ Becomes(d, PrependItem(ElementsAt(c), x))
            \/ \E k \in Sortkey : Becomes(d, SortedInsert(ElementsAt(c), x, k))
     /\ removed' = removed
  \/ /\ c = <<>> /\ removed' = NULL
     /\ UNCHANGED <<first, last, next, element, allocated>>
  \/ /\ c # <<>> /\ removed' = Head(ElementsAt(c))
     /\ \E d \in Seq(Node) : Becomes(d, Rest(ElementsAt(c)))

LEMMA NextIsListStep ==
  ASSUME TypeOK, NEW c \in Seq(Node), IsList(c), Next
  PROVE  ListStep(c)
<1>1. ASSUME NEW n \in Node, NEW x \in Item, AppendOp(n, x)
      PROVE  ListStep(c)
  <2>1. removed' = removed
    BY <1>1 DEF AppendOp, New
  <2> QED BY <1>1, <2>1, AppendAppends DEF ListStep
<1>2. ASSUME NEW n \in Node, NEW x \in Item, PrependOp(n, x)
      PROVE  ListStep(c)
  <2>1. removed' = removed
    BY <1>2 DEF PrependOp, New
  <2> QED BY <1>2, <2>1, PrependPrepends DEF ListStep
<1>3. ASSUME NEW n \in Node, NEW x \in Item, NEW k \in Sortkey, SortedInsertOp(n, x, k)
      PROVE  ListStep(c)
  <2>1. removed' = removed
    BY <1>3 DEF SortedInsertOp, New
  <2> QED BY <1>3, <2>1, SortedInsertInserts DEF ListStep
<1>4. CASE RemoveOp
  BY <1>4, RemoveRemoves DEF ListStep
<1> QED BY <1>1, <1>2, <1>3, <1>4 DEF Next

LEMMA TypeStep ==
  ASSUME ListInv, Next
  PROVE  TypeOK'
<1>1. /\ NULL \notin Node
      /\ first \in Node \cup {NULL} /\ last \in Node \cup {NULL}
      /\ next \in [Node -> Node \cup {NULL}]
      /\ element \in [Node -> [item : Item, key : Sortkey \cup {0}]]
      /\ allocated \subseteq Node
      /\ removed = NULL \/ removed \in Elements(Item)
  BY ListAssumption DEF ListInv, TypeOK
<1>2. PICK c \in Seq(Node) : IsList(c)
  BY DEF ListInv
<1>3. ASSUME NEW n \in Node, NEW x \in Item, NEW k \in Sortkey \cup {0}, New(n, x, k)
      PROVE  /\ element' \in [Node -> [item : Item, key : Sortkey \cup {0}]]
             /\ allocated' \subseteq Node
             /\ removed' = NULL \/ removed' \in Elements(Item)
  <2>1. Element(x, k) \in [item : Item, key : Sortkey \cup {0}]
    BY DEF Element
  <2> QED BY <1>1, <1>3, <2>1 DEF New
<1>4. ASSUME NEW n \in Node, NEW p \in Node,
             LinkOnly(n) \/ LinkFirst(n) \/ (last \in Node /\ LinkLast(n)) \/ LinkAfter(n, p)
      PROVE  /\ first' \in Node \cup {NULL} /\ last' \in Node \cup {NULL}
             /\ next' \in [Node -> Node \cup {NULL}]
  BY <1>1, <1>4 DEF LinkOnly, LinkFirst, LinkLast, LinkAfter
<1>5. first = NULL <=> last = NULL
  <2>1. c # <<>> => c[1] \in Node /\ c[Len(c)] \in Node
    OBVIOUS
  <2> QED BY <1>1, <1>2, <2>1 DEF IsList, IsChain
<1>6. ASSUME NEW n \in Node, NEW x \in Item, AppendOp(n, x)
      PROVE  TypeOK'
  <2>1. New(n, x, 0) /\ (LinkOnly(n) \/ (last \in Node /\ LinkLast(n)))
    BY <1>1, <1>5, <1>6 DEF AppendOp, IsEmpty
  <2> QED BY <1>3, <1>4, <2>1 DEF TypeOK
<1>7. ASSUME NEW n \in Node, NEW x \in Item, PrependOp(n, x)
      PROVE  TypeOK'
  <2>1. New(n, x, 0) /\ (LinkOnly(n) \/ LinkFirst(n))
    BY <1>7 DEF PrependOp
  <2> QED BY <1>3, <1>4, <2>1 DEF TypeOK
<1>8. ASSUME NEW n \in Node, NEW x \in Item, NEW k \in Sortkey, SortedInsertOp(n, x, k)
      PROVE  TypeOK'
  <2>1. New(n, x, k)
    BY <1>8 DEF SortedInsertOp
  <2>2. Chain = c
    BY <1>2, ListIsOnlyChain DEF OnlyChain
  <2>3. BiggerAfter(k) # {} =>
          Chain[CHOOSE i \in BiggerAfter(k) : \A j \in BiggerAfter(k) : i <= j] \in Node
    <3> SUFFICES ASSUME BiggerAfter(k) # {}
                 PROVE  Chain[CHOOSE i \in BiggerAfter(k) : \A j \in BiggerAfter(k) : i <= j] \in Node
      OBVIOUS
    <3>1. BiggerAfter(k) \in SUBSET Nat /\ BiggerAfter(k) \subseteq 1..Len(c)
      BY <2>2 DEF BiggerAfter
    <3>2. \E i \in BiggerAfter(k) : \A j \in BiggerAfter(k) : i <= j
      BY <3>1, LeastNat
    <3>3. (CHOOSE i \in BiggerAfter(k) : \A j \in BiggerAfter(k) : i <= j) \in 1..Len(c)
      BY <3>1, <3>2
    <3> QED BY <2>2, <3>3
  <2>4. \/ LinkOnly(n)
        \/ LinkFirst(n)
        \/ last \in Node /\ LinkLast(n)
        \/ \E p \in Node : LinkAfter(n, p)
    <3>1. CASE IsEmpty
      BY <1>8, <3>1 DEF SortedInsertOp
    <3>0. ~ IsEmpty => k \in Int /\ element[first].key \in Int
      <4>1. ~ IsEmpty => element[first] \in [item : Item, key : Sortkey \cup {0}]
        BY <1>1 DEF IsEmpty
      <4>2. Sortkey \cup {0} \subseteq Int
        BY ListAssumption
      <4>3. ~ IsEmpty => element[first].key \in Sortkey \cup {0}
        BY <4>1
      <4> QED BY <4>2, <4>3
    <3>2. CASE ~ IsEmpty /\ k < element[first].key
      BY <1>8, <3>0, <3>2 DEF SortedInsertOp
    <3>3. CASE ~ IsEmpty /\ ~ (k < element[first].key)
      <4>1. k >= element[first].key
        BY <3>0, <3>3
      <4>2. CASE BiggerAfter(k) # {}
        <5>1. LinkAfter(n, Chain[CHOOSE i \in BiggerAfter(k) : \A j \in BiggerAfter(k) : i <= j])
          BY <1>8, <3>3, <4>1, <4>2 DEF SortedInsertOp
        <5> QED BY <2>3, <4>2, <5>1
      <4>3. CASE BiggerAfter(k) = {}
        <5>1. LinkLast(n)
          BY <1>8, <3>3, <4>3 DEF SortedInsertOp
        <5> QED BY <1>1, <1>5, <3>3, <5>1 DEF IsEmpty
      <4> QED BY <4>2, <4>3
    <3> QED BY <3>1, <3>2, <3>3
  <2> QED BY <1>3, <1>4, <2>1, <2>4 DEF TypeOK
<1>9. CASE RemoveOp
  <2>1. CASE IsEmpty
    BY <1>1, <1>9, <2>1 DEF RemoveOp, TypeOK
  <2>2. CASE ~ IsEmpty
    <3>1. first \in Node /\ element[first] \in [item : Item, key : Sortkey \cup {0}]
      BY <1>1, <2>2 DEF IsEmpty
    <3>2. element[first] \in Elements(Item)
      BY <3>1, ListAssumption DEF Elements
    <3>3. next[first] \in Node \cup {NULL}
      BY <1>1, <3>1
    <3> QED BY <1>1, <1>9, <2>2, <3>1, <3>2, <3>3 DEF RemoveOp, TypeOK
  <2> QED BY <2>1, <2>2
<1> QED BY <1>6, <1>7, <1>8, <1>9 DEF Next

LEMMA ListInit ==
  ASSUME Init
  PROVE  ListInv /\ IsList(<<>>)
<1>1. TypeOK
  BY DEF Init, TypeOK
<1>2. <<>> \in Seq(Node) /\ IsList(<<>>)
  BY DEF Init, IsList, IsChain
<1> QED BY <1>1, <1>2 DEF ListInv

\* Every list becomes a list.
LEMMA ListInvStep ==
  ASSUME ListInv, [Next]_vars
  PROVE  ListInv'
<1>1. PICK c \in Seq(Node) : IsList(c)
  BY DEF ListInv
<1>2. TypeOK
  BY DEF ListInv
<1>3. CASE Next
  <2>1. ListStep(c)
    BY <1>1, <1>2, <1>3, NextIsListStep
  <2>2. \E d \in Seq(Node) : IsList(d)'
    <3>1. CASE UNCHANGED <<first, last, next, element, allocated>>
      BY <1>1, <3>1 DEF IsList, IsChain
    <3>2. CASE \E d \in Seq(Node) : \E s : Becomes(d, s)
      BY <3>2 DEF Becomes
    <3> QED BY <2>1, <3>1, <3>2 DEF ListStep
  <2>3. TypeOK'
    BY <1>3, TypeStep
  <2> QED BY <2>2, <2>3 DEF ListInv
<1>4. CASE UNCHANGED vars
  <2>1. TypeOK'
    BY <1>2, <1>4 DEF TypeOK, vars
  <2>2. IsList(c)'
    BY <1>1, <1>4 DEF IsList, IsChain, vars
  <2> QED BY <2>1, <2>2 DEF ListInv
<1> QED BY <1>3, <1>4

LEMMA ListInvariant == Spec => []ListInv
<1>1. Init => ListInv
  BY ListInit
<1>2. ListInv /\ [Next]_vars => ListInv'
  BY ListInvStep
<1> QED BY <1>1, <1>2, PTL DEF Spec

\* Whatever the operations and their order, first, last and the next pointers
\* of list.cc make one chain that holds every allocated element once and no
\* deleted one.
THEOREM ListIsAlwaysWellFormed == Spec => []WellFormed
BY ListInvariant, ListIsWellFormed, PTL

-----------------------------------------------------------------------------

\* The operators of ListSpec are those of NachosList.
LEMMA SameOperators ==
  /\ \A s, x : L!AppendItem(s, x) = AppendItem(s, x)
  /\ \A s, x : L!PrependItem(s, x) = PrependItem(s, x)
  /\ \A s, x, k : L!SortedInsert(s, x, k) = SortedInsert(s, x, k)
  /\ \A s : L!Rest(s) = Rest(s)
BY DEF L!AppendItem, AppendItem, L!PrependItem, PrependItem, L!SortedInsert, SortedInsert,
       L!InsertPlace, InsertPlace, L!Places, Places, L!Element, Element, L!Rest, Rest

\* The list that ListSpec speaks of, before and after a step.
LEMMA ListIsElements ==
  ASSUME NEW c \in Seq(Node), IsList(c)
  PROVE  [i \in 1..Len(Chain) |-> element[Chain[i]]] = ElementsAt(c)
<1>1. Chain = c
  BY ListIsOnlyChain DEF OnlyChain
<1> QED BY <1>1 DEF ElementsAt

LEMMA OnlyChainNext == OnlyChain'
BY ListIsOnlyChain, PTL

LEMMA NextListIsElements ==
  ASSUME NEW d \in Seq(Node), IsList(d)'
  PROVE  [i \in 1..Len(Chain) |-> element[Chain[i]]]' = ElementsAt(d)'
<1>1. Chain' = d
  BY OnlyChainNext DEF OnlyChain
<1> QED BY <1>1 DEF ElementsAt

\* A step of list.cc is a step of ListSpec, or changes nothing it speaks of.
LEMMA RefinesStep ==
  ASSUME ListInv, [Next]_vars
  PROVE  [L!Next]_(L!vars)
<1> DEFINE this == [i \in 1..Len(Chain) |-> element[Chain[i]]]
<1>1. PICK c \in Seq(Node) : IsList(c)
  BY DEF ListInv
<1>2. TypeOK /\ this = ElementsAt(c)
  BY <1>1, ListIsElements DEF ListInv
<1>3. ASSUME NEW d \in Seq(Node), NEW s, Becomes(d, s)
      PROVE  this' = s
  BY <1>3, NextListIsElements DEF Becomes
<1>4. ASSUME UNCHANGED <<first, last, next, element, allocated>>
      PROVE  this' = this
  <2>1. IsList(c)' /\ ElementsAt(c)' = ElementsAt(c)
    BY <1>1, <1>4 DEF IsList, IsChain, ElementsAt
  <2> QED BY <1>2, <2>1, NextListIsElements
<1> HIDE DEF this
<1>5. CASE Next
  <2>1. ListStep(c)
    BY <1>1, <1>2, <1>5, NextIsListStep
  <2>2. ASSUME NEW x \in Item, NEW d \in Seq(Node), removed' = removed,
               \/ Becomes(d, AppendItem(ElementsAt(c), x))
               \/ Becomes(d, PrependItem(ElementsAt(c), x))
               \/ \E k \in Sortkey : Becomes(d, SortedInsert(ElementsAt(c), x, k))
        PROVE  L!Next
    <3>1. \/ this' = L!AppendItem(this, x)
          \/ this' = L!PrependItem(this, x)
          \/ \E k \in Sortkey : this' = L!SortedInsert(this, x, k)
      BY <1>2, <1>3, <2>2, SameOperators
    <3> QED BY <2>2, <3>1 DEF L!Next, L!Insert, this
  <2>3. CASE c = <<>> /\ removed' = NULL /\ UNCHANGED <<first, last, next, element, allocated>>
    <3>1. this' = this
      BY <1>4, <2>3
    <3>2. this = <<>>
      BY <1>2, <2>3 DEF ElementsAt
    <3> QED BY <2>3, <3>1, <3>2 DEF L!Next, L!Remove, this
  <2>4. ASSUME c # <<>>, removed' = Head(ElementsAt(c)),
               NEW d \in Seq(Node), Becomes(d, Rest(ElementsAt(c)))
        PROVE  L!Next
    <3>1. this # <<>>
      BY <1>2, <2>4, ElementsAtIsList
    <3>2. this' = L!Rest(this) /\ removed' = Head(this)
      BY <1>2, <1>3, <2>4, SameOperators
    <3> QED BY <3>1, <3>2 DEF L!Next, L!Remove, this
  <2> QED BY <2>1, <2>2, <2>3, <2>4 DEF ListStep
<1>6. CASE UNCHANGED vars
  BY <1>4, <1>6 DEF vars, L!vars, this
<1> QED BY <1>5, <1>6

\* The pointer operations of list.cc implement the operations on sequences: a
\* sorted insertion puts the new element behind those with the same key, and
\* a removal returns the first element, or NULL from an empty list.
THEOREM PointersImplementSequences == Spec => ImplementsList
<1>1. Init => L!Init
  <2> SUFFICES ASSUME Init PROVE L!Init
    OBVIOUS
  <2>1. IsList(<<>>) /\ <<>> \in Seq(Node) /\ removed = NULL
    BY ListInit DEF Init
  <2>2. ElementsAt(<<>>) = <<>>
    BY DEF ElementsAt
  <2>3. [i \in 1..Len(Chain) |-> element[Chain[i]]] = <<>>
    BY <2>1, <2>2, ListIsElements
  <2> QED BY <2>1, <2>3 DEF L!Init
<1>2. ListInv /\ [Next]_vars => [L!Next]_(L!vars)
  BY RefinesStep
<1> QED BY <1>1, <1>2, ListInvariant, PTL DEF Spec, ImplementsList, L!Spec

=============================================================================
