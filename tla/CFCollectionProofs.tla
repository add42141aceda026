------------------------- MODULE CFCollectionProofs -------------------------
(***************************************************************************)
(* Proofs about two collections of CoreFoundation: that the links of        *)
(* CFTree stand for the sequences of children, for any finite set of nodes  *)
(* and any comparator; and that CFBinaryHeap serves the least of its        *)
(* values, for any values and any number of them.                           *)
(***************************************************************************)
EXTENDS CFTree, CFBinaryHeap, SequenceTheorems, FiniteSetTheorems, WellFoundedInduction, TLAPS

\* Every set of naturals that is not empty has a least element
LEMMA LeastOf ==
    ASSUME NEW S \in SUBSET Nat, S # {}
    PROVE  \E x \in S : \A y \in S : x <= y
<1>1. PICK x \in S : \A y \in S : ~(<<y, x>> \in OpToRel(<, Nat))
  BY NatLessThanWellFounded, WFMin
<1>2. ASSUME NEW y \in S PROVE x <= y
  <2>1. ~(y < x)
    BY <1>1 DEF OpToRel
  <2>2. QED
    BY <2>1
<1>3. QED
  BY <1>2

-----------------------------------------------------------------------------
(* The tree: its links and its invariant *)

Link == [parent : Nodes \cup {NULL}, child : Nodes \cup {NULL},
         sibling : Nodes \cup {NULL}, rightmostChild : Nodes \cup {NULL}]

Links == [Nodes -> Link]

\* The links L of t and of its children stand for the first k places of q
Chain(L, t, q, k) ==
    /\ k \in Nat
    /\ \A i \in 1 .. k : q[i] \in Nodes
    /\ \A i, j \in 1 .. k : q[i] = q[j] => i = j
    /\ L[t].child = (IF k = 0 THEN NULL ELSE q[1])
    /\ L[t].rightmostChild = (IF k = 0 THEN NULL ELSE q[k])
    /\ \A i \in 1 .. k : L[q[i]].sibling = (IF i = k THEN NULL ELSE q[i + 1])
    /\ \A m \in Nodes : L[m].parent = t <=> \E i \in 1 .. k : q[i] = m

\* A node with no parent has no sibling
RootsAlone(L) == \A m \in Nodes : L[m].parent = NULL => L[m].sibling = NULL

TreeInv ==
    /\ link \in Links /\ kids \in [Nodes -> Seq(Nodes)]
    /\ \A t \in Nodes : Chain(link, t, kids[t], Len(kids[t]))
    /\ RootsAlone(link)

-----------------------------------------------------------------------------
(* The tree: what a relinking keeps *)

\* M leaves the links of t and of its children as they are in L
SameChildren(L, M, t) ==
    /\ M[t].child = L[t].child /\ M[t].rightmostChild = L[t].rightmostChild
    /\ \A m \in Nodes : M[m].parent = t <=> L[m].parent = t
    /\ \A m \in Nodes : L[m].parent = t => M[m].sibling = L[m].sibling

LEMMA ChainKept ==
    ASSUME NEW L, NEW M, NEW t \in Nodes, NEW q, NEW k \in Nat,
           Chain(L, t, q, k), SameChildren(L, M, t)
    PROVE  Chain(M, t, q, k)
<1>1. \A i \in 1 .. k : q[i] \in Nodes /\ L[q[i]].parent = t
  BY DEF Chain
<1>2. \A i \in 1 .. k : M[q[i]].sibling = L[q[i]].sibling
  BY <1>1 DEF SameChildren
<1>3. \A i \in 1 .. k : M[q[i]].sibling = (IF i = k THEN NULL ELSE q[i + 1])
  BY <1>2 DEF Chain
<1>4. \A m \in Nodes : M[m].parent = t <=> \E i \in 1 .. k : q[i] = m
  BY DEF Chain, SameChildren
<1>5. QED
  BY <1>3, <1>4 DEF Chain, SameChildren

\* M links n in L as child i of p
Inserts(L, M, p, q, k, i, n) ==
    /\ i \in 1 .. k + 1
    /\ \A m \in Nodes : M[m].parent = (IF m = n THEN p ELSE L[m].parent)
    /\ \A m \in Nodes : M[m].sibling = (IF m = n THEN IF i = k + 1 THEN NULL ELSE q[i]
                                        ELSE IF i > 1 /\ m = q[i - 1] THEN n
                                        ELSE L[m].sibling)
    /\ \A m \in Nodes : m # p => M[m].child = L[m].child /\ M[m].rightmostChild = L[m].rightmostChild
    /\ M[p].child = (IF i = 1 THEN n ELSE L[p].child)
    /\ M[p].rightmostChild = (IF i = k + 1 THEN n ELSE L[p].rightmostChild)

\* r is q with n at place i
Longer(q, k, r, i, n) ==
    /\ \A j \in 1 .. k : j < i => r[j] = q[j]
    /\ r[i] = n
    /\ \A j \in 2 .. k + 1 : i < j => r[j] = q[j - 1]

LEMMA InsertChain ==
    ASSUME NEW L, NEW M, NEW p \in Nodes, NEW q, NEW k \in Nat, NEW r, NEW i \in 1 .. k + 1,
           NEW n \in Nodes, L[n].parent = NULL, NULL \notin Nodes,
           Chain(L, p, q, k), Inserts(L, M, p, q, k, i, n), Longer(q, k, r, i, n)
    PROVE  Chain(M, p, r, k + 1)
<1>1. \A j \in 1 .. k : q[j] \in Nodes /\ q[j] # n /\ L[q[j]].parent = p
  BY DEF Chain
<1>2. \A j \in 1 .. k + 1 : \/ j < i /\ j \in 1 .. k /\ r[j] = q[j]
                            \/ j = i /\ r[j] = n
                            \/ j > i /\ j - 1 \in 1 .. k /\ r[j] = q[j - 1]
  BY DEF Longer
<1>3. \A j \in 1 .. k + 1 : r[j] \in Nodes
  BY <1>1, <1>2
<1>4. \A a, b \in 1 .. k + 1 : r[a] = r[b] => a = b
  <2> SUFFICES ASSUME NEW a \in 1 .. k + 1, NEW b \in 1 .. k + 1, r[a] = r[b] PROVE a = b
    OBVIOUS
  <2>1. \A x, y \in 1 .. k : q[x] = q[y] => x = y
    BY DEF Chain
  <2>2. QED
    BY <1>1, <1>2, <2>1
<1>5. M[p].child = r[1]
  <2>1. i # 1 => k > 0 /\ r[1] = q[1]
    BY <1>2
  <2>2. QED
    BY <2>1 DEF Chain, Inserts, Longer
<1>6. M[p].rightmostChild = r[k + 1]
  <2>1. i # k + 1 => k > 0 /\ r[k + 1] = q[k]
    BY DEF Longer
  <2>2. QED
    BY <2>1 DEF Chain, Inserts, Longer
<1>7. \A j \in 1 .. k + 1 : M[r[j]].sibling = (IF j = k + 1 THEN NULL ELSE r[j + 1])
  <2> SUFFICES ASSUME NEW j \in 1 .. k + 1
               PROVE  M[r[j]].sibling = (IF j = k + 1 THEN NULL ELSE r[j + 1])
    OBVIOUS
  <2>0. \A x, y \in 1 .. k : q[x] = q[y] => x = y
    BY DEF Chain
  <2>1. CASE j < i /\ j + 1 = i
    <3>1. j \in 1 .. k /\ r[j] = q[i - 1] /\ r[j + 1] = n /\ i > 1 /\ j # k + 1
      BY <2>1, <1>2 DEF Longer
    <3>2. QED
      BY <3>1, <1>1 DEF Inserts
  <2>2. CASE j < i /\ j + 1 # i
    <3>1. j \in 1 .. k /\ j + 1 \in 1 .. k /\ r[j] = q[j] /\ r[j + 1] = q[j + 1] /\ j # k + 1 /\ j # k
      BY <2>2 DEF Longer
    <3>2. ~(i > 1 /\ q[j] = q[i - 1])
      BY <2>2, <3>1, <2>0
    <3>3. M[q[j]].sibling = L[q[j]].sibling
      BY <3>1, <3>2, <1>1 DEF Inserts
    <3>4. QED
      BY <3>1, <3>3 DEF Chain
  <2>3. CASE j = i
    <3>1. r[j] = n
      BY <2>3 DEF Longer
    <3>2. j # k + 1 => r[j + 1] = q[i]
      BY <2>3 DEF Longer
    <3>3. QED
      BY <2>3, <3>1, <3>2 DEF Inserts
  <2>4. CASE j > i
    <3>1. j - 1 \in 1 .. k /\ r[j] = q[j - 1]
      BY <2>4, <1>2
    <3>2. ~(i > 1 /\ q[j - 1] = q[i - 1])
      BY <2>4, <3>1, <2>0
    <3>3. M[q[j - 1]].sibling = L[q[j - 1]].sibling
      BY <3>1, <3>2, <1>1 DEF Inserts
    <3>4. j # k + 1 => r[j + 1] = q[j]
      BY <2>4, <3>1 DEF Longer
    <3>5. L[q[j - 1]].sibling = (IF j = k + 1 THEN NULL ELSE q[j])
      BY <3>1 DEF Chain
    <3>6. QED
      BY <3>1, <3>3, <3>4, <3>5
  <2>5. QED
    BY <2>1, <2>2, <2>3, <2>4
<1>8. \A m \in Nodes : M[m].parent = p <=> \E j \in 1 .. k + 1 : r[j] = m
  <2> SUFFICES ASSUME NEW m \in Nodes
               PROVE  M[m].parent = p <=> \E j \in 1 .. k + 1 : r[j] = m
    OBVIOUS
  <2>1. CASE m = n
    BY <2>1 DEF Inserts, Longer
  <2>2. CASE m # n
    <3>1. M[m].parent = p <=> \E j \in 1 .. k : q[j] = m
      BY <2>2 DEF Inserts, Chain
    <3>2. ASSUME NEW j \in 1 .. k, q[j] = m PROVE \E a \in 1 .. k + 1 : r[a] = m
      <4>1. j < i => j \in 1 .. k + 1 /\ r[j] = m
        BY <3>2 DEF Longer
      <4>2. ~(j < i) => j + 1 \in 1 .. k + 1 /\ r[j + 1] = m
        BY <3>2 DEF Longer
      <4>3. QED
        BY <4>1, <4>2
    <3>3. ASSUME NEW j \in 1 .. k + 1, r[j] = m PROVE \E a \in 1 .. k : q[a] = m
      BY <3>3, <1>2, <2>2
    <3>4. QED
      BY <3>1, <3>2, <3>3
  <2>3. QED
    BY <2>1, <2>2
<1>9. k + 1 \in Nat /\ k + 1 # 0
  OBVIOUS
<1>10. QED
  BY <1>3, <1>4, <1>5, <1>6, <1>7, <1>8, <1>9 DEF Chain

\* M takes child i of p out of L
Removes(L, M, p, q, k, i) ==
    /\ \A m \in Nodes : M[m].parent = (IF m = q[i] THEN NULL ELSE L[m].parent)
    /\ \A m \in Nodes : M[m].sibling = (IF m = q[i] THEN NULL
                                        ELSE IF i > 1 /\ m = q[i - 1] THEN L[q[i]].sibling
                                        ELSE L[m].sibling)
    /\ \A m \in Nodes : m # p => M[m].child = L[m].child /\ M[m].rightmostChild = L[m].rightmostChild
    /\ M[p].child = (IF i = 1 THEN L[q[i]].sibling ELSE L[p].child)
    /\ M[p].rightmostChild = (IF k = 1 THEN NULL
                              ELSE IF i = k THEN q[k - 1] ELSE L[p].rightmostChild)

\* r is q without place i
Shorter(q, k, r, i) == \A j \in 1 .. k - 1 : r[j] = (IF j < i THEN q[j] ELSE q[j + 1])

LEMMA RemoveChain ==
    ASSUME NEW L, NEW M, NEW p \in Nodes, NEW q, NEW k \in Nat, NEW r, NEW i \in 1 .. k,
           NULL \notin Nodes,
           Chain(L, p, q, k), Removes(L, M, p, q, k, i), Shorter(q, k, r, i)
    PROVE  Chain(M, p, r, k - 1)
<1>1. \A j \in 1 .. k : q[j] \in Nodes /\ L[q[j]].parent = p
  BY DEF Chain
<1>2. \A x, y \in 1 .. k : q[x] = q[y] => x = y
  BY DEF Chain
<1>3. \A j \in 1 .. k - 1 : \/ j < i /\ j \in 1 .. k /\ r[j] = q[j]
                            \/ j >= i /\ j + 1 \in 1 .. k /\ r[j] = q[j + 1]
  BY DEF Shorter
<1>4. \A j \in 1 .. k - 1 : r[j] \in Nodes
  BY <1>1, <1>3
<1>5. \A a, b \in 1 .. k - 1 : r[a] = r[b] => a = b
  <2> SUFFICES ASSUME NEW a \in 1 .. k - 1, NEW b \in 1 .. k - 1, r[a] = r[b] PROVE a = b
    OBVIOUS
  <2>2. QED
    BY <1>2, <1>3
<1>6. M[p].child = (IF k - 1 = 0 THEN NULL ELSE r[1])
  <2>1. CASE k = 1
    <3>1. i = 1 /\ L[q[1]].sibling = NULL
      BY <2>1 DEF Chain
    <3>2. QED
      BY <2>1, <3>1 DEF Removes
  <2>2. CASE k # 1 /\ i = 1
    <3>1. L[q[1]].sibling = q[2] /\ r[1] = q[2]
      BY <2>2, <1>3 DEF Chain
    <3>2. QED
      BY <2>2, <3>1 DEF Removes
  <2>3. CASE k # 1 /\ i # 1
    <3>1. r[1] = q[1]
      BY <2>3, <1>3
    <3>2. QED
      BY <2>3, <3>1 DEF Removes, Chain
  <2>4. QED
    BY <2>1, <2>2, <2>3
<1>7. M[p].rightmostChild = (IF k - 1 = 0 THEN NULL ELSE r[k - 1])
  <2>1. CASE k = 1
    BY <2>1 DEF Removes
  <2>2. CASE k # 1 /\ i = k
    <3>1. r[k - 1] = q[k - 1]
      BY <2>2, <1>3
    <3>2. QED
      BY <2>2, <3>1 DEF Removes
  <2>3. CASE k # 1 /\ i # k
    <3>1. r[k - 1] = q[k]
      BY <2>3 DEF Shorter
    <3>2. QED
      BY <2>3, <3>1 DEF Removes, Chain
  <2>4. QED
    BY <2>1, <2>2, <2>3
<1>8. \A j \in 1 .. k - 1 : M[r[j]].sibling = (IF j = k - 1 THEN NULL ELSE r[j + 1])
  <2> SUFFICES ASSUME NEW j \in 1 .. k - 1
               PROVE  M[r[j]].sibling = (IF j = k - 1 THEN NULL ELSE r[j + 1])
    OBVIOUS
  <2>1. CASE j < i /\ j + 1 = i
    <3>1. r[j] = q[i - 1] /\ i > 1 /\ q[i - 1] # q[i] /\ q[i - 1] \in Nodes
      BY <2>1, <1>3, <1>2, <1>1
    <3>2. M[r[j]].sibling = L[q[i]].sibling
      BY <3>1 DEF Removes
    <3>3. L[q[i]].sibling = (IF i = k THEN NULL ELSE q[i + 1])
      BY DEF Chain
    <3>4. j # k - 1 => r[j + 1] = q[i + 1] /\ i # k
      BY <2>1 DEF Shorter
    <3>5. j = k - 1 => i = k
      BY <2>1
    <3>6. QED
      BY <3>2, <3>3, <3>4, <3>5
  <2>2. CASE j < i /\ j + 1 # i
    <3>1. r[j] = q[j] /\ j \in 1 .. k /\ j # k - 1 /\ j # k /\ r[j + 1] = q[j + 1]
      BY <2>2 DEF Shorter
    <3>2. q[j] # q[i] /\ ~(i > 1 /\ q[j] = q[i - 1]) /\ q[j] \in Nodes
      BY <2>2, <3>1, <1>2, <1>1
    <3>3. M[q[j]].sibling = L[q[j]].sibling
      BY <3>2 DEF Removes
    <3>4. QED
      BY <3>1, <3>3 DEF Chain
  <2>3. CASE j >= i
    <3>1. r[j] = q[j + 1] /\ j + 1 \in 1 .. k /\ (j # k - 1 => r[j + 1] = q[j + 2])
      BY <2>3 DEF Shorter
    <3>2. q[j + 1] # q[i] /\ ~(i > 1 /\ q[j + 1] = q[i - 1]) /\ q[j + 1] \in Nodes
      BY <2>3, <3>1, <1>2, <1>1
    <3>3. M[q[j + 1]].sibling = L[q[j + 1]].sibling
      BY <3>2 DEF Removes
    <3>4. L[q[j + 1]].sibling = (IF j + 1 = k THEN NULL ELSE q[j + 1 + 1])
      BY <3>1 DEF Chain
    <3>5. QED
      BY <3>1, <3>3, <3>4
  <2>5. QED
    BY <2>1, <2>2, <2>3
<1>9. \A m \in Nodes : M[m].parent = p <=> \E j \in 1 .. k - 1 : r[j] = m
  <2> SUFFICES ASSUME NEW m \in Nodes
               PROVE  M[m].parent = p <=> \E j \in 1 .. k - 1 : r[j] = m
    OBVIOUS
  <2>1. CASE m = q[i]
    <3>1. M[m].parent # p
      BY <2>1 DEF Removes
    <3>2. \A j \in 1 .. k - 1 : r[j] # m
      BY <2>1, <1>3, <1>2
    <3>3. QED
      BY <3>1, <3>2
  <2>2. CASE m # q[i]
    <3>1. M[m].parent = p <=> \E j \in 1 .. k : q[j] = m
      BY <2>2 DEF Removes, Chain
    <3>2. ASSUME NEW j \in 1 .. k, q[j] = m PROVE \E a \in 1 .. k - 1 : r[a] = m
      <4>0. j # i
        BY <3>2, <2>2
      <4>1. j < i => j \in 1 .. k - 1 /\ r[j] = m
        BY <3>2 DEF Shorter
      <4>2. ~(j < i) => j - 1 \in 1 .. k - 1 /\ r[j - 1] = m
        BY <3>2, <4>0 DEF Shorter
      <4>3. QED
        BY <4>1, <4>2
    <3>3. ASSUME NEW j \in 1 .. k - 1, r[j] = m PROVE \E a \in 1 .. k : q[a] = m
      BY <3>3, <1>3
    <3>4. QED
      BY <3>1, <3>2, <3>3
  <2>3. QED
    BY <2>1, <2>2
<1>10. k - 1 \in Nat
  OBVIOUS
<1>11. QED
  BY <1>4, <1>5, <1>6, <1>7, <1>8, <1>9, <1>10 DEF Chain

LEMMA OthersKept ==
    ASSUME NEW L, NEW M, NEW p \in Nodes, NEW q, NEW k \in Nat, NEW t \in Nodes \ {p},
           NULL \notin Nodes, Chain(L, p, q, k)
    PROVE  /\ \A i \in 1 .. k + 1, n \in Nodes :
                L[n].parent = NULL /\ Inserts(L, M, p, q, k, i, n) => SameChildren(L, M, t)
           /\ \A i \in 1 .. k : Removes(L, M, p, q, k, i) => SameChildren(L, M, t)
<1>1. \A j \in 1 .. k : q[j] \in Nodes /\ L[q[j]].parent = p
  BY DEF Chain
<1>2. ASSUME NEW i \in 1 .. k + 1, NEW n \in Nodes,
             L[n].parent = NULL, Inserts(L, M, p, q, k, i, n)
      PROVE  SameChildren(L, M, t)
  <2>1. \A m \in Nodes : M[m].parent = t <=> L[m].parent = t
    BY <1>2 DEF Inserts
  <2>2. ASSUME NEW m \in Nodes, L[m].parent = t PROVE M[m].sibling = L[m].sibling
    <3>1. m # n /\ ~(i > 1 /\ m = q[i - 1])
      BY <1>1, <1>2, <2>2
    <3>2. QED
      BY <3>1, <1>2 DEF Inserts
  <2>3. M[t].child = L[t].child /\ M[t].rightmostChild = L[t].rightmostChild
    BY <1>2 DEF Inserts
  <2>4. QED
    BY <2>1, <2>2, <2>3 DEF SameChildren
<1>3. ASSUME NEW i \in 1 .. k, Removes(L, M, p, q, k, i)
      PROVE  SameChildren(L, M, t)
  <2>1. \A m \in Nodes : M[m].parent = t <=> L[m].parent = t
    BY <1>1, <1>3 DEF Removes
  <2>2. ASSUME NEW m \in Nodes, L[m].parent = t PROVE M[m].sibling = L[m].sibling
    <3>1. m # q[i] /\ ~(i > 1 /\ m = q[i - 1])
      BY <1>1, <2>2
    <3>2. QED
      BY <3>1, <1>3 DEF Removes
  <2>3. M[t].child = L[t].child /\ M[t].rightmostChild = L[t].rightmostChild
    BY <1>3 DEF Removes
  <2>4. QED
    BY <2>1, <2>2, <2>3 DEF SameChildren
<1>4. QED
  BY <1>2, <1>3

LEMMA RootsStayAlone ==
    ASSUME NEW L, NEW M, NEW p \in Nodes, NEW q, NEW k \in Nat,
           NULL \notin Nodes, Chain(L, p, q, k), RootsAlone(L)
    PROVE  /\ \A i \in 1 .. k + 1, n \in Nodes : Inserts(L, M, p, q, k, i, n) => RootsAlone(M)
           /\ \A i \in 1 .. k : Removes(L, M, p, q, k, i) => RootsAlone(M)
<1>1. \A j \in 1 .. k : q[j] \in Nodes /\ L[q[j]].parent = p
  BY DEF Chain
<1>2. ASSUME NEW i \in 1 .. k + 1, NEW n \in Nodes, Inserts(L, M, p, q, k, i, n),
             NEW m \in Nodes, M[m].parent = NULL
      PROVE  M[m].sibling = NULL
  <2>1. m # n /\ L[m].parent = NULL /\ L[m].sibling = NULL
    BY <1>2 DEF Inserts, RootsAlone
  <2>2. ~(i > 1 /\ m = q[i - 1])
    BY <1>1, <2>1
  <2>3. QED
    BY <1>2, <2>1, <2>2 DEF Inserts
<1>3. ASSUME NEW i \in 1 .. k, Removes(L, M, p, q, k, i), NEW m \in Nodes, M[m].parent = NULL
      PROVE  M[m].sibling = NULL
  <2>1. CASE m = q[i]
    BY <2>1, <1>3 DEF Removes
  <2>2. CASE m # q[i]
    <3>1. L[m].parent = NULL /\ L[m].sibling = NULL
      BY <1>3, <2>2 DEF Removes, RootsAlone
    <3>2. ~(i > 1 /\ m = q[i - 1])
      BY <1>1, <3>1
    <3>3. QED
      BY <1>3, <2>2, <3>1, <3>2 DEF Removes
  <2>3. QED
    BY <2>1, <2>2
<1>4. QED
  BY <1>2, <1>3 DEF RootsAlone

-----------------------------------------------------------------------------
(* The tree: sequences with one more and one fewer element *)

LEMMA InsertedAt ==
    ASSUME NEW q \in Seq(Nodes), NEW k \in Nat, k = Len(q), NEW i \in 1 .. k + 1, NEW n \in Nodes
    PROVE  /\ InsertAt(q, i, n) \in Seq(Nodes) /\ Len(InsertAt(q, i, n)) = k + 1
           /\ Longer(q, k, InsertAt(q, i, n), i, n)
<1>0. \A j \in 1 .. k : q[j] \in Nodes
  BY ElementOfSeq
<1>1. PICK a : a = SubSeq(q, 1, i - 1)
  OBVIOUS
<1>2. PICK b : b = SubSeq(q, i, k)
  OBVIOUS
<1>3. a \in Seq(Nodes) /\ Len(a) = i - 1 /\ \A j \in 1 .. i - 1 : a[j] = q[j]
  <2>1. \A j \in 1 .. i - 1 : q[j] \in Nodes
    BY <1>0
  <2>2. /\ SubSeq(q, 1, i - 1) \in Seq(Nodes)
        /\ Len(SubSeq(q, 1, i - 1)) = IF 1 <= i - 1 THEN i - 1 - 1 + 1 ELSE 0
        /\ \A j \in 1 .. i - 1 - 1 + 1 : SubSeq(q, 1, i - 1)[j] = q[1 + j - 1]
    BY <2>1, SubSeqProperties
  <2>3. QED
    BY <2>2, <1>1
<1>4. b \in Seq(Nodes) /\ Len(b) = k + 1 - i /\ \A j \in 1 .. k + 1 - i : b[j] = q[i + j - 1]
  <2>1. \A j \in i .. k : q[j] \in Nodes
    BY <1>0
  <2>2. /\ SubSeq(q, i, k) \in Seq(Nodes)
        /\ Len(SubSeq(q, i, k)) = IF i <= k THEN k - i + 1 ELSE 0
        /\ \A j \in 1 .. k - i + 1 : SubSeq(q, i, k)[j] = q[i + j - 1]
    BY <2>1, SubSeqProperties
  <2>3. QED
    BY <2>2, <1>2
<1>5. <<n>> \in Seq(Nodes) /\ Len(<<n>>) = 1 /\ <<n>>[1] = n
  OBVIOUS
<1>6. PICK c : c = a \o <<n>>
  OBVIOUS
<1>7. /\ c \in Seq(Nodes) /\ Len(c) = i
      /\ \A j \in 1 .. i : c[j] = IF j <= i - 1 THEN a[j] ELSE <<n>>[j - (i - 1)]
  <2>1. /\ a \o <<n>> \in Seq(Nodes) /\ Len(a \o <<n>>) = Len(a) + Len(<<n>>)
        /\ \A j \in 1 .. Len(a) + Len(<<n>>) :
             (a \o <<n>>)[j] = IF j <= Len(a) THEN a[j] ELSE <<n>>[j - Len(a)]
    BY <1>3, <1>5, ConcatProperties
  <2>2. QED
    BY <2>1, <1>3, <1>5, <1>6
<1>8. PICK r : r = c \o b
  OBVIOUS
<1>9. /\ r \in Seq(Nodes) /\ Len(r) = k + 1
      /\ \A j \in 1 .. k + 1 : r[j] = IF j <= i THEN c[j] ELSE b[j - i]
  <2>1. /\ c \o b \in Seq(Nodes) /\ Len(c \o b) = Len(c) + Len(b)
        /\ \A j \in 1 .. Len(c) + Len(b) :
             (c \o b)[j] = IF j <= Len(c) THEN c[j] ELSE b[j - Len(c)]
    BY <1>4, <1>7, ConcatProperties
  <2>2. Len(c) + Len(b) = k + 1
    BY <1>4, <1>7
  <2>3. QED
    BY <2>1, <2>2, <1>7, <1>8
<1>10. r = InsertAt(q, i, n)
  BY <1>1, <1>2, <1>6, <1>8 DEF InsertAt
<1>11. Longer(q, k, r, i, n)
  <2>1. \A j \in 1 .. k : j < i => r[j] = q[j]
    BY <1>3, <1>7, <1>9
  <2>2. r[i] = n
    BY <1>5, <1>7, <1>9
  <2>3. ASSUME NEW j \in 2 .. k + 1, i < j PROVE r[j] = q[j - 1]
    <3>1. r[j] = b[j - i] /\ j - i \in 1 .. k + 1 - i
      BY <2>3, <1>9
    <3>2. b[j - i] = q[i + (j - i) - 1]
      BY <3>1, <1>4
    <3>3. QED
      BY <3>1, <3>2
  <2>4. QED
    BY <2>1, <2>2, <2>3 DEF Longer
<1>12. QED
  BY <1>9, <1>10, <1>11

LEMMA RemovedAt ==
    ASSUME NEW q \in Seq(Nodes), NEW k \in Nat, k = Len(q), NEW i \in 1 .. k
    PROVE  /\ RemoveAt(q, i) \in Seq(Nodes) /\ Len(RemoveAt(q, i)) = k - 1
           /\ Shorter(q, k, RemoveAt(q, i), i)
<1>0. \A j \in 1 .. k : q[j] \in Nodes
  BY ElementOfSeq
<1>1. PICK a : a = SubSeq(q, 1, i - 1)
  OBVIOUS
<1>2. PICK b : b = SubSeq(q, i + 1, k)
  OBVIOUS
<1>3. a \in Seq(Nodes) /\ Len(a) = i - 1 /\ \A j \in 1 .. i - 1 : a[j] = q[j]
  <2>1. \A j \in 1 .. i - 1 : q[j] \in Nodes
    BY <1>0
  <2>2. /\ SubSeq(q, 1, i - 1) \in Seq(Nodes)
        /\ Len(SubSeq(q, 1, i - 1)) = IF 1 <= i - 1 THEN i - 1 - 1 + 1 ELSE 0
        /\ \A j \in 1 .. i - 1 - 1 + 1 : SubSeq(q, 1, i - 1)[j] = q[1 + j - 1]
    BY <2>1, SubSeqProperties
  <2>3. QED
    BY <2>2, <1>1
<1>4. b \in Seq(Nodes) /\ Len(b) = k - i /\ \A j \in 1 .. k - i : b[j] = q[i + j]
  <2>1. \A j \in i + 1 .. k : q[j] \in Nodes
    BY <1>0
  <2>2. /\ SubSeq(q, i + 1, k) \in Seq(Nodes)
        /\ Len(SubSeq(q, i + 1, k)) = IF i + 1 <= k THEN k - (i + 1) + 1 ELSE 0
        /\ \A j \in 1 .. k - (i + 1) + 1 : SubSeq(q, i + 1, k)[j] = q[(i + 1) + j - 1]
    BY <2>1, SubSeqProperties
  <2>3. QED
    BY <2>2, <1>2
<1>5. PICK r : r = a \o b
  OBVIOUS
<1>6. /\ r \in Seq(Nodes) /\ Len(r) = k - 1
      /\ \A j \in 1 .. k - 1 : r[j] = IF j <= i - 1 THEN a[j] ELSE b[j - (i - 1)]
  <2>1. /\ a \o b \in Seq(Nodes) /\ Len(a \o b) = Len(a) + Len(b)
        /\ \A j \in 1 .. Len(a) + Len(b) :
             (a \o b)[j] = IF j <= Len(a) THEN a[j] ELSE b[j - Len(a)]
    BY <1>3, <1>4, ConcatProperties
  <2>2. Len(a) + Len(b) = k - 1
    BY <1>3, <1>4
  <2>3. QED
    BY <2>1, <2>2, <1>3, <1>5
<1>7. r = RemoveAt(q, i)
  BY <1>1, <1>2, <1>5 DEF RemoveAt
<1>8. ASSUME NEW j \in 1 .. k - 1 PROVE r[j] = (IF j < i THEN q[j] ELSE q[j + 1])
  <2>1. CASE j < i
    BY <2>1, <1>3, <1>6
  <2>2. CASE ~(j < i)
    <3>1. r[j] = b[j - (i - 1)] /\ j - (i - 1) \in 1 .. k - i
      BY <2>2, <1>6
    <3>2. b[j - (i - 1)] = q[i + (j - (i - 1))]
      BY <3>1, <1>4
    <3>3. QED
      BY <2>2, <3>1, <3>2
  <2>3. QED
    BY <2>1, <2>2
<1>9. QED
  BY <1>6, <1>7, <1>8 DEF Shorter

-----------------------------------------------------------------------------
(* The tree: the invariant over one call *)

\* Assigning one of the four links of a node
LEMMA LinkAssigned ==
    ASSUME NEW L \in Links, NEW x \in Nodes, NEW v \in Nodes \cup {NULL}
    PROVE  /\ [L EXCEPT ![x].parent = v] \in Links
           /\ [L EXCEPT ![x].child = v] \in Links
           /\ [L EXCEPT ![x].sibling = v] \in Links
           /\ [L EXCEPT ![x].rightmostChild = v] \in Links
  BY DEF Links, Link

\* What a call that relinks the children of p has to keep
LEMMA Relinked ==
    ASSUME TreeInv, link' \in Links, NEW p \in Nodes, NEW r \in Seq(Nodes),
           kids' = [kids EXCEPT ![p] = r], Chain(link', p, r, Len(r)), RootsAlone(link'),
           \A t \in Nodes \ {p} : SameChildren(link, link', t)
    PROVE  TreeInv'
<1>1. kids' \in [Nodes -> Seq(Nodes)] /\ kids'[p] = r /\ \A t \in Nodes \ {p} : kids'[t] = kids[t]
  BY DEF TreeInv
<1>2. ASSUME NEW t \in Nodes \ {p} PROVE Chain(link', t, kids'[t], Len(kids'[t]))
  <2>1. PICK q \in Seq(Nodes) : q = kids[t]
    BY DEF TreeInv
  <2>2. PICK k \in Nat : k = Len(q)
    BY LenProperties
  <2>3. Chain(link, t, q, k) /\ SameChildren(link, link', t)
    BY <2>1, <2>2 DEF TreeInv
  <2>4. Chain(link', t, q, k)
    BY <2>3, ChainKept
  <2>5. QED
    BY <2>1, <2>2, <2>4, <1>1
<1>3. \A t \in Nodes : Chain(link', t, kids'[t], Len(kids'[t]))
  BY <1>1, <1>2
<1>4. QED
  BY <1>1, <1>3 DEF TreeInv

LEMMA InsertStep ==
    ASSUME TreeInv, NULL \notin Nodes, link' \in Links, NEW p \in Nodes, NEW n \in Nodes,
           NEW q \in Seq(Nodes), q = kids[p], NEW k \in Nat, k = Len(q), NEW i \in 1 .. k + 1,
           link[n].parent = NULL, Inserts(link, link', p, q, k, i, n),
           NEW r \in Seq(Nodes), Len(r) = k + 1, Longer(q, k, r, i, n),
           kids' = [kids EXCEPT ![p] = r]
    PROVE  TreeInv'
<1>1. Chain(link, p, q, k) /\ RootsAlone(link)
  BY DEF TreeInv
<1>2. Chain(link', p, r, Len(r))
  BY <1>1, InsertChain
<1>3. \A t \in Nodes \ {p} : SameChildren(link, link', t)
  BY <1>1, OthersKept
<1>4. RootsAlone(link')
  BY <1>1, RootsStayAlone
<1>5. QED
  BY <1>2, <1>3, <1>4, Relinked

LEMMA RemoveStep ==
    ASSUME TreeInv, NULL \notin Nodes, link' \in Links, NEW p \in Nodes,
           NEW q \in Seq(Nodes), q = kids[p], NEW k \in Nat, k = Len(q), NEW i \in 1 .. k,
           Removes(link, link', p, q, k, i),
           NEW r \in Seq(Nodes), Len(r) = k - 1, Shorter(q, k, r, i),
           kids' = [kids EXCEPT ![p] = r]
    PROVE  TreeInv'
<1>1. Chain(link, p, q, k) /\ RootsAlone(link)
  BY DEF TreeInv
<1>2. Chain(link', p, r, Len(r))
  BY <1>1, RemoveChain
<1>3. \A t \in Nodes \ {p} : SameChildren(link, link', t)
  BY <1>1, OthersKept
<1>4. RootsAlone(link')
  BY <1>1, RootsStayAlone
<1>5. QED
  BY <1>2, <1>3, <1>4, Relinked

LEMMA PrependKeeps ==
    ASSUME TreeInv, NEW t \in Nodes, NEW n \in Nodes, CFTreePrependChild(t, n)
    PROVE  TreeInv'
<1>0. NULL \notin Nodes
  BY TreeAssumption
<1>1. PICK q \in Seq(Nodes) : q = kids[t]
  BY DEF TreeInv
<1>2. PICK k \in Nat : k = Len(q)
  BY LenProperties
<1>3. Chain(link, t, q, k)
  BY <1>1, <1>2 DEF TreeInv
<1>4. link[n].parent = NULL
  BY DEF CFTreePrependChild, Orphan
<1>5. link' = [link EXCEPT ![n].parent = t, ![n].sibling = link[t].child,
                           ![t].rightmostChild = IF link[t].child = NULL THEN n ELSE @,
                           ![t].child = n]
  BY DEF CFTreePrependChild
<1>6. link' \in Links
  <2>1. PICK c \in Nodes \cup {NULL} : c = link[t].child
    BY DEF TreeInv, Links, Link
  <2>2. PICK z \in Nodes \cup {NULL} : z = IF c = NULL THEN n ELSE link[t].rightmostChild
    BY DEF TreeInv, Links, Link
  <2>3. PICK L1 \in Links : L1 = [link EXCEPT ![n].parent = t]
    BY LinkAssigned DEF TreeInv
  <2>4. PICK L2 \in Links : L2 = [L1 EXCEPT ![n].sibling = c]
    BY LinkAssigned
  <2>5. PICK L3 \in Links : L3 = [L2 EXCEPT ![t].rightmostChild = z]
    BY LinkAssigned
  <2>6. PICK L4 \in Links : L4 = [L3 EXCEPT ![t].child = n]
    BY LinkAssigned
  <2>7. link' = L4
    BY <1>5, <2>1, <2>2, <2>3, <2>4, <2>5, <2>6 DEF TreeInv, Links, Link
  <2>8. QED
    BY <2>7
<1>7. link[t].child = NULL <=> k = 0
  BY <1>0, <1>3 DEF Chain
<1>8. Inserts(link, link', t, q, k, 1, n)
  <2>1. link \in Links
    BY DEF TreeInv
  <2>2. \A m \in Nodes : link'[m].parent = (IF m = n THEN t ELSE link[m].parent)
    BY <1>5, <2>1 DEF Links, Link
  <2>3. \A m \in Nodes : link'[m].sibling = (IF m = n THEN link[t].child ELSE link[m].sibling)
    BY <1>5, <2>1 DEF Links, Link
  <2>4. \A m \in Nodes : m # t => /\ link'[m].child = link[m].child
                                  /\ link'[m].rightmostChild = link[m].rightmostChild
    BY <1>5, <2>1 DEF Links, Link
  <2>5. /\ link'[t].child = n
        /\ link'[t].rightmostChild = (IF k = 0 THEN n ELSE link[t].rightmostChild)
    BY <1>5, <1>7, <2>1 DEF Links, Link
  <2>6. link[t].child = (IF 1 = k + 1 THEN NULL ELSE q[1])
    BY <1>3 DEF Chain
  <2>7. 1 \in 1 .. k + 1 /\ ~(1 > 1) /\ (1 = k + 1 <=> k = 0)
    OBVIOUS
  <2>8. QED
    BY <2>2, <2>3, <2>4, <2>5, <2>6, <2>7 DEF Inserts
<1>9. PICK r : r = <<n>> \o q
  OBVIOUS
<1>10. r \in Seq(Nodes) /\ Len(r) = k + 1 /\ Longer(q, k, r, 1, n)
  <2>1. <<n>> \in Seq(Nodes) /\ Len(<<n>>) = 1 /\ <<n>>[1] = n
    OBVIOUS
  <2>2. /\ <<n>> \o q \in Seq(Nodes) /\ Len(<<n>> \o q) = Len(<<n>>) + Len(q)
        /\ \A j \in 1 .. Len(<<n>>) + Len(q) :
             (<<n>> \o q)[j] = IF j <= Len(<<n>>) THEN <<n>>[j] ELSE q[j - Len(<<n>>)]
    BY <2>1, ConcatProperties
  <2>3. Len(r) = k + 1 /\ \A j \in 1 .. k + 1 : r[j] = IF j <= 1 THEN <<n>>[j] ELSE q[j - 1]
    BY <2>1, <2>2, <1>2, <1>9
  <2>4. QED
    BY <2>1, <2>2, <2>3, <1>9 DEF Longer
<1>11. kids' = [kids EXCEPT ![t] = r]
  BY <1>1, <1>9 DEF CFTreePrependChild, TreeInv
<1>12. 1 \in 1 .. k + 1
  OBVIOUS
<1>13. QED
  BY <1>0, <1>1, <1>2, <1>4, <1>6, <1>8, <1>10, <1>11, <1>12, InsertStep

LEMMA AppendKeeps ==
    ASSUME TreeInv, NEW t \in Nodes, NEW n \in Nodes, CFTreeAppendChild(t, n)
    PROVE  TreeInv'
<1>0. NULL \notin Nodes
  BY TreeAssumption
<1>1. PICK q \in Seq(Nodes) : q = kids[t]
  BY DEF TreeInv
<1>2. PICK k \in Nat : k = Len(q)
  BY LenProperties
<1>3. Chain(link, t, q, k) /\ link \in Links
  BY <1>1, <1>2 DEF TreeInv
<1>4. link[n].parent = NULL
  BY DEF CFTreeAppendChild, Orphan
<1>5. link[t].child = NULL <=> k = 0
  BY <1>0, <1>3 DEF Chain
<1>6. link' \in Links /\ Inserts(link, link', t, q, k, k + 1, n)
  <2>0. k + 1 \in 1 .. k + 1 /\ (k + 1 > 1 <=> k # 0) /\ k + 1 - 1 = k /\ (k + 1 = 1 <=> k = 0)
    OBVIOUS
  <2>1. CASE k = 0
    <3>1. link' = [[link EXCEPT ![t].child = n]
                     EXCEPT ![n].parent = t, ![n].sibling = NULL, ![t].rightmostChild = n]
      BY <2>1, <1>5 DEF CFTreeAppendChild
    <3>2. link' \in Links
      <4>1. PICK L1 \in Links : L1 = [link EXCEPT ![t].child = n]
        BY <1>3, LinkAssigned
      <4>2. PICK L2 \in Links : L2 = [L1 EXCEPT ![n].parent = t]
        BY LinkAssigned
      <4>3. PICK L3 \in Links : L3 = [L2 EXCEPT ![n].sibling = NULL]
        BY LinkAssigned
      <4>4. PICK L4 \in Links : L4 = [L3 EXCEPT ![t].rightmostChild = n]
        BY LinkAssigned
      <4>5. link' = L4
        BY <1>3, <3>1, <4>1, <4>2, <4>3, <4>4 DEF Links, Link
      <4>6. QED
        BY <4>5
    <3>3. \A m \in Nodes : link'[m].parent = (IF m = n THEN t ELSE link[m].parent)
      BY <3>1, <1>3 DEF Links, Link
    <3>4. \A m \in Nodes : link'[m].sibling = (IF m = n THEN NULL ELSE link[m].sibling)
      BY <3>1, <1>3 DEF Links, Link
    <3>5. \A m \in Nodes : m # t => /\ link'[m].child = link[m].child
                                    /\ link'[m].rightmostChild = link[m].rightmostChild
      BY <3>1, <1>3 DEF Links, Link
    <3>6. link'[t].child = n /\ link'[t].rightmostChild = n
      BY <3>1, <1>3 DEF Links, Link
    <3>7. QED
      BY <2>0, <2>1, <3>2, <3>3, <3>4, <3>5, <3>6 DEF Inserts
  <2>2. CASE k # 0
    <3>0. PICK z \in Nodes : z = q[k]
      BY <2>2, <1>3 DEF Chain
    <3>1. z # n /\ link[t].rightmostChild = z
      <4>1. link[z].parent = t
        BY <2>2, <3>0, <1>3 DEF Chain
      <4>2. QED
        BY <4>1, <3>0, <2>2, <1>0, <1>3, <1>4 DEF Chain
    <3>2. link' = [[link EXCEPT ![z].sibling = n]
                     EXCEPT ![n].parent = t, ![n].sibling = NULL, ![t].rightmostChild = n]
      BY <2>2, <1>5, <3>1 DEF CFTreeAppendChild
    <3>3. link' \in Links
      <4>1. PICK L1 \in Links : L1 = [link EXCEPT ![z].sibling = n]
        BY <1>3, LinkAssigned
      <4>2. PICK L2 \in Links : L2 = [L1 EXCEPT ![n].parent = t]
        BY LinkAssigned
      <4>3. PICK L3 \in Links : L3 = [L2 EXCEPT ![n].sibling = NULL]
        BY LinkAssigned
      <4>4. PICK L4 \in Links : L4 = [L3 EXCEPT ![t].rightmostChild = n]
        BY LinkAssigned
      <4>5. link' = L4
        BY <1>3, <3>2, <4>1, <4>2, <4>3, <4>4 DEF Links, Link
      <4>6. QED
        BY <4>5
    <3>4. \A m \in Nodes : link'[m].parent = (IF m = n THEN t ELSE link[m].parent)
      BY <3>2, <1>3 DEF Links, Link
    <3>5. \A m \in Nodes : link'[m].sibling = (IF m = n THEN NULL ELSE IF m = z THEN n
                                               ELSE link[m].sibling)
      BY <3>2, <1>3 DEF Links, Link
    <3>6. \A m \in Nodes : /\ link'[m].child = link[m].child
                           /\ m # t => link'[m].rightmostChild = link[m].rightmostChild
      BY <3>2, <1>3 DEF Links, Link
    <3>7. link'[t].rightmostChild = n
      BY <3>2, <1>3 DEF Links, Link
    <3>8. QED
      BY <2>0, <2>2, <3>0, <3>3, <3>4, <3>5, <3>6, <3>7 DEF Inserts
  <2>3. QED
    BY <2>1, <2>2
<1>7. PICK r : r = Append(q, n)
  OBVIOUS
<1>8. r \in Seq(Nodes) /\ Len(r) = k + 1 /\ Longer(q, k, r, k + 1, n)
  <2>1. /\ r \in Seq(Nodes) /\ Len(r) = Len(q) + 1
        /\ \A j \in 1 .. Len(q) : r[j] = q[j]
        /\ r[Len(q) + 1] = n
    BY <1>7, AppendProperties
  <2>2. QED
    BY <2>1, <1>2 DEF Longer
<1>9. kids' = [kids EXCEPT ![t] = r]
  BY <1>1, <1>7 DEF CFTreeAppendChild, TreeInv
<1>10. k + 1 \in 1 .. k + 1
  OBVIOUS
<1>11. QED
  BY <1>0, <1>1, <1>2, <1>4, <1>6, <1>8, <1>9, <1>10, InsertStep

\* Where a child is among the children of its parent
LEMMA ChildHasPlace ==
    ASSUME TreeInv, NEW t \in Nodes, link[t].parent # NULL, NEW p, p = link[t].parent,
           NEW q, q = kids[p], NEW k, k = Len(q)
    PROVE  /\ p \in Nodes /\ q \in Seq(Nodes) /\ k \in Nat /\ Chain(link, p, q, k)
           /\ Place(p, t) \in 1 .. k /\ q[Place(p, t)] = t
<1>1. p \in Nodes
  BY DEF TreeInv, Links, Link
<1>2. q \in Seq(Nodes)
  BY <1>1 DEF TreeInv
<1>3. k \in Nat /\ DOMAIN q = 1 .. k
  BY <1>2, LenProperties
<1>4. Chain(link, p, q, k)
  BY <1>1 DEF TreeInv
<1>5. \E i \in DOMAIN q : q[i] = t
  BY <1>3, <1>4 DEF Chain
<1>6. QED
  BY <1>1, <1>2, <1>3, <1>4, <1>5 DEF Place

LEMMA InsertSiblingKeeps ==
    ASSUME TreeInv, NEW t \in Nodes, NEW n \in Nodes, CFTreeInsertSibling(t, n)
    PROVE  TreeInv'
<1>0. NULL \notin Nodes /\ link \in Links
  BY TreeAssumption DEF TreeInv
<1>1. link[t].parent # NULL /\ link[n].parent = NULL
  BY DEF CFTreeInsertSibling, Orphan
<1>2. PICK p : p = link[t].parent
  OBVIOUS
<1>3. PICK q : q = kids[p]
  OBVIOUS
<1>4. PICK k : k = Len(q)
  OBVIOUS
<1>5. PICK j : j = Place(p, t)
  OBVIOUS
<1>6. /\ p \in Nodes /\ q \in Seq(Nodes) /\ k \in Nat /\ Chain(link, p, q, k)
      /\ j \in 1 .. k /\ q[j] = t
  BY <1>1, <1>2, <1>3, <1>4, <1>5, ChildHasPlace
<1>7. j + 1 \in 1 .. k + 1 /\ j + 1 > 1 /\ j + 1 - 1 = j /\ (j + 1 = k + 1 <=> j = k) /\ j + 1 # 1
  BY <1>6
<1>8. /\ link[t].sibling = (IF j + 1 = k + 1 THEN NULL ELSE q[j + 1])
      /\ link[p].rightmostChild = t <=> j = k
  <2>1. link[t].sibling = (IF j = k THEN NULL ELSE q[j + 1])
    BY <1>6 DEF Chain
  <2>2. link[p].rightmostChild = q[k] /\ k \in 1 .. k /\ (q[j] = q[k] => j = k)
    BY <1>6 DEF Chain
  <2>3. QED
    BY <1>6, <1>7, <2>1, <2>2
<1>9. link' = [link EXCEPT ![n].parent = p, ![n].sibling = link[t].sibling, ![t].sibling = n,
                           ![p].rightmostChild = IF @ = t THEN n ELSE @]
  BY <1>2 DEF CFTreeInsertSibling
<1>10. link' \in Links
  <2>1. PICK s \in Nodes \cup {NULL} : s = link[t].sibling
    BY <1>0 DEF Links, Link
  <2>2. PICK z \in Nodes \cup {NULL} : z = IF link[p].rightmostChild = t THEN n
                                            ELSE link[p].rightmostChild
    BY <1>0, <1>6 DEF Links, Link
  <2>3. PICK L1 \in Links : L1 = [link EXCEPT ![n].parent = p]
    BY <1>0, <1>6, LinkAssigned
  <2>4. PICK L2 \in Links : L2 = [L1 EXCEPT ![n].sibling = s]
    BY LinkAssigned
  <2>5. PICK L3 \in Links : L3 = [L2 EXCEPT ![t].sibling = n]
    BY LinkAssigned
  <2>6. PICK L4 \in Links : L4 = [L3 EXCEPT ![p].rightmostChild = z]
    BY <1>6, LinkAssigned
  <2>7. link' = L4
    BY <1>0, <1>6, <1>9, <2>1, <2>2, <2>3, <2>4, <2>5, <2>6 DEF Links, Link
  <2>8. QED
    BY <2>7
<1>11. Inserts(link, link', p, q, k, j + 1, n)
  <2>0. n # t
    BY <1>1
  <2>1. \A m \in Nodes : link'[m].parent = (IF m = n THEN p ELSE link[m].parent)
    BY <1>0, <1>6, <1>9 DEF Links, Link
  <2>2. \A m \in Nodes : link'[m].sibling = (IF m = n THEN link[t].sibling ELSE IF m = t THEN n
                                             ELSE link[m].sibling)
    BY <1>0, <1>6, <1>9, <2>0 DEF Links, Link
  <2>3. \A m \in Nodes : /\ link'[m].child = link[m].child
                         /\ m # p => link'[m].rightmostChild = link[m].rightmostChild
    BY <1>0, <1>6, <1>9 DEF Links, Link
  <2>4. link'[p].rightmostChild = (IF link[p].rightmostChild = t THEN n ELSE link[p].rightmostChild)
    BY <1>0, <1>6, <1>9 DEF Links, Link
  <2>5. QED
    BY <1>6, <1>7, <1>8, <2>1, <2>2, <2>3, <2>4 DEF Inserts
<1>12. PICK r : r = InsertAt(q, j + 1, n)
  OBVIOUS
<1>13. r \in Seq(Nodes) /\ Len(r) = k + 1 /\ Longer(q, k, r, j + 1, n)
  BY <1>4, <1>6, <1>7, <1>12, InsertedAt
<1>14. kids' = [kids EXCEPT ![p] = r]
  BY <1>2, <1>3, <1>5, <1>6, <1>12 DEF CFTreeInsertSibling, TreeInv
<1>15. QED
  BY <1>0, <1>1, <1>3, <1>4, <1>6, <1>7, <1>10, <1>11, <1>13, <1>14, InsertStep

\* A node whose sibling is t is the child before t
LEMMA OnePrevious ==
    ASSUME TreeInv, NEW p \in Nodes, NEW q, q = kids[p], NEW k \in Nat, k = Len(q),
           NEW i \in 1 .. k, NEW m \in Nodes, link[m].sibling = q[i]
    PROVE  i > 1 /\ m = q[i - 1]
<1>0. NULL \notin Nodes
  BY TreeAssumption
<1>1. Chain(link, p, q, k)
  BY DEF TreeInv
<1>2. q[i] \in Nodes /\ link[q[i]].parent = p
  BY <1>1 DEF Chain
<1>3. link[m].parent # NULL
  BY <1>0, <1>2 DEF TreeInv, RootsAlone
<1>4. PICK a : a = link[m].parent
  OBVIOUS
<1>5. PICK b : b = kids[a]
  OBVIOUS
<1>6. PICK l : l = Len(b)
  OBVIOUS
<1>7. PICK j : j = Place(a, m)
  OBVIOUS
<1>8. a \in Nodes /\ l \in Nat /\ Chain(link, a, b, l) /\ j \in 1 .. l /\ b[j] = m
  BY <1>3, <1>4, <1>5, <1>6, <1>7, ChildHasPlace
<1>9. link[m].sibling = (IF j = l THEN NULL ELSE b[j + 1])
  BY <1>8 DEF Chain
<1>10. j # l /\ b[j + 1] = q[i] /\ j + 1 \in 1 .. l
  BY <1>0, <1>2, <1>8, <1>9
<1>11. link[b[j + 1]].parent = a
  BY <1>8, <1>10 DEF Chain
<1>12. a = p /\ b = q /\ l = k
  BY <1>2, <1>5, <1>6, <1>10, <1>11
<1>13. j + 1 = i
  BY <1>1, <1>10, <1>12 DEF Chain
<1>14. QED
  BY <1>8, <1>12, <1>13

LEMMA RemoveKeeps ==
    ASSUME TreeInv, NEW t \in Nodes, CFTreeRemove(t)
    PROVE  TreeInv'
<1>0. NULL \notin Nodes /\ link \in Links
  BY TreeAssumption DEF TreeInv
<1>1. link[t].parent # NULL
  BY DEF CFTreeRemove
<1>2. PICK p : p = link[t].parent
  OBVIOUS
<1>3. PICK q : q = kids[p]
  OBVIOUS
<1>4. PICK k : k = Len(q)
  OBVIOUS
<1>5. PICK i : i = Place(p, t)
  OBVIOUS
<1>6. /\ p \in Nodes /\ q \in Seq(Nodes) /\ k \in Nat /\ Chain(link, p, q, k)
      /\ i \in 1 .. k /\ q[i] = t
  BY <1>1, <1>2, <1>3, <1>4, <1>5, ChildHasPlace
<1>7. /\ link[t].sibling = (IF i = k THEN NULL ELSE q[i + 1])
      /\ link[p].child = q[1] /\ link[p].rightmostChild = q[k]
  BY <1>6 DEF Chain
<1>8. (q[1] = t <=> i = 1) /\ (q[k] = t <=> i = k) /\ (link[t].sibling = NULL <=> i = k)
  <2>1. /\ 1 \in 1 .. k /\ k \in 1 .. k /\ (i # k => i + 1 \in 1 .. k)
        /\ \A x, y \in 1 .. k : q[x] = q[y] => x = y
        /\ \A x \in 1 .. k : q[x] \in Nodes
    BY <1>6 DEF Chain
  <2>2. (q[1] = t <=> i = 1) /\ (q[k] = t <=> i = k)
    BY <1>6, <2>1
  <2>3. link[t].sibling = NULL <=> i = k
    BY <1>0, <1>7, <2>1
  <2>4. QED
    BY <2>2, <2>3
<1>9. PICK s \in Nodes \cup {NULL} : s = link[t].sibling
  BY <1>0 DEF Links, Link
<1>10. link' \in Links /\ Removes(link, link', p, q, k, i)
  <2>1. CASE i = 1
    <3>0. PICK z \in Nodes \cup {NULL} : z = IF s = NULL THEN NULL ELSE link[p].rightmostChild
      BY <1>0, <1>6 DEF Links, Link
    <3>1. link' = [link EXCEPT ![p].child = s, ![p].rightmostChild = z,
                               ![t].parent = NULL, ![t].sibling = NULL]
      BY <1>2, <1>7, <1>8, <1>9, <2>1, <3>0 DEF CFTreeRemove
    <3>2. link' \in Links
      <4>1. PICK L1 \in Links : L1 = [link EXCEPT ![p].child = s]
        BY <1>0, <1>6, LinkAssigned
      <4>2. PICK L2 \in Links : L2 = [L1 EXCEPT ![p].rightmostChild = z]
        BY <1>6, LinkAssigned
      <4>3. PICK L3 \in Links : L3 = [L2 EXCEPT ![t].parent = NULL]
        BY LinkAssigned
      <4>4. PICK L4 \in Links : L4 = [L3 EXCEPT ![t].sibling = NULL]
        BY LinkAssigned
      <4>5. link' = L4
        BY <1>0, <1>6, <3>1, <4>1, <4>2, <4>3, <4>4 DEF Links, Link
      <4>6. QED
        BY <4>5
    <3>3. \A m \in Nodes : /\ link'[m].parent = (IF m = t THEN NULL ELSE link[m].parent)
                           /\ link'[m].sibling = (IF m = t THEN NULL ELSE link[m].sibling)
      BY <1>0, <1>6, <3>1 DEF Links, Link
    <3>4. \A m \in Nodes : m # p => /\ link'[m].child = link[m].child
                                    /\ link'[m].rightmostChild = link[m].rightmostChild
      BY <1>0, <1>6, <3>1 DEF Links, Link
    <3>5. link'[p].child = s /\ link'[p].rightmostChild = z
      BY <1>0, <1>6, <3>1 DEF Links, Link
    <3>6. (s = NULL <=> k = 1) /\ (k # 1 => i # k) /\ ~(i > 1)
      BY <1>8, <1>9, <2>1
    <3>7. link'[p].rightmostChild = (IF k = 1 THEN NULL ELSE IF i = k THEN q[k - 1]
                                     ELSE link[p].rightmostChild)
      BY <3>0, <3>5, <3>6
    <3>8. QED
      BY <1>6, <1>9, <2>1, <3>2, <3>3, <3>4, <3>5, <3>6, <3>7 DEF Removes
  <2>2. CASE i # 1
    <3>0. i > 1 /\ i - 1 \in 1 .. k /\ i - 1 # k /\ k # 1
      BY <1>6, <2>2
    <3>1. q[i - 1] \in Nodes /\ link[q[i - 1]].sibling = t /\ q[i - 1] # t
      <4>1. link[q[i - 1]].sibling = q[i - 1 + 1]
        BY <1>6, <3>0 DEF Chain
      <4>2. i - 1 + 1 = i
        BY <1>6
      <4>3. q[i - 1] # q[i]
        BY <1>6, <3>0 DEF Chain
      <4>4. QED
        BY <1>6, <3>0, <4>1, <4>2, <4>3 DEF Chain
    <3>2. PICK prev : prev = Previous(t)
      OBVIOUS
    <3>3. prev \in Nodes /\ link[prev].sibling = t
      BY <3>1, <3>2 DEF Previous
    <3>4. prev = q[i - 1]
      BY <1>3, <1>4, <1>6, <3>3, OnePrevious
    <3>5. PICK z \in Nodes \cup {NULL} : z = IF link[p].rightmostChild = t THEN prev
                                              ELSE link[p].rightmostChild
      BY <1>0, <1>6, <3>3 DEF Links, Link
    <3>6. link' = [link EXCEPT ![prev].sibling = s, ![p].rightmostChild = z,
                               ![t].parent = NULL, ![t].sibling = NULL]
      <4>1. link' = [link EXCEPT ![prev].sibling = s,
                                 ![p].rightmostChild = IF @ = t THEN prev ELSE @,
                                 ![t].parent = NULL, ![t].sibling = NULL]
        BY <1>2, <1>7, <1>8, <1>9, <2>2, <3>2 DEF CFTreeRemove
      <4>2. QED
        BY <4>1, <3>3, <3>5, <1>0, <1>6 DEF Links, Link
    <3>7. link' \in Links
      <4>1. PICK L1 \in Links : L1 = [link EXCEPT ![prev].sibling = s]
        BY <1>0, <3>3, LinkAssigned
      <4>2. PICK L2 \in Links : L2 = [L1 EXCEPT ![p].rightmostChild = z]
        BY <1>6, LinkAssigned
      <4>3. PICK L3 \in Links : L3 = [L2 EXCEPT ![t].parent = NULL]
        BY LinkAssigned
      <4>4. PICK L4 \in Links : L4 = [L3 EXCEPT ![t].sibling = NULL]
        BY LinkAssigned
      <4>5. link' = L4
        BY <1>0, <1>6, <3>3, <3>6, <4>1, <4>2, <4>3, <4>4 DEF Links, Link
      <4>6. QED
        BY <4>5
    <3>8. \A m \in Nodes : /\ link'[m].parent = (IF m = t THEN NULL ELSE link[m].parent)
                           /\ link'[m].sibling = (IF m = t THEN NULL ELSE IF m = prev THEN s
                                                  ELSE link[m].sibling)
      BY <1>0, <1>6, <3>3, <3>6 DEF Links, Link
    <3>9. \A m \in Nodes : /\ link'[m].child = link[m].child
                           /\ m # p => link'[m].rightmostChild = link[m].rightmostChild
      BY <1>0, <1>6, <3>3, <3>6 DEF Links, Link
    <3>10. link'[p].rightmostChild = z
      BY <1>0, <1>6, <3>3, <3>6 DEF Links, Link
    <3>11. link'[p].rightmostChild = (IF k = 1 THEN NULL ELSE IF i = k THEN q[k - 1]
                                      ELSE link[p].rightmostChild)
      BY <1>7, <1>8, <3>0, <3>4, <3>5, <3>10
    <3>12. QED
      BY <1>6, <1>9, <2>2, <3>0, <3>4, <3>7, <3>8, <3>9, <3>11 DEF Removes
  <2>3. QED
    BY <2>1, <2>2
<1>11. PICK r : r = RemoveAt(q, i)
  OBVIOUS
<1>12. r \in Seq(Nodes) /\ Len(r) = k - 1 /\ Shorter(q, k, r, i)
  BY <1>4, <1>6, <1>11, RemovedAt
<1>13. kids' = [kids EXCEPT ![p] = r]
  BY <1>2, <1>3, <1>5, <1>6, <1>11 DEF CFTreeRemove, TreeInv
<1>14. QED
  BY <1>0, <1>3, <1>4, <1>6, <1>10, <1>12, <1>13, RemoveStep

\* Walking _sibling from the first child reaches the children, and no others
LEMMA SiblingsAreChildren ==
    ASSUME TreeInv, NEW t \in Nodes, link[t].child # NULL
    PROVE  Siblings(link[t].child) = {m \in Nodes : link[m].parent = t}
<1>0. NULL \notin Nodes
  BY TreeAssumption
<1>1. PICK q : q = kids[t]
  OBVIOUS
<1>2. PICK k \in Nat : k = Len(q)
  BY <1>1, LenProperties DEF TreeInv
<1>3. Chain(link, t, q, k)
  BY <1>1, <1>2 DEF TreeInv
<1>4. PICK A : A = {m \in Nodes : link[m].parent = t}
  OBVIOUS
<1>5. \A m : m \in A <=> \E i \in 1 .. k : q[i] = m
  BY <1>3, <1>4 DEF Chain
<1>6. 1 \in 1 .. k /\ link[t].child = q[1]
  BY <1>3 DEF Chain
<1>7. \A i \in 1 .. k : q[i] \in Nodes /\ link[q[i]].sibling = (IF i = k THEN NULL ELSE q[i + 1])
  BY <1>3 DEF Chain
<1>8. A \in SUBSET Nodes /\ q[1] \in A /\ \A m \in A : link[m].sibling \in A \cup {NULL}
  <2>1. A \in SUBSET Nodes /\ q[1] \in A
    BY <1>4, <1>5, <1>6
  <2>2. ASSUME NEW m \in A PROVE link[m].sibling \in A \cup {NULL}
    <3>1. PICK i \in 1 .. k : q[i] = m
      BY <1>5
    <3>2. i # k => i + 1 \in 1 .. k
      OBVIOUS
    <3>3. QED
      BY <1>5, <1>7, <3>1, <3>2
  <2>3. QED
    BY <2>1, <2>2
<1>9. ASSUME NEW S \in SUBSET Nodes, q[1] \in S, \A m \in S : link[m].sibling \in S \cup {NULL}
      PROVE  A \subseteq S
  <2> SUFFICES ASSUME NEW a \in 1 .. k, q[a] \notin S PROVE FALSE
    BY <1>5
  <2>1. PICK M : M = {i \in 1 .. k : q[i] \notin S}
    OBVIOUS
  <2>2. M \in SUBSET Nat /\ M # {}
    BY <2>1
  <2>3. PICK x \in M : \A y \in M : x <= y
    BY <2>2, LeastOf
  <2>4. x \in 1 .. k /\ q[x] \notin S /\ x # 1
    BY <1>9, <2>1
  <2>5. x - 1 \in 1 .. k /\ x - 1 # k /\ x - 1 + 1 = x /\ ~(x <= x - 1)
    BY <2>4
  <2>6. q[x - 1] \in S
    BY <2>1, <2>3, <2>5
  <2>7. link[q[x - 1]].sibling = q[x]
    BY <1>7, <2>5
  <2>8. q[x] \in Nodes
    BY <1>7, <2>4
  <2>9. QED
    BY <1>0, <1>9, <2>4, <2>6, <2>7, <2>8
<1>10. Siblings(q[1]) \subseteq A
  BY <1>8 DEF Siblings
<1>11. A \subseteq Siblings(q[1])
  <2> SUFFICES ASSUME NEW m \in A, NEW S \in SUBSET Nodes,
                      q[1] \in S, \A x \in S : link[x].sibling \in S \cup {NULL}
               PROVE  m \in S
    BY <1>8 DEF Siblings
  <2>1. QED
    BY <1>9
<1>12. QED
  BY <1>4, <1>6, <1>10, <1>11

\* Assigning the links of one node
Assigned(x, c, z, p, s) == [x EXCEPT !.child = c, !.rightmostChild = z, !.parent = p, !.sibling = s]

LEMMA NodeAssigned ==
    ASSUME NEW x \in Link, NEW c \in Nodes \cup {NULL}, NEW z \in Nodes \cup {NULL},
           NEW p \in Nodes \cup {NULL}, NEW s \in Nodes \cup {NULL}
    PROVE  Assigned(x, c, z, p, s) \in Link
  BY DEF Link, Assigned

LEMMA RemoveAllKeeps ==
    ASSUME TreeInv, NEW t \in Nodes, CFTreeRemoveAllChildren(t)
    PROVE  TreeInv'
<1>0. NULL \notin Nodes /\ link \in Links /\ RootsAlone(link)
  BY TreeAssumption DEF TreeInv
<1>1. PICK A : A = {m \in Nodes : link[m].parent = t}
  OBVIOUS
<1>2. Siblings(link[t].child) = A
  BY <1>1, SiblingsAreChildren DEF CFTreeRemoveAllChildren
<1>3. link' = [m \in Nodes |->
                 [link[m] EXCEPT !.child = IF m = t THEN NULL ELSE @,
                                 !.rightmostChild = IF m = t THEN NULL ELSE @,
                                 !.parent = IF m \in A THEN NULL ELSE @,
                                 !.sibling = IF m \in A THEN NULL ELSE @]]
  BY <1>2 DEF CFTreeRemoveAllChildren
<1>4. link' \in Links
  <2>1. ASSUME NEW m \in Nodes
        PROVE  link'[m] \in Link
    <3>1. PICK c \in Nodes \cup {NULL} : c = IF m = t THEN NULL ELSE link[m].child
      BY <1>0 DEF Links, Link
    <3>2. PICK z \in Nodes \cup {NULL} : z = IF m = t THEN NULL ELSE link[m].rightmostChild
      BY <1>0 DEF Links, Link
    <3>3. PICK p \in Nodes \cup {NULL} : p = IF m \in A THEN NULL ELSE link[m].parent
      BY <1>0 DEF Links, Link
    <3>4. PICK s \in Nodes \cup {NULL} : s = IF m \in A THEN NULL ELSE link[m].sibling
      BY <1>0 DEF Links, Link
    <3>5. link'[m] = Assigned(link[m], c, z, p, s)
      BY <1>3, <3>1, <3>2, <3>3, <3>4 DEF Assigned
    <3>6. link[m] \in Link
      BY <1>0 DEF Links
    <3>7. \A x \in Link : Assigned(x, c, z, p, s) \in Link
      BY NodeAssigned
    <3>8. QED
      BY <3>5, <3>6, <3>7
  <2>2. QED
    BY <1>3, <2>1 DEF Links, Link
<1>5. \A m \in Nodes :
        /\ link'[m].child = (IF m = t THEN NULL ELSE link[m].child)
        /\ link'[m].rightmostChild = (IF m = t THEN NULL ELSE link[m].rightmostChild)
        /\ link'[m].parent = (IF m \in A THEN NULL ELSE link[m].parent)
        /\ link'[m].sibling = (IF m \in A THEN NULL ELSE link[m].sibling)
  BY <1>0, <1>3 DEF Links, Link
<1>6. PICK r : r \in Seq(Nodes) /\ r = <<>> /\ Len(r) = 0
  BY EmptySeq
<1>7. Chain(link', t, r, Len(r))
  <2>1. \A m \in Nodes : link'[m].parent # t
    BY <1>0, <1>1, <1>5
  <2>2. QED
    BY <1>5, <1>6, <2>1 DEF Chain
<1>8. RootsAlone(link')
  BY <1>0, <1>5 DEF RootsAlone
<1>9. \A u \in Nodes \ {t} : SameChildren(link, link', u)
  BY <1>0, <1>1, <1>5 DEF SameChildren
<1>10. kids' = [kids EXCEPT ![t] = r]
  BY <1>6 DEF CFTreeRemoveAllChildren
<1>11. QED
  BY <1>4, <1>6, <1>7, <1>8, <1>9, <1>10, Relinked

LEMMA SortKeeps ==
    ASSUME TreeInv, NEW t \in Nodes, CFTreeSortChildren(t)
    PROVE  TreeInv'
<1>0. NULL \notin Nodes /\ link \in Links /\ RootsAlone(link) /\ IsFiniteSet(Nodes)
  BY TreeAssumption DEF TreeInv
<1>1. PICK A : A = {m \in Nodes : link[m].parent = t}
  OBVIOUS
<1>2. Siblings(link[t].child) = A
  BY <1>1, SiblingsAreChildren DEF CFTreeSortChildren
<1>3. PICK n : n = Cardinality(A)
  OBVIOUS
<1>4. n \in Nat /\ n > 1
  <2>1. IsFiniteSet(A)
    BY <1>0, <1>1, FS_Subset
  <2>2. QED
    BY <2>1, <1>2, <1>3, FS_CardinalityType DEF CFTreeSortChildren
<1>5. PICK list \in Bijection(1 .. n, A) :
        /\ link' = [m \in Nodes |->
                      [link[m] EXCEPT
                         !.child = IF m = t THEN list[1] ELSE @,
                         !.rightmostChild = IF m = t THEN list[n] ELSE @,
                         !.sibling = IF m \in A THEN Following(list, m) ELSE @]]
        /\ kids' = [kids EXCEPT ![t] = list]
  BY <1>2, <1>3 DEF CFTreeSortChildren
<1>6. /\ list \in [1 .. n -> A]
      /\ \A i, j \in 1 .. n : list[i] = list[j] => i = j
      /\ \A m \in A : \E i \in 1 .. n : list[i] = m
  BY DEF Bijection, Injection, Surjection, IsInjective
<1>7. list \in Seq(Nodes) /\ Len(list) = n
  BY <1>1, <1>4, <1>6
\* The siblings after the sort
<1>9. PICK after : after = [m \in Nodes |-> IF m \in A THEN Following(list, m)
                                            ELSE link[m].sibling]
  OBVIOUS
<1>10. /\ \A m \in Nodes \ A : after[m] = link[m].sibling
       /\ \A i \in 1 .. n : list[i] \in Nodes
       /\ \A i \in 1 .. n : after[list[i]] = (IF i = n THEN NULL ELSE list[i + 1])
  <2>1. \A m \in Nodes \ A : after[m] = link[m].sibling
    BY <1>9
  <2>2. \A i \in 1 .. n : list[i] \in Nodes /\ list[i] \in A
    BY <1>1, <1>6
  <2>3. ASSUME NEW i \in 1 .. n PROVE after[list[i]] = (IF i = n THEN NULL ELSE list[i + 1])
    <3>1. PICK j : j = CHOOSE x \in DOMAIN list : list[x] = list[i]
      OBVIOUS
    <3>2. j = i
      BY <1>6, <3>1
    <3>3. list[i] = list[n] <=> i = n
      BY <1>4, <1>6
    <3>4. after[list[i]] = (IF list[i] = list[n] THEN NULL ELSE list[1 + j])
      BY <1>7, <1>9, <2>2, <3>1 DEF Following, Last
    <3>5. 1 + j = i + 1
      BY <3>2
    <3>6. QED
      BY <3>3, <3>4, <3>5
  <2>4. QED
    BY <2>1, <2>2, <2>3
<1>11. after \in [Nodes -> Nodes \cup {NULL}]
  <2>1. ASSUME NEW m \in Nodes PROVE after[m] \in Nodes \cup {NULL}
    <3>1. CASE m \notin A
      BY <3>1, <1>0, <1>10 DEF Links, Link
    <3>2. CASE m \in A
      <4>1. PICK i \in 1 .. n : list[i] = m
        BY <3>2, <1>6
      <4>2. i # n => i + 1 \in 1 .. n
        BY <1>4
      <4>3. QED
        BY <4>1, <4>2, <1>10
    <3>3. QED
      BY <3>1, <3>2
  <2>2. QED
    BY <2>1, <1>9
<1>12. link' = [m \in Nodes |-> [link[m] EXCEPT !.child = IF m = t THEN list[1] ELSE @,
                                                !.rightmostChild = IF m = t THEN list[n] ELSE @,
                                                !.sibling = IF m \in A THEN Following(list, m) ELSE @]]
  BY <1>5
<1>13. 1 \in 1 .. n /\ n \in 1 .. n
  BY <1>4
<1>14. link' \in Links
  <2>1. ASSUME NEW m \in Nodes
        PROVE  link'[m] \in Link
    <3>1. PICK c \in Nodes \cup {NULL} : c = IF m = t THEN list[1] ELSE link[m].child
      BY <1>0, <1>10, <1>13 DEF Links, Link
    <3>2. PICK z \in Nodes \cup {NULL} : z = IF m = t THEN list[n] ELSE link[m].rightmostChild
      BY <1>0, <1>10, <1>13 DEF Links, Link
    <3>3. PICK p \in Nodes \cup {NULL} : p = link[m].parent
      BY <1>0 DEF Links, Link
    <3>4. PICK s \in Nodes \cup {NULL} : s = after[m]
      BY <1>11
    <3>5. link'[m] = [link[m] EXCEPT !.child = c, !.rightmostChild = z, !.sibling = s]
      BY <1>9, <1>12, <3>1, <3>2, <3>4
    <3>6. link[m] \in Link
      BY <1>0 DEF Links
    <3>7. link'[m] = Assigned(link[m], c, z, p, s)
      BY <3>3, <3>5, <3>6 DEF Assigned, Link
    <3>8. \A x \in Link : Assigned(x, c, z, p, s) \in Link
      BY NodeAssigned
    <3>9. QED
      BY <3>6, <3>7, <3>8
  <2>2. QED
    BY <1>12, <2>1 DEF Links, Link
<1>15. \A m \in Nodes :
         /\ link'[m].child = (IF m = t THEN list[1] ELSE link[m].child)
         /\ link'[m].rightmostChild = (IF m = t THEN list[n] ELSE link[m].rightmostChild)
         /\ link'[m].parent = link[m].parent
         /\ link'[m].sibling = after[m]
  BY <1>0, <1>9, <1>12 DEF Links, Link
<1>16. Chain(link', t, list, Len(list))
  <2>1. \A m \in Nodes : link'[m].parent = t <=> \E i \in 1 .. n : list[i] = m
    BY <1>1, <1>6, <1>15
  <2>2. \A i \in 1 .. n : link'[list[i]].sibling = (IF i = n THEN NULL ELSE list[i + 1])
    BY <1>10, <1>15
  <2>3. n # 0 /\ link'[t].child = list[1] /\ link'[t].rightmostChild = list[n]
    BY <1>4, <1>15
  <2>4. Chain(link', t, list, n)
    BY <1>4, <1>6, <1>10, <2>1, <2>2, <2>3 DEF Chain
  <2>5. QED
    BY <2>4, <1>7
<1>17. RootsAlone(link')
  BY <1>0, <1>1, <1>10, <1>15 DEF RootsAlone
<1>18. \A u \in Nodes \ {t} : SameChildren(link, link', u)
  BY <1>1, <1>10, <1>15 DEF SameChildren
<1>19. QED
  BY <1>5, <1>7, <1>14, <1>16, <1>17, <1>18, Relinked

-----------------------------------------------------------------------------
(* The tree: the theorem *)

LEMMA InitTreeInv == TreeInit => TreeInv
<1> SUFFICES ASSUME TreeInit PROVE TreeInv
  OBVIOUS
<1>0. NULL \notin Nodes
  BY TreeAssumption
<1>1. link \in Links /\ kids \in [Nodes -> Seq(Nodes)]
  BY DEF TreeInit, Links, Link
<1>2. \A t \in Nodes : kids[t] = <<>> /\ Len(kids[t]) = 0
  BY DEF TreeInit
<1>3. \A m \in Nodes : /\ link[m].parent = NULL /\ link[m].child = NULL
                       /\ link[m].sibling = NULL /\ link[m].rightmostChild = NULL
  BY DEF TreeInit
<1>4. ASSUME NEW t \in Nodes PROVE Chain(link, t, kids[t], Len(kids[t]))
  <2>1. Chain(link, t, kids[t], 0)
    BY <1>0, <1>3 DEF Chain
  <2>2. QED
    BY <1>2, <2>1
<1>5. QED
  BY <1>1, <1>3, <1>4 DEF TreeInv, RootsAlone

LEMMA NextTreeInv == TreeInv /\ [TreeNext]_treeVars => TreeInv'
<1> SUFFICES ASSUME TreeInv, [TreeNext]_treeVars PROVE TreeInv'
  OBVIOUS
<1>1. CASE TreeNext
  <2>1. PICK t \in Nodes :
          \/ \E n \in Nodes :
               CFTreePrependChild(t, n) \/ CFTreeAppendChild(t, n) \/ CFTreeInsertSibling(t, n)
          \/ CFTreeRemove(t) \/ CFTreeRemoveAllChildren(t) \/ CFTreeSortChildren(t)
    BY <1>1 DEF TreeNext
  <2>2. ASSUME NEW n \in Nodes, CFTreePrependChild(t, n) PROVE TreeInv'
    BY <2>2, PrependKeeps
  <2>3. ASSUME NEW n \in Nodes, CFTreeAppendChild(t, n) PROVE TreeInv'
    BY <2>3, AppendKeeps
  <2>4. ASSUME NEW n \in Nodes, CFTreeInsertSibling(t, n) PROVE TreeInv'
    BY <2>4, InsertSiblingKeeps
  <2>5. CASE CFTreeRemove(t)
    BY <2>5, RemoveKeeps
  <2>6. CASE CFTreeRemoveAllChildren(t)
    BY <2>6, RemoveAllKeeps
  <2>7. CASE CFTreeSortChildren(t)
    BY <2>7, SortKeeps
  <2>8. QED
    BY <2>1, <2>2, <2>3, <2>4, <2>5, <2>6, <2>7
<1>2. CASE UNCHANGED treeVars
  BY <1>2 DEF TreeInv, treeVars
<1>3. QED
  BY <1>1, <1>2

LEMMA TreeInvRepresents == TreeInv => TreeIsSequences
<1> SUFFICES ASSUME TreeInv, NEW t \in Nodes PROVE Represents(t, kids[t])
  BY DEF TreeIsSequences
<1>1. PICK q \in Seq(Nodes) : q = kids[t]
  BY DEF TreeInv
<1>2. PICK k \in Nat : k = Len(q)
  BY LenProperties
<1>3. Chain(link, t, q, k)
  BY <1>1, <1>2 DEF TreeInv
<1>4. DOMAIN q = 1 .. k /\ (q = <<>> <=> k = 0)
  BY <1>2, LenProperties, EmptySeq
<1>5. Represents(t, q)
  BY <1>2, <1>3, <1>4 DEF Represents, Chain
<1>6. QED
  BY <1>1, <1>5

\* After any calls of the functions of CFTree.c, in any order and on any trees,
\* _child and the _sibling of its nodes give the children in the order the calls
\* put them, _rightmostChild is the last of them, and _parent leads back from
\* the children and from no other node.
THEOREM TreeLinks == TreeSpec => []TreeIsSequences
<1>1. TreeSpec => []TreeInv
  BY InitTreeInv, NextTreeInv, PTL DEF TreeSpec
<1>2. QED
  BY <1>1, TreeInvRepresents, PTL

-----------------------------------------------------------------------------
(* The heap: the places of the buckets and the capacity *)

LEMMA ParentFacts ==
    ASSUME NEW i \in Nat, i > 0
    PROVE  /\ Parent(i) \in Nat /\ Parent(i) < i
           /\ i = 2 * Parent(i) + 1 \/ i = 2 * Parent(i) + 2
  BY DEF Parent

LEMMA ChildFacts ==
    ASSUME NEW i \in Nat
    PROVE  /\ Parent(2 * i + 1) = i /\ Parent(2 * i + 2) = i
           /\ 2 * i + 1 > i /\ 2 * i + 2 > i
  BY DEF Parent

\* There is a power of two above n and not above its double
LEMMA PowerAbove ==
    ASSUME NEW n \in 1 .. MaxHeap
    PROVE  \E p \in PowersOfTwo : n < p /\ p <= 2 * n
<1>0. MaxHeap \in Nat /\ n \in Nat
  BY HeapAssumption
<1>1. PICK U : U = PowersOfTwo
  OBVIOUS
<1>2. U \subseteq 1 .. 2 * MaxHeap /\ 1 \in U
  BY <1>0, <1>1 DEF PowersOfTwo
<1>3. ASSUME NEW x \in U, x <= MaxHeap PROVE 2 * x \in U
  <2>1. x \in 1 .. 2 * MaxHeap /\ 2 * x \in 1 .. 2 * MaxHeap
    BY <1>0, <1>2, <1>3
  <2> SUFFICES ASSUME NEW S \in SUBSET (1 .. 2 * MaxHeap),
                      1 \in S /\ (\A y \in S : y <= MaxHeap => 2 * y \in S)
               PROVE  2 * x \in S
    BY <1>1, <2>1 DEF PowersOfTwo
  <2>2. x \in S
    BY <1>1 DEF PowersOfTwo
  <2>3. QED
    BY <1>3, <2>2
<1> SUFFICES ASSUME \A p \in U : ~(n < p /\ p <= 2 * n) PROVE FALSE
  BY <1>1
<1>4. PICK M : M = {d \in 0 .. n : n - d \in U}
  OBVIOUS
<1>5. M \in SUBSET Nat /\ n - 1 \in M
  <2>1. n - 1 \in 0 .. n /\ n - (n - 1) = 1
    BY <1>0
  <2>2. QED
    BY <1>0, <1>2, <1>4, <2>1
<1>6. PICK d \in M : \A e \in M : d <= e
  BY <1>5, LeastOf
<1>7. d \in 0 .. n /\ n - d \in U /\ n - d \in 1 .. n
  BY <1>0, <1>2, <1>4
<1>8. PICK x \in 1 .. n : x = n - d
  BY <1>7
<1>9. 2 * x \in U
  <2>1. x \in U /\ x <= MaxHeap
    BY <1>0, <1>7, <1>8
  <2>2. QED
    BY <2>1, <1>3
<1>10. 2 * x <= n
  BY <1>0, <1>8, <1>9
<1>11. PICK e \in 0 .. n : e = n - 2 * x
  BY <1>0, <1>10
<1>12. e \in M
  <2>1. n - e = 2 * x
    BY <1>0, <1>11
  <2>2. QED
    BY <1>4, <1>9, <2>1
<1>13. d <= e
  BY <1>6, <1>12
<1>14. QED
  BY <1>0, <1>7, <1>8, <1>11, <1>13

LEMMA CapacityGrows ==
    ASSUME NEW n \in 1 .. MaxHeap
    PROVE  RoundUpCapacity(n) \in Nat /\ n <= RoundUpCapacity(n)
<1>1. CASE n < 4
  BY <1>1 DEF RoundUpCapacity
<1>2. CASE ~(n < 4)
  <2>1. PICK r : r = CHOOSE p \in PowersOfTwo : n < p /\ p <= 2 * n
    OBVIOUS
  <2>2. r \in PowersOfTwo /\ n < r
    BY <2>1, PowerAbove
  <2>3. r \in 1 .. 2 * MaxHeap
    BY <2>2 DEF PowersOfTwo
  <2>4. RoundUpCapacity(n) = r
    BY <1>2, <2>1 DEF RoundUpCapacity
  <2>5. QED
    BY <2>2, <2>3, <2>4, HeapAssumption
<1>3. QED
  BY <1>1, <1>2

-----------------------------------------------------------------------------
(* The heap: order, with a hole *)

\* x is written to bucket h
Put(b, h, x) == [b EXCEPT ![h] = x]

\* No bucket but the hole h is above a smaller one
Ordered(b, n, h) ==
    \A i \in 1 .. n - 1 : i # h /\ Parent(i) # h => b[Parent(i)] <= b[i]

\* and what is above the hole is not above what is below it
Spans(b, n, h) ==
    h > 0 => \A c \in 1 .. n - 1 : Parent(c) = h => b[Parent(h)] <= b[c]

\* v may stand above what is below the hole, or below what is above it
FitsAbove(b, n, h, v) == \A c \in 1 .. n - 1 : Parent(c) = h => v <= b[c]
FitsBelow(b, h, v) == h > 0 => b[Parent(h)] <= v

LEMMA ParentPlace ==
    ASSUME NEW n \in Nat, NEW i \in 1 .. n - 1
    PROVE  Parent(i) \in 0 .. n - 1 /\ Parent(i) < i
  BY ParentFacts

\* The first is the least
LEMMA RootLeast ==
    ASSUME NEW n \in Nat, NEW b \in [0 .. n - 1 -> Int], Ordered(b, n, -1)
    PROVE  \A i \in 0 .. n - 1 : b[0] <= b[i]
<1> SUFFICES ASSUME NEW a \in 0 .. n - 1, ~(b[0] <= b[a]) PROVE FALSE
  OBVIOUS
<1>1. PICK M : M = {i \in 0 .. n - 1 : ~(b[0] <= b[i])}
  OBVIOUS
<1>2. M \in SUBSET Nat /\ M # {}
  BY <1>1
<1>3. PICK x \in M : \A y \in M : x <= y
  BY <1>2, LeastOf
<1>4. x \in 0 .. n - 1 /\ ~(b[0] <= b[x]) /\ x # 0
  BY <1>1
<1>5. Parent(x) \in 0 .. n - 1 /\ Parent(x) < x
  BY <1>4, ParentPlace
<1>6. b[0] <= b[Parent(x)]
  BY <1>1, <1>3, <1>4, <1>5
<1>7. b[Parent(x)] <= b[x]
  BY <1>4, <1>5 DEF Ordered
<1>8. QED
  BY <1>4, <1>5, <1>6, <1>7

LEMMA RoundUp ==
    ASSUME NEW n \in Nat, NEW b \in [0 .. n - 1 -> Int], NEW h \in 1 .. n - 1, NEW v \in Int,
           NEW p, p = Parent(h), b[p] > v, NEW c, c = Put(b, h, b[p]),
           Ordered(b, n, h), Spans(b, n, h), FitsAbove(b, n, h, v)
    PROVE  Ordered(c, n, p) /\ Spans(c, n, p) /\ FitsAbove(c, n, p, v)
<1>1. p \in 0 .. n - 1 /\ p < h
  BY ParentPlace
<1>2. \A i \in 0 .. n - 1 : c[i] = IF i = h THEN b[p] ELSE b[i]
  BY <1>1 DEF Put
<1>3. Ordered(c, n, p)
  <2> SUFFICES ASSUME NEW i \in 1 .. n - 1, i # p, Parent(i) # p
               PROVE  c[Parent(i)] <= c[i]
    BY DEF Ordered
  <2>1. Parent(i) \in 0 .. n - 1 /\ i # h
    BY ParentPlace
  <2>2. CASE Parent(i) = h
    <3>1. b[p] <= b[i]
      BY <2>2, <1>1 DEF Spans
    <3>2. QED
      BY <2>1, <2>2, <3>1, <1>2
  <2>3. CASE Parent(i) # h
    <3>1. b[Parent(i)] <= b[i]
      BY <2>1, <2>3 DEF Ordered
    <3>2. QED
      BY <2>1, <2>3, <3>1, <1>2
  <2>4. QED
    BY <2>2, <2>3
<1>4. \A i \in 1 .. n - 1 : Parent(i) = p => b[p] <= c[i]
  <2> SUFFICES ASSUME NEW i \in 1 .. n - 1, Parent(i) = p PROVE b[p] <= c[i]
    OBVIOUS
  <2>1. CASE i = h
    BY <2>1, <1>1, <1>2
  <2>2. CASE i # h
    <3>1. p # h
      BY <1>1
    <3>2. b[p] <= b[i]
      BY <2>2, <3>1 DEF Ordered
    <3>3. QED
      BY <2>2, <3>2, <1>2
  <2>3. QED
    BY <2>1, <2>2
<1>5. FitsAbove(c, n, p, v)
  <2> SUFFICES ASSUME NEW i \in 1 .. n - 1, Parent(i) = p PROVE v <= c[i]
    BY DEF FitsAbove
  <2>1. b[p] <= c[i] /\ b[p] \in Int /\ c[i] \in Int
    BY <1>1, <1>2, <1>4
  <2>2. QED
    BY <2>1
<1>6. Spans(c, n, p)
  <2> SUFFICES ASSUME p > 0, NEW i \in 1 .. n - 1, Parent(i) = p PROVE c[Parent(p)] <= c[i]
    BY DEF Spans
  <2>1. p \in 1 .. n - 1
    BY <1>1
  <2>2. Parent(p) \in 0 .. n - 1 /\ Parent(p) < p
    BY <2>1, ParentPlace
  <2>3. Parent(p) # h /\ p # h
    BY <1>1, <2>2
  <2>4. b[Parent(p)] <= b[p]
    BY <2>1, <2>3 DEF Ordered
  <2>5. c[Parent(p)] = b[Parent(p)] /\ b[Parent(p)] \in Int
    BY <1>2, <2>2, <2>3
  <2>6. b[p] <= c[i] /\ b[p] \in Int /\ c[i] \in Int
    BY <1>1, <1>2, <1>4
  <2>7. QED
    BY <2>4, <2>5, <2>6
<1>7. QED
  BY <1>3, <1>5, <1>6

\* k is the child that goes up
LEMMA RoundDown ==
    ASSUME NEW n \in Nat, NEW b \in [0 .. n - 1 -> Int], NEW h \in 0 .. n - 1, NEW v \in Int,
           NEW k \in 1 .. n - 1, Parent(k) = h, b[k] <= v, NEW c, c = Put(b, h, b[k]),
           \A i \in 1 .. n - 1 : Parent(i) = h => b[k] <= b[i],
           Ordered(b, n, h), Spans(b, n, h)
    PROVE  Ordered(c, n, k) /\ Spans(c, n, k) /\ FitsBelow(c, k, v)
<1>1. h < k
  BY ParentPlace
<1>2. \A i \in 0 .. n - 1 : c[i] = IF i = h THEN b[k] ELSE b[i]
  BY DEF Put
<1>3. Ordered(c, n, k)
  <2> SUFFICES ASSUME NEW i \in 1 .. n - 1, i # k, Parent(i) # k
               PROVE  c[Parent(i)] <= c[i]
    BY DEF Ordered
  <2>1. Parent(i) \in 0 .. n - 1 /\ Parent(i) < i
    BY ParentPlace
  <2>2. CASE i = h
    <3>1. b[Parent(h)] <= b[k]
      BY <2>2 DEF Spans
    <3>2. QED
      BY <2>1, <2>2, <3>1, <1>2
  <2>3. CASE i # h /\ Parent(i) = h
    BY <2>3, <1>2
  <2>4. CASE i # h /\ Parent(i) # h
    <3>1. b[Parent(i)] <= b[i]
      BY <2>4 DEF Ordered
    <3>2. QED
      BY <2>1, <2>4, <3>1, <1>2
  <2>5. QED
    BY <2>2, <2>3, <2>4
<1>4. Spans(c, n, k)
  <2> SUFFICES ASSUME NEW i \in 1 .. n - 1, Parent(i) = k PROVE c[h] <= c[i]
    BY DEF Spans
  <2>1. i # h /\ k # h
    BY <1>1, ParentPlace
  <2>2. b[k] <= b[i]
    BY <2>1 DEF Ordered
  <2>3. QED
    BY <1>2, <2>1, <2>2
<1>5. FitsBelow(c, k, v)
  BY <1>2 DEF FitsBelow
<1>6. QED
  BY <1>3, <1>4, <1>5

\* Where v fits between what is above the hole and what is below it
LEMMA FillHole ==
    ASSUME NEW n \in Nat, NEW b \in [0 .. n - 1 -> Int], NEW h \in 0 .. n - 1, NEW v \in Int,
           NEW c, c = Put(b, h, v),
           Ordered(b, n, h), FitsAbove(b, n, h, v), FitsBelow(b, h, v)
    PROVE  Ordered(c, n, -1)
<1>1. \A i \in 0 .. n - 1 : c[i] = IF i = h THEN v ELSE b[i]
  BY DEF Put
<1> SUFFICES ASSUME NEW i \in 1 .. n - 1 PROVE c[Parent(i)] <= c[i]
  BY DEF Ordered
<1>2. Parent(i) \in 0 .. n - 1 /\ Parent(i) < i
  BY ParentPlace
<1>3. CASE i = h
  BY <1>1, <1>2, <1>3 DEF FitsBelow
<1>4. CASE i # h /\ Parent(i) = h
  BY <1>1, <1>2, <1>4 DEF FitsAbove
<1>5. CASE i # h /\ Parent(i) # h
  BY <1>1, <1>2, <1>5 DEF Ordered
<1>6. QED
  BY <1>3, <1>4, <1>5

-----------------------------------------------------------------------------
(* The heap: what the buckets hold *)

Copies(b, S, v) == {i \in S : b[i] = v}
One(x, v) == IF x = v THEN 1 ELSE 0

LEMMA CopiesCounted ==
    ASSUME NEW n \in Nat, NEW S \in SUBSET (0 .. n - 1), NEW b, NEW v
    PROVE  IsFiniteSet(Copies(b, S, v)) /\ Cardinality(Copies(b, S, v)) \in Nat
<1>1. IsFiniteSet(0 .. n - 1)
  BY FS_Interval
<1>2. Copies(b, S, v) \subseteq 0 .. n - 1
  BY DEF Copies
<1>3. QED
  BY <1>1, <1>2, FS_Subset, FS_CardinalityType

\* The number of copies of v with place h and without it
Splits(b, S, h, v) ==
    Cardinality(Copies(b, S, v)) = Cardinality(Copies(b, S \ {h}, v)) + One(b[h], v)

LEMMA CopiesWithout ==
    ASSUME NEW n \in Nat, NEW S, S \subseteq 0 .. n - 1, NEW b, NEW v, NEW h \in S
    PROVE  Splits(b, S, h, v)
<1>1. PICK T : T = Copies(b, S \ {h}, v)
  OBVIOUS
<1>2. IsFiniteSet(T) /\ Cardinality(T) \in Nat
  BY <1>1, CopiesCounted
<1>3. h \notin T
  BY <1>1 DEF Copies
<1>4. CASE b[h] = v
  <2>1. Copies(b, S, v) = T \cup {h}
    BY <1>1, <1>4 DEF Copies
  <2>2. Cardinality(T \cup {h}) = Cardinality(T) + 1
    BY <1>2, <1>3, FS_AddElement
  <2>3. QED
    BY <1>1, <1>4, <2>1, <2>2 DEF One, Splits
<1>5. CASE b[h] # v
  <2>1. Copies(b, S, v) = T
    BY <1>1, <1>5 DEF Copies
  <2>2. QED
    BY <1>1, <1>2, <1>5, <2>1 DEF One, Splits
<1>6. QED
  BY <1>4, <1>5

SameCopies(c, S, b, T, v) == Cardinality(Copies(c, S, v)) = Cardinality(Copies(b, T, v))

LEMMA CopiesMoved ==
    ASSUME NEW n \in Nat, NEW T, NEW b \in [0 .. n - 1 -> T], NEW v,
           NEW h \in 0 .. n - 1, NEW k \in 0 .. n - 1, h # k, NEW c, c = Put(b, h, b[k])
    PROVE  SameCopies(c, (0 .. n - 1) \ {k}, b, (0 .. n - 1) \ {h}, v)
<1>1. c[h] = b[k] /\ \A i \in 0 .. n - 1 : i # h => c[i] = b[i]
  BY DEF Put
<1>2. PICK S : S = ((0 .. n - 1) \ {k}) \ {h} /\ S = ((0 .. n - 1) \ {h}) \ {k}
  OBVIOUS
<1>3. Copies(c, S, v) = Copies(b, S, v)
  BY <1>1, <1>2 DEF Copies
<1>4. Cardinality(Copies(c, (0 .. n - 1) \ {k}, v)) = Cardinality(Copies(c, S, v)) + One(c[h], v)
  <2>1. PICK A : A \subseteq 0 .. n - 1 /\ A = (0 .. n - 1) \ {k} /\ h \in A
    OBVIOUS
  <2>2. Splits(c, A, h, v)
    BY <2>1, CopiesWithout
  <2>3. QED
    BY <1>2, <2>1, <2>2 DEF Splits
<1>5. Cardinality(Copies(b, (0 .. n - 1) \ {h}, v)) = Cardinality(Copies(b, S, v)) + One(b[k], v)
  <2>1. PICK A : A \subseteq 0 .. n - 1 /\ A = (0 .. n - 1) \ {h} /\ k \in A
    OBVIOUS
  <2>2. Splits(b, A, k, v)
    BY <2>1, CopiesWithout
  <2>3. QED
    BY <1>2, <2>1, <2>2 DEF Splits
<1>6. QED
  BY <1>1, <1>3, <1>4, <1>5 DEF SameCopies

OneMore(c, S, b, T, w, v) ==
    Cardinality(Copies(c, S, v)) = Cardinality(Copies(b, T, v)) + One(w, v)

LEMMA CopiesFilled ==
    ASSUME NEW n \in Nat, NEW T, NEW b \in [0 .. n - 1 -> T], NEW v, NEW w,
           NEW h \in 0 .. n - 1, NEW c, c = Put(b, h, w)
    PROVE  OneMore(c, 0 .. n - 1, b, (0 .. n - 1) \ {h}, w, v)
<1>1. c[h] = w /\ \A i \in 0 .. n - 1 : i # h => c[i] = b[i]
  BY DEF Put
<1>2. Copies(c, (0 .. n - 1) \ {h}, v) = Copies(b, (0 .. n - 1) \ {h}, v)
  BY <1>1 DEF Copies
<1>3. Cardinality(Copies(c, 0 .. n - 1, v)) = Cardinality(Copies(c, (0 .. n - 1) \ {h}, v)) + One(c[h], v)
  <2>1. PICK A : A \subseteq 0 .. n - 1 /\ A = 0 .. n - 1 /\ h \in A
    OBVIOUS
  <2>2. Splits(c, A, h, v)
    BY <2>1, CopiesWithout
  <2>3. QED
    BY <2>1, <2>2 DEF Splits
<1>4. QED
  BY <1>1, <1>2, <1>3 DEF OneMore

-----------------------------------------------------------------------------
(* The heap: the invariant *)

Hole == IF sifting = "none" THEN -1 ELSE bucket
Pending(v) == IF sifting = "none" \/ cnt = 0 THEN 0 ELSE One(val, v)

HeapTypeOK ==
    /\ cnt \in 0 .. MaxHeap /\ capacity \in Nat /\ cnt <= capacity
    /\ buckets \in [0 .. cnt - 1 -> Values] /\ inHeap \in [Values -> Nat]
    /\ sifting \in {"none", "up", "down"} /\ bucket \in Nat
    /\ sifting # "none" => val \in Values
    /\ sifting = "up" => cnt > 0
    /\ sifting # "none" /\ cnt > 0 => bucket < cnt

HeapOrdered ==
    /\ Ordered(buckets, cnt, Hole)
    /\ sifting # "none" => Spans(buckets, cnt, bucket)
    /\ sifting = "up" => FitsAbove(buckets, cnt, bucket, val)
    /\ sifting = "down" => FitsBelow(buckets, bucket, val)

HeapContents ==
    \A v \in Values :
        inHeap[v] = Cardinality(Copies(buckets, (0 .. cnt - 1) \ {Hole}, v)) + Pending(v)

HeapInv == HeapTypeOK /\ HeapOrdered /\ HeapContents

LEMMA NoBuckets ==
    /\ <<>> \in [0 .. 0 - 1 -> Values]
    /\ \A h \in Int : Ordered(<<>>, 0, h) /\ Spans(<<>>, 0, h)
    /\ \A h, v : Cardinality(Copies(<<>>, (0 .. 0 - 1) \ {h}, v)) = 0
<1>1. 0 .. 0 - 1 = {} /\ 1 .. 0 - 1 = {}
  OBVIOUS
<1>2. <<>> \in [0 .. 0 - 1 -> Values]
  BY <1>1
<1>3. \A h \in Int : Ordered(<<>>, 0, h) /\ Spans(<<>>, 0, h)
  BY <1>1 DEF Ordered, Spans
<1>4. \A h, v : Copies(<<>>, (0 .. 0 - 1) \ {h}, v) = {}
  BY <1>1 DEF Copies
<1>5. QED
  BY <1>2, <1>3, <1>4, FS_EmptySet

LEMMA InitHeapInv == HeapInit => HeapInv
<1> SUFFICES ASSUME HeapInit PROVE HeapInv
  OBVIOUS
<1>1. capacity = 4
  BY DEF HeapInit, RoundUpCapacity
<1>2. cnt = 0 /\ buckets = <<>> /\ sifting = "none" /\ bucket = 0 /\ inHeap = [v \in Values |-> 0]
  BY DEF HeapInit
<1>3. HeapTypeOK
  BY <1>1, <1>2, NoBuckets, HeapAssumption DEF HeapTypeOK
<1>4. HeapOrdered
  BY <1>2, NoBuckets DEF HeapOrdered, Hole
<1>5. HeapContents
  BY <1>2, NoBuckets DEF HeapContents, Hole, Pending
<1>6. QED
  BY <1>3, <1>4, <1>5 DEF HeapInv

LEMMA RemoveAllValuesKeeps ==
    ASSUME HeapInv, CFBinaryHeapRemoveAllValues
    PROVE  HeapInv'
<1>1. /\ cnt' = 0 /\ buckets' = <<>> /\ sifting' = "none" /\ bucket' = bucket /\ capacity' = capacity
      /\ inHeap' = [v \in Values |-> 0]
  BY DEF CFBinaryHeapRemoveAllValues
<1>2. HeapTypeOK'
  BY <1>1, NoBuckets, HeapAssumption DEF HeapTypeOK, HeapInv
<1>3. HeapOrdered'
  BY <1>1, NoBuckets DEF HeapOrdered, Hole
<1>4. HeapContents'
  BY <1>1, NoBuckets DEF HeapContents, Hole, Pending
<1>5. QED
  BY <1>2, <1>3, <1>4 DEF HeapInv

LEMMA AddValueKeeps ==
    ASSUME HeapInv, NEW value \in Values, CFBinaryHeapAddValue(value)
    PROVE  HeapInv'
<1>0. PICK n \in 0 .. MaxHeap : n = cnt
  BY DEF HeapInv, HeapTypeOK
<1>1. MaxHeap \in Nat /\ n \in Nat /\ n + 1 \in 1 .. MaxHeap /\ n + 1 - 1 = n /\ 0 - 1 = -1
  BY <1>0, HeapAssumption DEF CFBinaryHeapAddValue
<1>2. PICK b \in [0 .. n - 1 -> Values] : b = buckets
  BY <1>0 DEF HeapInv, HeapTypeOK
<1>3. PICK c : c = [i \in 0 .. n |-> IF i < n THEN b[i] ELSE value]
  OBVIOUS
<1>4. /\ sifting = "none" /\ cnt' = n + 1 /\ buckets' = c /\ sifting' = "up" /\ bucket' = n /\ val' = value
      /\ inHeap' = [inHeap EXCEPT ![value] = @ + 1]
      /\ capacity' = IF n = capacity THEN RoundUpCapacity(n + 1) ELSE capacity
  BY <1>0, <1>2, <1>3 DEF CFBinaryHeapAddValue
<1>5. c \in [0 .. n -> Values] /\ \A i \in 0 .. n - 1 : c[i] = b[i]
  BY <1>1, <1>3
<1>6. HeapTypeOK'
  <2>1. capacity' \in Nat /\ n + 1 <= capacity'
    <3>1. CASE n = capacity
      BY <1>1, <1>4, <3>1, CapacityGrows
    <3>2. CASE n # capacity
      <4>1. capacity \in Nat /\ n <= capacity
        BY <1>0 DEF HeapInv, HeapTypeOK
      <4>2. QED
        BY <1>1, <1>4, <3>2, <4>1
    <3>3. QED
      BY <3>1, <3>2
  <2>2. inHeap' \in [Values -> Nat]
    BY <1>4 DEF HeapInv, HeapTypeOK
  <2>3. buckets' \in [0 .. cnt' - 1 -> Values]
    BY <1>1, <1>4, <1>5
  <2>4. QED
    BY <1>1, <1>4, <2>1, <2>2, <2>3 DEF HeapTypeOK
<1>7. HeapOrdered'
  <2>1. Ordered(b, n, -1)
    BY <1>0, <1>2, <1>4 DEF HeapInv, HeapOrdered, Hole
  <2>2. \A i \in 1 .. n : Parent(i) \in 0 .. n - 1 /\ Parent(i) # -1
    BY <1>1, ParentFacts
  <2>3. ASSUME NEW i \in 1 .. n, i # n PROVE c[Parent(i)] <= c[i]
    <3>1. i \in 1 .. n - 1 /\ i \in 0 .. n - 1 /\ i # -1
      BY <1>1, <2>3
    <3>2. b[Parent(i)] <= b[i]
      BY <2>1, <2>2, <3>1 DEF Ordered
    <3>3. QED
      BY <1>5, <2>2, <3>1, <3>2
  <2>4. Ordered(c, n + 1, n)
    BY <1>1, <2>3 DEF Ordered
  <2>5. \A i \in 1 .. n : Parent(i) # n
    BY <1>1, <2>2
  <2>6. Spans(c, n + 1, n) /\ FitsAbove(c, n + 1, n, value)
    BY <1>1, <2>5 DEF Spans, FitsAbove
  <2>7. QED
    BY <1>4, <2>4, <2>6 DEF HeapOrdered, Hole
<1>8. HeapContents'
  <2> SUFFICES ASSUME NEW v \in Values
               PROVE  inHeap'[v] = Cardinality(Copies(c, (0 .. n) \ {n}, v)) + One(value, v)
    <3>1. Hole' = n /\ 0 .. cnt' - 1 = 0 .. n /\ cnt' # 0
      BY <1>1, <1>4 DEF Hole
    <3>2. \A v : Pending(v)' = One(value, v)
      BY <1>4, <3>1 DEF Pending
    <3>3. QED
      BY <1>4, <3>1, <3>2 DEF HeapContents
  <2>1. (0 .. n) \ {n} = (0 .. n - 1) \ {-1}
    BY <1>1
  <2>2. Copies(c, (0 .. n - 1) \ {-1}, v) = Copies(b, (0 .. n - 1) \ {-1}, v)
    BY <1>5 DEF Copies
  <2>3. PICK K : K = Cardinality(Copies(b, (0 .. n - 1) \ {-1}, v))
    OBVIOUS
  <2>4. K \in Nat
    BY <1>1, <2>3, CopiesCounted
  <2>5. inHeap[v] = K
    <3>1. inHeap[v] = K + Pending(v) /\ Pending(v) = 0
      BY <1>0, <1>2, <1>4, <2>3 DEF HeapInv, HeapContents, Hole, Pending
    <3>2. QED
      BY <2>4, <3>1
  <2>6. inHeap'[v] = inHeap[v] + One(value, v)
    <3>1. inHeap \in [Values -> Nat]
      BY DEF HeapInv, HeapTypeOK
    <3>2. QED
      BY <1>4, <3>1 DEF One
  <2>7. QED
    BY <2>1, <2>2, <2>3, <2>5, <2>6
<1>9. QED
  BY <1>6, <1>7, <1>8 DEF HeapInv

LEMMA MoveKeepsContents ==
    ASSUME HeapInv, sifting # "none", NEW k \in 0 .. cnt - 1, k # bucket, MoveTo(k)
    PROVE  HeapTypeOK' /\ HeapContents'
<1>0. PICK n \in Nat : n = cnt /\ n \in 0 .. MaxHeap
  BY HeapAssumption DEF HeapInv, HeapTypeOK
<1>1. PICK b \in [0 .. n - 1 -> Values] : b = buckets
  BY <1>0 DEF HeapInv, HeapTypeOK
<1>2. PICK h \in Nat : h = bucket
  BY DEF HeapInv, HeapTypeOK
<1>3. n > 0 /\ h \in 0 .. n - 1 /\ k \in 0 .. n - 1 /\ k \in Nat /\ k < n
  BY <1>0, <1>2 DEF HeapInv, HeapTypeOK
<1>4. PICK c : c = Put(b, h, b[k])
  OBVIOUS
<1>5. /\ buckets' = c /\ bucket' = k /\ cnt' = n /\ capacity' = capacity /\ sifting' = sifting /\ val' = val
      /\ inHeap' = inHeap
  BY <1>0, <1>1, <1>2, <1>4 DEF MoveTo, Put
<1>6. c \in [0 .. n - 1 -> Values]
  BY <1>3, <1>4 DEF Put
<1>7. HeapTypeOK'
  BY <1>0, <1>3, <1>5, <1>6 DEF HeapInv, HeapTypeOK
<1>8. HeapContents'
  <2> SUFFICES ASSUME NEW v \in Values
               PROVE  inHeap[v] = Cardinality(Copies(c, (0 .. n - 1) \ {k}, v)) + Pending(v)
    BY <1>0, <1>5 DEF HeapContents, Hole, Pending
  <2>1. inHeap[v] = Cardinality(Copies(b, (0 .. n - 1) \ {h}, v)) + Pending(v)
    BY <1>0, <1>1, <1>2 DEF HeapInv, HeapContents, Hole
  <2>2. h # k
    BY <1>2
  <2>3. SameCopies(c, (0 .. n - 1) \ {k}, b, (0 .. n - 1) \ {h}, v)
    BY <1>3, <1>4, <2>2, CopiesMoved
  <2>4. QED
    BY <2>1, <2>3 DEF SameCopies
<1>9. QED
  BY <1>7, <1>8

LEMMA RoundKeeps ==
    ASSUME HeapInv, Round
    PROVE  HeapInv'
<1>0. PICK n \in Nat : n = cnt /\ n \in 0 .. MaxHeap
  BY HeapAssumption DEF HeapInv, HeapTypeOK
<1>1. PICK b : b = buckets /\ b \in [0 .. n - 1 -> Values] /\ b \in [0 .. n - 1 -> Int]
  BY <1>0, HeapAssumption DEF HeapInv, HeapTypeOK
<1>2. PICK h \in Nat : h = bucket
  BY DEF HeapInv, HeapTypeOK
<1>3. CASE GoesUp /\ MoveTo(Parent(bucket))
  <2>1. PICK v \in Int : v = val
    BY <1>3, HeapAssumption DEF HeapInv, HeapTypeOK, GoesUp
  <2>2. PICK p : p = Parent(h)
    OBVIOUS
  <2>3. /\ sifting = "up" /\ h > 0 /\ b[p] > v /\ h \in 1 .. n - 1
    BY <1>0, <1>1, <1>2, <1>3, <2>1, <2>2 DEF GoesUp, HeapInv, HeapTypeOK
  <2>4. p \in 0 .. n - 1 /\ p # h
    BY <2>2, <2>3, ParentPlace
  <2>5. HeapTypeOK' /\ HeapContents'
    BY <1>0, <1>2, <1>3, <2>2, <2>3, <2>4, MoveKeepsContents
  <2>6. PICK c : c = Put(b, h, b[p])
    OBVIOUS
  <2>7. buckets' = c /\ bucket' = p /\ cnt' = n /\ sifting' = "up" /\ val' = v
    BY <1>0, <1>1, <1>2, <1>3, <2>1, <2>2, <2>3, <2>6 DEF MoveTo, Put
  <2>8. Ordered(b, n, h) /\ Spans(b, n, h) /\ FitsAbove(b, n, h, v)
    BY <1>0, <1>1, <1>2, <2>1, <2>3 DEF HeapInv, HeapOrdered, Hole
  <2>9. Ordered(c, n, p) /\ Spans(c, n, p) /\ FitsAbove(c, n, p, v)
    BY <1>1, <2>2, <2>3, <2>6, <2>8, RoundUp
  <2>10. HeapOrdered'
    BY <2>7, <2>9 DEF HeapOrdered, Hole
  <2>11. QED
    BY <2>5, <2>10 DEF HeapInv
<1>4. CASE GoesDown /\ MoveTo(SmallerChild(bucket))
  <2>1. PICK v \in Int : v = val
    BY <1>4, HeapAssumption DEF HeapInv, HeapTypeOK, GoesDown
  <2>2. PICK k : k = SmallerChild(h)
    OBVIOUS
  <2>3. sifting = "down" /\ k < n /\ b[k] <= v
    BY <1>0, <1>1, <1>2, <1>4, <2>1, <2>2 DEF GoesDown
  <2>4. /\ k = 2 * h + 1 \/ k = 2 * h + 2
        /\ k = 2 * h + 2 => b[2 * h + 1] > b[2 * h + 2]
        /\ k = 2 * h + 1 => ~(2 * h + 2 < n /\ b[2 * h + 1] > b[2 * h + 2])
    BY <1>0, <1>1, <2>2 DEF SmallerChild
  <2>5. k \in 1 .. n - 1 /\ h < k /\ h \in 0 .. n - 1
    BY <2>3, <2>4
  <2>6. Parent(k) = h
    BY <2>4, ChildFacts
  <2>7. ASSUME NEW i \in 1 .. n - 1, Parent(i) = h PROVE b[k] <= b[i]
    <3>1. i = 2 * h + 1 \/ i = 2 * h + 2
      BY <2>7, ParentFacts
    <3>2. b[k] \in Int /\ b[i] \in Int /\ (k # i => b[2 * h + 1] \in Int /\ b[2 * h + 2] \in Int)
      BY <1>1, <2>4, <2>5, <3>1
    <3>3. QED
      BY <2>4, <2>5, <3>1, <3>2
  <2>8. HeapTypeOK' /\ HeapContents'
    BY <1>0, <1>2, <1>4, <2>2, <2>3, <2>5, MoveKeepsContents
  <2>9. PICK c : c = Put(b, h, b[k])
    OBVIOUS
  <2>10. buckets' = c /\ bucket' = k /\ cnt' = n /\ sifting' = "down" /\ val' = v
    BY <1>0, <1>1, <1>2, <1>4, <2>1, <2>2, <2>3, <2>9 DEF MoveTo, Put
  <2>11. Ordered(b, n, h) /\ Spans(b, n, h)
    BY <1>0, <1>1, <1>2, <2>3 DEF HeapInv, HeapOrdered, Hole
  <2>12. Ordered(c, n, k) /\ Spans(c, n, k) /\ FitsBelow(c, k, v)
    BY <1>1, <2>3, <2>5, <2>6, <2>7, <2>9, <2>11, RoundDown
  <2>13. HeapOrdered'
    BY <2>10, <2>12 DEF HeapOrdered, Hole
  <2>14. QED
    BY <2>8, <2>13 DEF HeapInv
<1>5. QED
  BY <1>3, <1>4 DEF Round

LEMMA WriteKeeps ==
    ASSUME HeapInv, Write
    PROVE  HeapInv'
<1>0. PICK n \in Nat : n = cnt /\ n \in 0 .. MaxHeap
  BY HeapAssumption DEF HeapInv, HeapTypeOK
<1>1. PICK b : b = buckets /\ b \in [0 .. n - 1 -> Values] /\ b \in [0 .. n - 1 -> Int]
  BY <1>0, HeapAssumption DEF HeapInv, HeapTypeOK
<1>2. PICK h \in Nat : h = bucket
  BY DEF HeapInv, HeapTypeOK
<1>3. PICK v : v = val /\ v \in Values /\ v \in Int
  BY HeapAssumption DEF HeapInv, HeapTypeOK, Write
<1>4. PICK c : c = IF h < n THEN Put(b, h, v) ELSE b
  OBVIOUS
<1>5. /\ sifting \in {"up", "down"} /\ buckets' = c /\ sifting' = "none" /\ cnt' = n /\ bucket' = h
      /\ capacity' = capacity /\ inHeap' = inHeap
  BY <1>0, <1>1, <1>2, <1>3, <1>4 DEF Write, HeapInv, HeapTypeOK, Put
<1>6. /\ n > 0 => h \in 0 .. n - 1
      /\ n = 0 => c = b
  BY <1>0, <1>2, <1>4, <1>5 DEF HeapInv, HeapTypeOK
<1>7. HeapTypeOK'
  <2>1. c \in [0 .. n - 1 -> Values]
    BY <1>1, <1>3, <1>4 DEF Put
  <2>2. QED
    BY <1>0, <1>2, <1>5, <2>1 DEF HeapInv, HeapTypeOK
<1>8. Hole = h /\ Hole' = -1
  BY <1>2, <1>5 DEF Hole
<1>9. HeapContents'
  <2> SUFFICES ASSUME NEW w \in Values
               PROVE  inHeap[w] = Cardinality(Copies(c, (0 .. n - 1) \ {-1}, w))
    <3>1. \A w \in Values : Pending(w)' = 0
      BY <1>5 DEF Pending
    <3>2. \A w \in Values : Cardinality(Copies(c, (0 .. n - 1) \ {-1}, w)) \in Nat
      BY CopiesCounted
    <3>3. QED
      BY <1>5, <1>8, <3>1, <3>2 DEF HeapContents
  <2>1. (0 .. n - 1) \ {-1} = 0 .. n - 1
    OBVIOUS
  <2>2. inHeap[w] = Cardinality(Copies(b, (0 .. n - 1) \ {h}, w)) + Pending(w)
    BY <1>0, <1>1, <1>8 DEF HeapInv, HeapContents
  <2>3. CASE n = 0
    <3>1. (0 .. n - 1) \ {h} = 0 .. n - 1 /\ Pending(w) = 0
      BY <1>0, <2>3 DEF Pending
    <3>2. Cardinality(Copies(c, 0 .. n - 1, w)) \in Nat
      BY CopiesCounted
    <3>3. QED
      BY <1>6, <2>1, <2>2, <2>3, <3>1, <3>2
  <2>4. CASE n # 0
    <3>1. c = Put(b, h, v) /\ h \in 0 .. n - 1
      BY <1>4, <1>6, <2>4
    <3>2. OneMore(c, 0 .. n - 1, b, (0 .. n - 1) \ {h}, v, w)
      BY <1>1, <3>1, CopiesFilled
    <3>3. Pending(w) = One(v, w)
      BY <1>0, <1>3, <1>5, <2>4 DEF Pending
    <3>4. QED
      BY <2>1, <2>2, <3>2, <3>3 DEF OneMore
  <2>5. QED
    BY <2>3, <2>4
<1>10. Ordered(c, n, -1)
  <2>1. Ordered(b, n, h)
    BY <1>0, <1>1, <1>8 DEF HeapInv, HeapOrdered
  <2>2. CASE n = 0
    BY <2>2 DEF Ordered
  <2>3. CASE n # 0 /\ sifting = "up"
    <3>1. FitsAbove(b, n, h, v)
      BY <1>0, <1>1, <1>2, <1>3, <2>3 DEF HeapInv, HeapOrdered
    <3>2. FitsBelow(b, h, v)
      <4> SUFFICES ASSUME h > 0 PROVE b[Parent(h)] <= v
        BY DEF FitsBelow
      <4>1. ~(b[Parent(h)] > v)
        BY <1>1, <1>2, <1>3, <2>3 DEF Write, GoesUp
      <4>2. b[Parent(h)] \in Int
        BY <1>1, <1>6, <2>3, ParentPlace
      <4>3. QED
        BY <1>3, <4>1, <4>2
    <3>3. QED
      BY <1>1, <1>3, <1>4, <1>6, <2>1, <2>3, <3>1, <3>2, FillHole
  <2>4. CASE n # 0 /\ sifting = "down"
    <3>1. FitsBelow(b, h, v)
      BY <1>0, <1>1, <1>2, <1>3, <2>4 DEF HeapInv, HeapOrdered
    <3>2. FitsAbove(b, n, h, v)
      <4> SUFFICES ASSUME NEW i \in 1 .. n - 1, Parent(i) = h PROVE v <= b[i]
        BY DEF FitsAbove
      <4>1. PICK k : k = SmallerChild(h)
        OBVIOUS
      <4>2. ~(k < n /\ b[k] <= v)
        BY <1>0, <1>1, <1>2, <1>3, <2>4, <4>1 DEF Write, GoesDown
      <4>3. /\ k = 2 * h + 1 \/ k = 2 * h + 2
            /\ k = 2 * h + 2 => 2 * h + 2 < n /\ b[2 * h + 1] > b[2 * h + 2]
            /\ k = 2 * h + 1 => ~(2 * h + 2 < n /\ b[2 * h + 1] > b[2 * h + 2])
        BY <1>0, <1>1, <4>1 DEF SmallerChild
      <4>4. i = 2 * h + 1 \/ i = 2 * h + 2
        BY ParentFacts
      <4>5. k < n /\ k \in 0 .. n - 1
        BY <4>3, <4>4
      <4>6. b[k] \in Int /\ b[i] \in Int /\ (k # i => b[2 * h + 1] \in Int /\ b[2 * h + 2] \in Int)
        BY <1>1, <4>3, <4>4, <4>5
      <4>7. b[k] <= b[i]
        BY <4>3, <4>4, <4>5, <4>6
      <4>8. QED
        BY <1>3, <4>2, <4>5, <4>6, <4>7
    <3>3. QED
      BY <1>1, <1>3, <1>4, <1>6, <2>1, <2>4, <3>1, <3>2, FillHole
  <2>5. QED
    BY <1>5, <2>2, <2>3, <2>4
<1>11. HeapOrdered'
  BY <1>5, <1>8, <1>10 DEF HeapOrdered
<1>12. QED
  BY <1>7, <1>9, <1>11 DEF HeapInv

LEMMA RemoveMinimumKeeps ==
    ASSUME HeapInv, CFBinaryHeapRemoveMinimumValue
    PROVE  HeapInv'
<1>0. PICK n \in Nat : n = cnt /\ n \in 0 .. MaxHeap /\ n > 0
  BY HeapAssumption DEF HeapInv, HeapTypeOK, CFBinaryHeapRemoveMinimumValue
<1>1. PICK b : b = buckets /\ b \in [0 .. n - 1 -> Values] /\ b \in [0 .. n - 1 -> Int]
  BY <1>0, HeapAssumption DEF HeapInv, HeapTypeOK
<1>2. PICK m \in Nat : m = n - 1
  BY <1>0
<1>3. n = m + 1 /\ n - 1 = m /\ n - 2 = m - 1 /\ 0 \in 0 .. m /\ m \in 0 .. m /\ m \in 0 .. MaxHeap
  BY <1>0, <1>2, HeapAssumption
<1>4. PICK c : c = [i \in 0 .. m - 1 |-> b[i]]
  OBVIOUS
<1>5. PICK v : v = b[m] /\ v \in Values /\ v \in Int
  BY <1>1, <1>3
<1>6. /\ sifting = "none" /\ cnt' = m /\ buckets' = c /\ sifting' = "down" /\ bucket' = 0 /\ val' = v
      /\ inHeap' = [inHeap EXCEPT ![b[0]] = @ - 1] /\ capacity' = capacity
  BY <1>0, <1>1, <1>3, <1>4, <1>5 DEF CFBinaryHeapRemoveMinimumValue
<1>7. c \in [0 .. m - 1 -> Values] /\ \A i \in 0 .. m - 1 : c[i] = b[i]
  BY <1>1, <1>3, <1>4
<1>8. b[0] \in Values /\ inHeap \in [Values -> Nat]
  BY <1>1, <1>3 DEF HeapInv, HeapTypeOK
\* The copies of w in the buckets in use, without the first and the last
<1>9. ASSUME NEW w \in Values
      PROVE  /\ m = 0 => inHeap[w] = One(b[0], w)
             /\ m # 0 => /\ Cardinality(Copies(c, (0 .. m - 1) \ {0}, w)) \in Nat
                         /\ inHeap[w] = Cardinality(Copies(c, (0 .. m - 1) \ {0}, w))
                                        + One(b[m], w) + One(b[0], w)
  <2>1. PICK A : A \subseteq 0 .. n - 1 /\ A = 0 .. n - 1 /\ A = (0 .. n - 1) \ {-1} /\ 0 \in A
    BY <1>3
  <2>2. PICK B : B \subseteq 0 .. n - 1 /\ B = A \ {0}
    BY <2>1
  <2>3. Cardinality(Copies(b, A, w)) \in Nat
    BY <2>1, CopiesCounted
  <2>4. inHeap[w] = Cardinality(Copies(b, A, w))
    <3>1. inHeap[w] = Cardinality(Copies(b, A, w)) + Pending(w) /\ Pending(w) = 0
      BY <1>0, <1>1, <1>6, <2>1 DEF HeapInv, HeapContents, Hole, Pending
    <3>2. QED
      BY <2>3, <3>1
  <2>5. Splits(b, A, 0, w)
    BY <2>1, CopiesWithout
  <2>6. inHeap[w] = Cardinality(Copies(b, B, w)) + One(b[0], w)
    BY <2>2, <2>4, <2>5 DEF Splits
  <2>7. CASE m = 0
    <3>1. B = {}
      BY <1>3, <2>1, <2>2, <2>7
    <3>2. Copies(b, B, w) = {}
      BY <3>1 DEF Copies
    <3>3. Cardinality(Copies(b, B, w)) = 0
      BY <3>2, FS_EmptySet
    <3>4. QED
      BY <2>6, <2>7, <3>3 DEF One
  <2>8. CASE m # 0
    <3>1. m \in B /\ B \ {m} = (0 .. m - 1) \ {0}
      BY <1>3, <2>1, <2>2, <2>8
    <3>2. Splits(b, B, m, w)
      BY <2>2, <3>1, CopiesWithout
    <3>3. Copies(c, (0 .. m - 1) \ {0}, w) = Copies(b, (0 .. m - 1) \ {0}, w)
      BY <1>7 DEF Copies
    <3>4. Cardinality(Copies(c, (0 .. m - 1) \ {0}, w)) \in Nat
      BY CopiesCounted
    <3>5. QED
      BY <2>6, <2>8, <3>1, <3>2, <3>3, <3>4 DEF Splits
  <2>9. QED
    BY <2>7, <2>8
<1>10. inHeap[b[0]] > 0
  <2>1. CASE m = 0
    BY <1>8, <1>9, <2>1 DEF One
  <2>2. CASE m # 0
    <3>1. PICK K \in Nat : inHeap[b[0]] = K + One(b[m], b[0]) + One(b[0], b[0])
      BY <1>8, <1>9, <2>2
    <3>2. QED
      BY <3>1 DEF One
  <2>3. QED
    BY <2>1, <2>2
<1>11. \A w \in Values : inHeap'[w] = inHeap[w] - One(b[0], w)
  BY <1>6, <1>8 DEF One
<1>12. HeapTypeOK'
  <2>1. inHeap' \in [Values -> Nat]
    BY <1>6, <1>8, <1>10
  <2>2. capacity \in Nat /\ m <= capacity
    BY <1>0, <1>3 DEF HeapInv, HeapTypeOK
  <2>3. QED
    BY <1>3, <1>5, <1>6, <1>7, <2>1, <2>2 DEF HeapTypeOK
<1>13. HeapContents'
  <2> SUFFICES ASSUME NEW w \in Values
               PROVE  inHeap'[w] = Cardinality(Copies(c, (0 .. m - 1) \ {0}, w))
                                   + (IF m = 0 THEN 0 ELSE One(v, w))
    <3>1. Hole' = 0
      BY <1>6 DEF Hole
    <3>2. \A w : Pending(w)' = IF m = 0 THEN 0 ELSE One(v, w)
      BY <1>6 DEF Pending
    <3>3. QED
      BY <1>6, <3>1, <3>2 DEF HeapContents
  <2>1. CASE m = 0
    <3>1. Copies(c, (0 .. m - 1) \ {0}, w) = {}
      BY <2>1 DEF Copies
    <3>2. Cardinality(Copies(c, (0 .. m - 1) \ {0}, w)) = 0
      BY <3>1, FS_EmptySet
    <3>3. inHeap[w] = One(b[0], w) /\ One(b[0], w) \in Nat
      BY <1>9, <2>1 DEF One
    <3>4. QED
      BY <1>11, <2>1, <3>2, <3>3
  <2>2. CASE m # 0
    <3>1. PICK K \in Nat : /\ K = Cardinality(Copies(c, (0 .. m - 1) \ {0}, w))
                           /\ inHeap[w] = K + One(b[m], w) + One(b[0], w)
      BY <1>9, <2>2
    <3>2. One(b[m], w) \in Nat /\ One(b[0], w) \in Nat
      BY DEF One
    <3>3. inHeap'[w] = K + One(b[m], w)
      BY <1>11, <3>1, <3>2
    <3>4. QED
      BY <1>5, <2>2, <3>1, <3>3
  <2>3. QED
    BY <2>1, <2>2
<1>14. HeapOrdered'
  <2>1. Ordered(b, n, -1)
    BY <1>0, <1>1, <1>6 DEF HeapInv, HeapOrdered, Hole
  <2>2. Ordered(c, m, 0)
    <3> SUFFICES ASSUME NEW i \in 1 .. m - 1, i # 0, Parent(i) # 0 PROVE c[Parent(i)] <= c[i]
      BY DEF Ordered
    <3>1. Parent(i) \in 0 .. m - 1
      BY ParentPlace
    <3>2. i \in 1 .. n - 1 /\ i # -1 /\ Parent(i) # -1
      BY <1>3, <3>1
    <3>3. b[Parent(i)] <= b[i]
      BY <2>1, <3>2 DEF Ordered
    <3>4. QED
      BY <1>7, <3>1, <3>3
  <2>3. Spans(c, m, 0) /\ FitsBelow(c, 0, v)
    BY DEF Spans, FitsBelow
  <2>4. QED
    BY <1>6, <2>2, <2>3 DEF HeapOrdered, Hole
<1>15. QED
  BY <1>12, <1>13, <1>14 DEF HeapInv

LEMMA NextHeapInv == HeapInv /\ [HeapNext]_heapVars => HeapInv'
<1> SUFFICES ASSUME HeapInv, [HeapNext]_heapVars PROVE HeapInv'
  OBVIOUS
<1>1. ASSUME NEW v \in Values, CFBinaryHeapAddValue(v) PROVE HeapInv'
  BY <1>1, AddValueKeeps
<1>2. CASE CFBinaryHeapRemoveMinimumValue
  BY <1>2, RemoveMinimumKeeps
<1>3. CASE CFBinaryHeapRemoveAllValues
  BY <1>3, RemoveAllValuesKeeps
<1>4. CASE Round
  BY <1>4, RoundKeeps
<1>5. CASE Write
  BY <1>5, WriteKeeps
<1>6. CASE UNCHANGED heapVars
  BY <1>6 DEF heapVars, HeapInv, HeapTypeOK, HeapOrdered, HeapContents, Hole, Pending
<1>7. QED
  BY <1>1, <1>2, <1>3, <1>4, <1>5, <1>6 DEF HeapNext

LEMMA HeapInvServes == HeapInv => HeapServesLeast
<1> SUFFICES ASSUME HeapInv PROVE HeapServesLeast
  OBVIOUS
<1>0. PICK n \in Nat : n = cnt /\ n \in 0 .. MaxHeap
  BY HeapAssumption DEF HeapInv, HeapTypeOK
<1>1. PICK b : b = buckets /\ b \in [0 .. n - 1 -> Values] /\ b \in [0 .. n - 1 -> Int]
  BY <1>0, HeapAssumption DEF HeapInv, HeapTypeOK
<1>2. cnt <= capacity
  BY DEF HeapInv, HeapTypeOK
<1>3. ASSUME sifting = "none", NEW v \in Values
      PROVE  /\ inHeap[v] = Cardinality({i \in DOMAIN b : b[i] = v})
             /\ inHeap[v] > 0 => b[0] <= v
  <2>1. Copies(b, (0 .. n - 1) \ {-1}, v) = {i \in DOMAIN b : b[i] = v}
    BY <1>1 DEF Copies
  <2>2. Cardinality(Copies(b, (0 .. n - 1) \ {-1}, v)) \in Nat
    BY CopiesCounted
  <2>3. inHeap[v] = Cardinality(Copies(b, (0 .. n - 1) \ {-1}, v))
    <3>1. inHeap[v] = Cardinality(Copies(b, (0 .. n - 1) \ {-1}, v)) + Pending(v) /\ Pending(v) = 0
      BY <1>0, <1>1, <1>3 DEF HeapInv, HeapContents, Hole, Pending
    <3>2. QED
      BY <2>2, <3>1
  <2>4. ASSUME inHeap[v] > 0 PROVE b[0] <= v
    <3>1. {i \in DOMAIN b : b[i] = v} # {}
      BY <2>1, <2>3, <2>4, FS_EmptySet
    <3>2. PICK i \in 0 .. n - 1 : b[i] = v
      BY <1>1, <3>1
    <3>3. Ordered(b, n, -1)
      BY <1>0, <1>1, <1>3 DEF HeapInv, HeapOrdered, Hole
    <3>4. QED
      BY <1>1, <3>2, <3>3, RootLeast
  <2>5. QED
    BY <2>1, <2>3, <2>4
<1>4. QED
  BY <1>1, <1>2, <1>3 DEF HeapServesLeast

\* Whatever values are added and removed, in any order: between two calls the
\* buckets hold exactly the values put in and not removed, the first of them is
\* the least, and at no moment are more buckets used than there is capacity.
THEOREM HeapMinimum == HeapSpec => []HeapServesLeast
<1>1. HeapSpec => []HeapInv
  BY InitHeapInv, NextHeapInv, PTL DEF HeapSpec
<1>2. QED
  BY <1>1, HeapInvServes, PTL
=============================================================================
