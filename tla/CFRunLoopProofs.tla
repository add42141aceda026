--------------------------- MODULE CFRunLoopProofs ---------------------------
(***************************************************************************)
(* Proofs about the run loop, for any modes, sources, timers, callers,     *)
(* nested runs and number of calls.                                        *)
(***************************************************************************)
EXTENDS CFRunLoop, SequenceTheorems, FiniteSetTheorems, WellFoundedInduction, TLAPS

-----------------------------------------------------------------------------
(* Sequences of blocks *)

Block == [block : Nat, modes : SUBSET Modes]

LEMMA EmptyWaiting == <<>> \in Seq(Block) /\ Numbers(<<>>) = {} /\ Increasing(<<>>)
  BY DEF Numbers, Increasing

LEMMA SingleWaiting ==
    ASSUME NEW b \in Block
    PROVE  <<b>> \in Seq(Block) /\ Numbers(<<b>>) = {b.block} /\ Increasing(<<b>>)
  BY DEF Numbers, Increasing

LEMMA NumbersAreNat ==
    ASSUME NEW w \in Seq(Block)
    PROVE  Numbers(w) \subseteq Nat
<1>1. \A k \in DOMAIN w : w[k] \in Block
  BY ElementOfSeq, LenProperties
<1>2. QED
  BY <1>1 DEF Numbers, Block

\* The numbers of two lists put together
LEMMA JoinNumbers ==
    ASSUME NEW v \in Seq(Block), NEW w \in Seq(Block)
    PROVE  /\ v \o w \in Seq(Block)
           /\ Numbers(v \o w) = Numbers(v) \cup Numbers(w)
<1>1. /\ v \o w \in Seq(Block)
      /\ DOMAIN (v \o w) = 1 .. Len(v) + Len(w)
      /\ \A i \in 1 .. Len(v) + Len(w) :
            (v \o w)[i] = IF i <= Len(v) THEN v[i] ELSE w[i - Len(v)]
  BY ConcatProperties, LenProperties
<1>2. /\ Len(v) \in Nat /\ Len(w) \in Nat
      /\ DOMAIN v = 1 .. Len(v) /\ DOMAIN w = 1 .. Len(w)
  BY LenProperties
<1>3. \A x \in Numbers(v \o w) : x \in Numbers(v) \cup Numbers(w)
  <2> SUFFICES ASSUME NEW i \in DOMAIN (v \o w)
               PROVE  (v \o w)[i].block \in Numbers(v) \cup Numbers(w)
    BY DEF Numbers
  <2>1. CASE i <= Len(v)
    BY <2>1, <1>1, <1>2 DEF Numbers
  <2>2. CASE ~(i <= Len(v))
    <3>1. i - Len(v) \in DOMAIN w
      BY <2>2, <1>1, <1>2
    <3>2. QED
      BY <2>2, <3>1, <1>1, <1>2 DEF Numbers
  <2>3. QED
    BY <2>1, <2>2
<1>4. \A x \in Numbers(v) : x \in Numbers(v \o w)
  <2> SUFFICES ASSUME NEW i \in DOMAIN v PROVE v[i].block \in Numbers(v \o w)
    BY DEF Numbers
  <2>1. i \in 1 .. Len(v) + Len(w) /\ (v \o w)[i] = v[i]
    BY <1>1, <1>2
  <2>2. QED
    BY <2>1, <1>1 DEF Numbers
<1>5. \A x \in Numbers(w) : x \in Numbers(v \o w)
  <2> SUFFICES ASSUME NEW i \in DOMAIN w PROVE w[i].block \in Numbers(v \o w)
    BY DEF Numbers
  <2>1. i + Len(v) \in 1 .. Len(v) + Len(w) /\ (v \o w)[i + Len(v)] = w[i]
    BY <1>1, <1>2
  <2>2. QED
    BY <2>1, <1>1 DEF Numbers
<1>6. QED
  BY <1>1, <1>3, <1>4, <1>5

Before(v, w) == \A a \in Numbers(v), b \in Numbers(w) : a < b

\* Two lists put together are in order if each is and the first comes before
\* the second
LEMMA JoinIncreasing ==
    ASSUME NEW v \in Seq(Block), NEW w \in Seq(Block)
    PROVE  Increasing(v \o w) <=> Increasing(v) /\ Increasing(w) /\ Before(v, w)
<1>1. /\ v \o w \in Seq(Block)
      /\ DOMAIN (v \o w) = 1 .. Len(v) + Len(w)
      /\ \A i \in 1 .. Len(v) + Len(w) :
            (v \o w)[i] = IF i <= Len(v) THEN v[i] ELSE w[i - Len(v)]
  BY ConcatProperties, LenProperties
<1>2. /\ Len(v) \in Nat /\ Len(w) \in Nat
      /\ DOMAIN v = 1 .. Len(v) /\ DOMAIN w = 1 .. Len(w)
  BY LenProperties
<1>3. \A i \in DOMAIN v : i \in 1 .. Len(v) + Len(w) /\ (v \o w)[i] = v[i]
  BY <1>1, <1>2
<1>4. \A i \in DOMAIN w : i + Len(v) \in 1 .. Len(v) + Len(w) /\ (v \o w)[i + Len(v)] = w[i]
  BY <1>1, <1>2
<1>5. ASSUME Increasing(v \o w)
      PROVE  Increasing(v) /\ Increasing(w) /\ Before(v, w)
  <2>1. Increasing(v)
    BY <1>5, <1>1, <1>2, <1>3 DEF Increasing
  <2>2. Increasing(w)
    <3> SUFFICES ASSUME NEW k \in DOMAIN w, NEW l \in DOMAIN w, k < l
                 PROVE  w[k].block < w[l].block
      BY DEF Increasing
    <3>1. k + Len(v) < l + Len(v)
      BY <1>2
    <3>2. QED
      BY <1>5, <1>1, <1>4, <3>1 DEF Increasing
  <2>3. Before(v, w)
    <3> SUFFICES ASSUME NEW k \in DOMAIN v, NEW l \in DOMAIN w
                 PROVE  v[k].block < w[l].block
      BY DEF Before, Numbers
    <3>1. k < l + Len(v)
      BY <1>2
    <3>2. QED
      BY <1>5, <1>1, <1>3, <1>4, <3>1 DEF Increasing
  <2>4. QED
    BY <2>1, <2>2, <2>3
<1>6. ASSUME Increasing(v), Increasing(w), Before(v, w)
      PROVE  Increasing(v \o w)
  <2> SUFFICES ASSUME NEW k \in DOMAIN (v \o w), NEW l \in DOMAIN (v \o w), k < l
               PROVE  (v \o w)[k].block < (v \o w)[l].block
    BY DEF Increasing
  <2>1. CASE l <= Len(v)
    BY <2>1, <1>6, <1>1, <1>2 DEF Increasing
  <2>2. CASE k <= Len(v) /\ ~(l <= Len(v))
    <3>1. k \in DOMAIN v /\ l - Len(v) \in DOMAIN w
      BY <2>2, <1>1, <1>2
    <3>2. v[k].block < w[l - Len(v)].block
      BY <3>1, <1>6 DEF Before, Numbers
    <3>3. QED
      BY <2>2, <3>1, <3>2, <1>1, <1>2
  <2>3. CASE ~(k <= Len(v)) /\ ~(l <= Len(v))
    <3>1. /\ k - Len(v) \in DOMAIN w /\ l - Len(v) \in DOMAIN w
          /\ k - Len(v) < l - Len(v)
      BY <2>3, <1>1, <1>2
    <3>2. w[k - Len(v)].block < w[l - Len(v)].block
      BY <3>1, <1>6 DEF Increasing
    <3>3. QED
      BY <2>3, <3>2, <1>1, <1>2
  <2>4. QED
    BY <2>1, <2>2, <2>3, <1>1, <1>2
<1>7. QED
  BY <1>5, <1>6

\* One block is taken out of the middle of a list
OneTaken(v, w, n, kept, list) ==
    /\ kept \in Seq(Block) /\ list \in Seq(Block)
    /\ Increasing(kept \o list)
    /\ Numbers(kept \o list) = Numbers(v \o w) \ {w[n].block}
    /\ w[n].block \in Numbers(v \o w)

LEMMA TakeOne ==
    ASSUME NEW v \in Seq(Block), NEW w \in Seq(Block), NEW n \in 1 .. Len(w), Increasing(v \o w)
    PROVE  OneTaken(v, w, n, v \o SubSeq(w, 1, n - 1), SubSeq(w, n + 1, Len(w)))
<1> DEFINE b == SubSeq(w, 1, n - 1)
           c == SubSeq(w, n + 1, Len(w))
           e == <<w[n]>>
<1> HIDE DEF b, c, e
<1>1. Len(w) \in Nat /\ DOMAIN w = 1 .. Len(w) /\ \A i \in 1 .. Len(w) : w[i] \in Block
  BY LenProperties, ElementOfSeq
<1>2. b \in Seq(Block)
  <2>1. (\A i \in 1 .. n - 1 : w[i] \in Block) /\ 1 \in Int /\ n - 1 \in Int
    BY <1>1
  <2>2. QED
    BY <2>1, SubSeqProperties DEF b
<1>3. c \in Seq(Block)
  <2>1. (\A i \in n + 1 .. Len(w) : w[i] \in Block) /\ n + 1 \in Int /\ Len(w) \in Int
    BY <1>1
  <2>2. QED
    BY <2>1, SubSeqProperties DEF c
<1>4. e \in Seq(Block) /\ Numbers(e) = {w[n].block}
  BY <1>1, SingleWaiting DEF e
<1>5. w = b \o (e \o c)
  <2>1. n \in Int /\ 1 \in 1 .. Len(w) + 1 /\ n - 1 \in (1 - 1) .. Len(w) /\ Len(w) \in (n - 1) .. Len(w)
    BY <1>1
  <2>2. SubSeq(w, 1, n - 1) \o SubSeq(w, (n - 1) + 1, Len(w)) = SubSeq(w, 1, Len(w))
    BY <2>1, ConcatAdjacentSubSeq
  <2>3. (n - 1) + 1 = n /\ Len(w) \in n .. Len(w)
    BY <2>1, <1>1
  <2>4. SubSeq(w, n, Len(w)) = <<w[n]>> \o SubSeq(w, n + 1, Len(w))
    BY <2>3, SubSeqRecursiveFirst
  <2>5. SubSeq(w, 1, Len(w)) = w
    BY SubSeqFull
  <2>6. QED
    BY <2>2, <2>3, <2>4, <2>5 DEF b, c, e
<1>6. /\ e \o c \in Seq(Block) /\ b \o (e \o c) \in Seq(Block) /\ v \o b \in Seq(Block)
      /\ Numbers(e \o c) = Numbers(e) \cup Numbers(c)
      /\ Numbers(w) = Numbers(b) \cup Numbers(e \o c)
      /\ Numbers(v \o w) = Numbers(v) \cup Numbers(w)
      /\ Numbers(v \o b) = Numbers(v) \cup Numbers(b)
      /\ Numbers((v \o b) \o c) = Numbers(v \o b) \cup Numbers(c)
  BY <1>2, <1>3, <1>4, <1>5, JoinNumbers
<1>7. /\ Increasing(v) /\ Increasing(w) /\ Before(v, w)
      /\ Increasing(b) /\ Increasing(e \o c) /\ Before(b, e \o c)
      /\ Increasing(c) /\ Before(e, c)
  BY <1>2, <1>3, <1>4, <1>5, <1>6, JoinIncreasing
<1>8. Increasing((v \o b) \o c)
  <2>1. Before(v, b)
    BY <1>6, <1>7 DEF Before
  <2>2. Increasing(v \o b)
    BY <2>1, <1>7, <1>2, JoinIncreasing
  <2>3. Before(v \o b, c)
    BY <1>6, <1>7 DEF Before
  <2>4. QED
    BY <2>2, <2>3, <1>6, <1>7, <1>3, JoinIncreasing
<1>9. w[n].block \notin Numbers(v) \cup Numbers(b) \cup Numbers(c)
  <2>1. w[n].block \in Numbers(w) /\ w[n].block \in Numbers(e \o c) /\ w[n].block \in Nat
    BY <1>4, <1>6, <1>1 DEF Block
  <2>2. ~(w[n].block < w[n].block)
    BY <2>1
  <2>3. QED
    BY <2>1, <2>2, <1>4, <1>7 DEF Before
<1>10. Numbers((v \o b) \o c) = Numbers(v \o w) \ {w[n].block}
  BY <1>4, <1>6, <1>9
<1>11. QED
  BY <1>3, <1>4, <1>6, <1>8, <1>10 DEF OneTaken, b, c, e

-----------------------------------------------------------------------------
(* The activations *)

RunFields == {"mode", "once", "seconds", "pc", "stopped", "ignore", "disp", "term", "owes",
              "did", "handled", "poll", "live", "back", "list", "kept", "pend", "cur", "old",
              "fired"}

IsSeq(q) == q \in Seq(Range(q))

\* A mode of its own, and one of the messages it waits for
RunOK(f) == /\ DOMAIN f = RunFields /\ f.mode \in Modes
            /\ f.live \in {"none", "wakeUp", "timer", "main"} \cup Ports

RunsOK == IsSeq(runs) /\ \A i \in 1 .. Depth : RunOK(runs[i])


\* r is q with its i-th element changed to f, with f added, without its last
Changed(q, r, i, f) ==
    IsSeq(r) /\ Len(r) = Len(q) /\ r[i] = f /\ \A j \in 1 .. Len(q) : j # i => r[j] = q[j]
Extended(q, r, f) ==
    IsSeq(r) /\ Len(r) = Len(q) + 1 /\ r[Len(q) + 1] = f /\ \A j \in 1 .. Len(q) : r[j] = q[j]
Shortened(q, r) ==
    IsSeq(r) /\ Len(r) = Len(q) - 1 /\ \A j \in 1 .. Len(q) - 1 : r[j] = q[j]

LEMMA ChangeOne ==
    ASSUME NEW q, IsSeq(q), NEW i \in 1 .. Len(q), NEW f
    PROVE  Changed(q, [q EXCEPT ![i] = f], i, f)
<1> DEFINE S == Range(q) \cup {f}
           r == [q EXCEPT ![i] = f]
<1>1. q \in Seq(S) /\ f \in S
  BY SeqMonotonic DEF IsSeq
<1>2. r \in Seq(S) /\ Len(r) = Len(q) /\ \A j \in 1 .. Len(q) : r[j] = IF j = i THEN f ELSE q[j]
  BY <1>1, ExceptSeq
<1>3. IsSeq(r)
  BY <1>2, SeqOfRange DEF IsSeq
<1>4. QED
  BY <1>2, <1>3 DEF Changed

LEMMA AddOne ==
    ASSUME NEW q, IsSeq(q), NEW f
    PROVE  Extended(q, Append(q, f), f)
<1> DEFINE S == Range(q) \cup {f}
<1>1. q \in Seq(S) /\ f \in S
  BY SeqMonotonic DEF IsSeq
<1>2. /\ Append(q, f) \in Seq(S) /\ Len(Append(q, f)) = Len(q) + 1
      /\ \A j \in 1 .. Len(q) : Append(q, f)[j] = q[j]
      /\ Append(q, f)[Len(q) + 1] = f
  BY <1>1, AppendProperties
<1>3. IsSeq(Append(q, f))
  BY <1>2, SeqOfRange DEF IsSeq
<1>4. QED
  BY <1>2, <1>3 DEF Extended

LEMMA DropOne ==
    ASSUME NEW q, IsSeq(q), NEW k \in Nat, k = Len(q), k > 0
    PROVE  Shortened(q, Front(q))
<1> DEFINE S == Range(q)
<1>1. q \in Seq(S)
  BY DEF IsSeq
<1> HIDE DEF S
<1>2. Front(q) \in Seq(S) /\ Len(Front(q)) = k - 1
  BY <1>1 DEF Front
<1>3. \A j \in 1 .. k - 1 : Front(q)[j] = q[j]
  BY <1>1 DEF Front
<1>4. IsSeq(Front(q))
  BY <1>2, SeqOfRange DEF IsSeq
<1>5. QED
  BY <1>2, <1>3, <1>4 DEF Shortened

LEMMA DepthIsNat == RunsOK => Depth \in Nat
  BY LenProperties DEF RunsOK, IsSeq, Depth

\* A step of one activation
LEMMA SetOne ==
    ASSUME RunsOK, NEW i \in 1 .. Depth, NEW f, RunOK(f),
           runs' = [runs EXCEPT ![i] = f]
    PROVE  RunsOK' /\ Depth' = Depth /\ runs'[i] = f
           /\ \A j \in 1 .. Depth : j # i => runs'[j] = runs[j]
<1>1. IsSeq(runs) /\ i \in 1 .. Len(runs)
  BY DEF RunsOK, Depth
<1>2. Changed(runs, runs', i, f)
  BY <1>1, ChangeOne, Zenon
<1>3. IsSeq(runs') /\ Depth' = Depth /\ runs'[i] = f /\ \A j \in 1 .. Depth : j # i => runs'[j] = runs[j]
  BY <1>2 DEF Changed, Depth
<1>4. QED
  BY <1>3 DEF RunsOK

LEMMA SetTop ==
    ASSUME RunsOK, Depth > 0, NEW f, Set(f), RunOK(f)
    PROVE  RunsOK' /\ Depth' = Depth /\ runs'[Depth] = f /\ Top' = f
           /\ \A j \in 1 .. Depth : j # Depth => runs'[j] = runs[j]
<1>1. Depth \in 1 .. Depth
  BY DepthIsNat
<1>2. QED
  BY <1>1, SetOne DEF Set, Top

LEMMA TopOK ==
    ASSUME RunsOK, Depth > 0
    PROVE  Depth \in 1 .. Depth /\ Depth \in Nat /\ RunOK(Top)
<1>1. Depth \in Nat /\ Depth \in 1 .. Depth
  BY DepthIsNat
<1>2. QED
  BY <1>1 DEF RunsOK, Top

-----------------------------------------------------------------------------
(* The blocks *)

InBlocks(f) == f.pc \in {"doBlocks", "block"}

\* An activation holds blocks only while it is in __CFRunLoopDoBlocks
BlockTypes ==
    /\ blocks \in Seq(Block) /\ issued \in Nat
    /\ \A i \in 1 .. Depth :
         /\ runs[i].list \in Seq(Block) /\ runs[i].kept \in Seq(Block)
         /\ ~InBlocks(runs[i]) => runs[i].list = <<>> /\ runs[i].kept = <<>>

BlockInv == RunsOK /\ BlockTypes /\ BlocksKept

LEMMA InitBlockInv == Init => BlockInv
<1> SUFFICES ASSUME Init PROVE BlockInv
  OBVIOUS
<1>1. runs = <<>> /\ blocks = <<>> /\ issued = 0 /\ ran = {}
  BY DEF Init
<1>2. Depth = 0 /\ 1 .. Depth = {} /\ 1 .. Depth + 1 = {1}
  BY <1>1 DEF Depth
<1>3. RunsOK
  BY <1>1, <1>2, EmptySeq DEF RunsOK, IsSeq
<1>4. BlockTypes
  BY <1>1, <1>2 DEF BlockTypes
<1>5. Waiting(1) = <<>>
  BY <1>1, <1>2 DEF Waiting
<1>6. BlocksKept
  <2>1. /\ \A i \in 1 .. Depth + 1 : Increasing(Waiting(i)) /\ Numbers(Waiting(i)) \cap ran = {}
    BY <1>2, <1>5, EmptyWaiting
  <2>2. \A i, j \in 1 .. Depth + 1 : ~(i < j)
    BY <1>2
  <2>3. UNION {Numbers(Waiting(i)) : i \in 1 .. Depth + 1} = {}
    BY <1>2, <1>5, EmptyWaiting
  <2>4. ran = {} /\ 1 .. issued = {}
    BY <1>1
  <2>5. QED
    BY <2>1, <2>2, <2>3, <2>4 DEF BlocksKept
<1>7. QED
  BY <1>3, <1>4, <1>6 DEF BlockInv

\* What each place holds
LEMMA WaitingTypes ==
    ASSUME RunsOK, BlockTypes, NEW i \in 1 .. Depth + 1
    PROVE  Waiting(i) \in Seq(Block) /\ Numbers(Waiting(i)) \subseteq Nat
<1>1. Depth \in Nat
  BY DepthIsNat
<1>2. CASE i <= Depth
  <2>1. i \in 1 .. Depth
    BY <1>1, <1>2
  <2>2. runs[i].kept \o runs[i].list \in Seq(Block)
    BY <2>1, JoinNumbers DEF BlockTypes
  <2>3. QED
    BY <1>2, <2>2, NumbersAreNat DEF Waiting
<1>3. CASE ~(i <= Depth)
  BY <1>3, NumbersAreNat DEF Waiting, BlockTypes
<1>4. QED
  BY <1>2, <1>3

\* Most steps leave the blocks alone
KeepsBlocks ==
    /\ UNCHANGED <<blocks, issued, ran>>
    /\ RunsOK' /\ Depth' = Depth
    /\ \A i \in 1 .. Depth : /\ runs'[i].list = runs[i].list /\ runs'[i].kept = runs[i].kept
                             /\ InBlocks(runs[i]) => InBlocks(runs'[i])

LEMMA KeepsBlockInv == BlockInv /\ KeepsBlocks => BlockInv'
<1> SUFFICES ASSUME BlockInv, KeepsBlocks PROVE BlockInv'
  OBVIOUS
<1>1. BlockTypes'
  BY DEF BlockInv, BlockTypes, KeepsBlocks, InBlocks
<1>2. ASSUME NEW i \in 1 .. Depth + 1 PROVE Waiting(i)' = Waiting(i)
  <2>1. Depth \in Nat
    BY DepthIsNat DEF BlockInv
  <2>2. CASE i <= Depth
    <3>1. i \in 1 .. Depth
      BY <2>1, <2>2
    <3>2. QED
      BY <2>2, <3>1 DEF Waiting, KeepsBlocks
  <2>3. CASE ~(i <= Depth)
    BY <2>3 DEF Waiting, KeepsBlocks
  <2>4. QED
    BY <2>2, <2>3
<1>3. BlocksKept'
  <2>1. Depth' = Depth /\ ran' = ran /\ issued' = issued
    BY DEF KeepsBlocks
  <2>2. QED
    BY <2>1, <1>2 DEF BlocksKept, BlockInv
<1>4. QED
  BY <1>1, <1>3 DEF BlockInv, KeepsBlocks

\* The least element, as the code finds it by walking along the list
LEMMA MinIsIn ==
    ASSUME NEW S \in SUBSET Nat, S # {}
    PROVE  Min(S) \in S /\ \A y \in S : Min(S) <= y
<1> DEFINE R == OpToRel(<, Nat)
<1>1. PICK x \in S : \A y \in S : ~(<<y, x>> \in R)
  BY NatLessThanWellFounded, WFMin
<1>2. \A y \in S : x <= y
  <2> SUFFICES ASSUME NEW y \in S PROVE x <= y
    OBVIOUS
  <2>1. ~(y < x)
    BY <1>1 DEF OpToRel
  <2>2. QED
    BY <2>1
<1>3. QED
  BY <1>2 DEF Min

Places == 1 .. Depth + 1
AllWaiting == UNION {Numbers(Waiting(i)) : i \in 1 .. Depth + 1}

LEMMA AllWaitingDef ==
    ASSUME NEW x
    PROVE  x \in AllWaiting <=> \E i \in 1 .. Depth + 1 : x \in Numbers(Waiting(i))
  BY DEF AllWaiting

\* The lists go to other places, in the same order
LEMMA Moved ==
    ASSUME BlocksKept, UNCHANGED <<ran, issued>>,
           \A i \in Places' :
              Waiting(i)' = <<>> \/ \E k \in Places : Waiting(i)' = Waiting(k),
           \A i, j \in Places' :
              i < j => \/ Waiting(i)' = <<>> \/ Waiting(j)' = <<>>
                       \/ \E k, l \in Places :
                            k < l /\ Waiting(i)' = Waiting(k) /\ Waiting(j)' = Waiting(l),
           \A k \in Places :
              Waiting(k) = <<>> \/ \E i \in Places' : Waiting(i)' = Waiting(k)
    PROVE  BlocksKept'
<1>1. (\A i \in 1 .. Depth + 1 : Increasing(Waiting(i)) /\ Numbers(Waiting(i)) \cap ran = {})'
  BY EmptyWaiting DEF BlocksKept, Places
<1>2. (\A i, j \in 1 .. Depth + 1 : i < j =>
          \A a \in Numbers(Waiting(i)), b \in Numbers(Waiting(j)) : a < b)'
  BY EmptyWaiting DEF BlocksKept, Places
<1>3. ((UNION {Numbers(Waiting(i)) : i \in 1 .. Depth + 1}) \cup ran = 1 .. issued)'
  <2> DEFINE u == UNION {Numbers(Waiting(i)) : i \in 1 .. Depth + 1}
  <2>1. \A x : x \in u' => x \in u
    BY EmptyWaiting DEF Places
  <2>2. \A x : x \in u => x \in u'
    BY EmptyWaiting DEF Places
  <2>3. u' = u
    BY <2>1, <2>2
  <2>4. QED
    BY <2>3 DEF BlocksKept
<1>4. QED
  BY <1>1, <1>2, <1>3 DEF BlocksKept

\* The list moves to the innermost activation
LEMMA TakeBlocksKeeps == BlockInv /\ TakeBlocks => BlockInv'
<1> SUFFICES ASSUME BlockInv, TakeBlocks PROVE BlockInv'
  OBVIOUS
<1> DEFINE f == [Top EXCEPT !.list = blocks, !.back = Top.pc, !.pc = "doBlocks"]
<1>1. /\ Depth > 0 /\ ~InBlocks(Top) /\ Set(f) /\ blocks' = <<>> /\ UNCHANGED <<issued, ran>>
  BY DEF TakeBlocks, InBlocks, history
<1>0. PICK d \in Nat : d = Depth
  BY DepthIsNat DEF BlockInv
<1>2. RunsOK /\ d \in 1 .. d /\ d \in Nat /\ RunOK(Top)
  BY <1>0, <1>1, TopOK DEF BlockInv
<1>3. RunOK(f) /\ f.list = blocks /\ f.kept = Top.kept /\ InBlocks(f)
  BY <1>2 DEF RunFields, RunOK, InBlocks
<1> HIDE DEF f
<1>4. RunsOK' /\ Depth' = d /\ runs'[d] = f /\ \A j \in 1 .. d : j # d => runs'[j] = runs[j]
  BY <1>0, <1>1, <1>2, <1>3, SetTop
<1>5. Top = runs[d] /\ runs[d].list = <<>> /\ runs[d].kept = <<>>
  BY <1>0, <1>1, <1>2 DEF BlockInv, BlockTypes, Top
<1>6. blocks \in Seq(Block) /\ issued \in Nat
  BY DEF BlockInv, BlockTypes
<1>7. BlockTypes'
  <2>1. \A i \in 1 .. d : /\ runs'[i].list \in Seq(Block) /\ runs'[i].kept \in Seq(Block)
                          /\ ~InBlocks(runs'[i]) => runs'[i].list = <<>> /\ runs'[i].kept = <<>>
    BY <1>0, <1>2, <1>3, <1>4, <1>5, <1>6, EmptyWaiting DEF BlockInv, BlockTypes, InBlocks
  <2>2. QED
    BY <2>1, <1>1, <1>4, <1>6, EmptyWaiting DEF BlockTypes, InBlocks
<1>8. /\ \A i \in 1 .. d : i # d => Waiting(i)' = Waiting(i)
      /\ Waiting(d) = <<>> /\ Waiting(d + 1) = blocks
      /\ Waiting(d)' = blocks /\ Waiting(d + 1)' = <<>>
  <2>1. /\ \A i \in 1 .. d : i <= d /\ i <= Depth /\ i <= Depth'
        /\ ~(d + 1 <= Depth) /\ ~(d + 1 <= Depth')
    BY <1>0, <1>2, <1>4
  <2>2. <<>> \o <<>> = <<>> /\ <<>> \o blocks = blocks
    BY <1>6, EmptyWaiting, ConcatEmptySeq
  <2>3. \A i \in 1 .. d : i # d => Waiting(i)' = Waiting(i)
    BY <2>1, <1>4 DEF Waiting
  <2>4. Waiting(d) = <<>> /\ Waiting(d + 1) = blocks
    BY <2>1, <2>2, <1>2, <1>5 DEF Waiting
  <2>5. Waiting(d)' = blocks
    <3>1. Waiting(d)' = f.kept \o f.list
      BY <2>1, <1>2, <1>4 DEF Waiting
    <3>2. QED
      BY <3>1, <2>2, <1>3, <1>5
  <2>6. Waiting(d + 1)' = <<>>
    BY <2>1, <1>1, <1>4 DEF Waiting
  <2>7. QED
    BY <2>3, <2>4, <2>5, <2>6
<1>9. BlocksKept'
  <2>1. \A i \in 1 .. d + 1 : i = d + 1 \/ i = d \/ (i \in 1 .. d /\ i # d /\ i < d)
    BY <1>2
  <2>2. d \in 1 .. d + 1 /\ d + 1 \in 1 .. d + 1
    BY <1>2
  <2>3. \A i, j \in 1 .. d + 1 : (i < j /\ j = d) => i < d + 1
    BY <1>2
  <2>4. \A i \in 1 .. d + 1 : Waiting(i)' = <<>> \/ \E k \in 1 .. d + 1 : Waiting(i)' = Waiting(k)
    BY <2>1, <2>2, <1>8
  <2>5. \A i, j \in 1 .. d + 1 :
              i < j => \/ Waiting(i)' = <<>> \/ Waiting(j)' = <<>>
                       \/ \E k, l \in 1 .. d + 1 :
                            k < l /\ Waiting(i)' = Waiting(k) /\ Waiting(j)' = Waiting(l)
    <3> SUFFICES ASSUME NEW i \in 1 .. d + 1, NEW j \in 1 .. d + 1, i < j,
                        Waiting(j)' # <<>>
                 PROVE  \E k, l \in 1 .. d + 1 :
                            k < l /\ Waiting(i)' = Waiting(k) /\ Waiting(j)' = Waiting(l)
      OBVIOUS
    <3>1. j # d + 1 /\ i \in 1 .. d /\ i # d
      BY <1>2, <1>8
    <3>2. CASE j = d
      BY <3>1, <3>2, <2>2, <2>3, <1>8
    <3>3. CASE j # d
      <4>1. j \in 1 .. d
        BY <3>1, <1>2
      <4>2. QED
        BY <3>1, <3>3, <4>1, <1>8
    <3>4. QED
      BY <3>2, <3>3
  <2>6. \A k \in 1 .. d + 1 : Waiting(k) = <<>> \/ \E i \in 1 .. d + 1 : Waiting(i)' = Waiting(k)
    BY <2>1, <2>2, <1>8
  <2>7. Places = 1 .. d + 1 /\ Places' = 1 .. d + 1 /\ BlocksKept /\ UNCHANGED <<ran, issued>>
    BY <1>0, <1>1, <1>4 DEF BlockInv, Places
  <2>8. QED
    BY <2>4, <2>5, <2>6, <2>7, Moved
<1>10. QED
  BY <1>4, <1>7, <1>9 DEF BlockInv

\* A new activation holds no blocks
LEMMA RunSpecificKeeps ==
    ASSUME BlockInv, NEW m \in Modes, NEW once, NEW seconds, CFRunLoopRunSpecific(m, once, seconds)
    PROVE  BlockInv'
<1> DEFINE f == NewRun(m, once, seconds)
<1>1. runs' = Append(runs, f) /\ UNCHANGED <<blocks, issued, ran>>
  BY DEF CFRunLoopRunSpecific, history
<1>2. PICK d \in Nat : d = Depth
  BY DepthIsNat DEF BlockInv
<1>3. RunOK(f) /\ f.list = <<>> /\ f.kept = <<>>
  BY DEF NewRun, RunFields, RunOK
<1> HIDE DEF f
<1>4. Extended(runs, runs', f)
  <2>1. IsSeq(runs)
    BY DEF BlockInv, RunsOK
  <2>2. QED
    BY <1>1, <2>1, AddOne, Zenon
<1>5. /\ IsSeq(runs') /\ Depth' = d + 1 /\ runs'[d + 1] = f /\ \A j \in 1 .. d : runs'[j] = runs[j]
  BY <1>2, <1>4 DEF Extended, Depth
<1>6. \A i \in 1 .. d + 1 : i = d + 1 \/ i \in 1 .. d
  BY <1>2
<1>7. RunsOK'
  BY <1>2, <1>3, <1>5, <1>6 DEF RunsOK, BlockInv
<1>8. BlockTypes'
  <2>1. \A i \in 1 .. d + 1 : /\ runs'[i].list \in Seq(Block) /\ runs'[i].kept \in Seq(Block)
                              /\ ~InBlocks(runs'[i]) => runs'[i].list = <<>> /\ runs'[i].kept = <<>>
    BY <1>2, <1>3, <1>5, <1>6, EmptyWaiting DEF BlockInv, BlockTypes, InBlocks
  <2>2. QED
    BY <2>1, <1>1, <1>5 DEF BlockTypes, InBlocks, BlockInv
<1>9. /\ \A i \in 1 .. d : Waiting(i)' = Waiting(i)
      /\ Waiting(d + 1)' = <<>> /\ Waiting(d + 2)' = Waiting(d + 1)
  <2>1. /\ \A i \in 1 .. d : i <= Depth /\ i <= Depth'
        /\ ~(d + 1 <= Depth) /\ d + 1 <= Depth' /\ ~(d + 2 <= Depth')
    BY <1>2, <1>5
  <2>2. <<>> \o <<>> = <<>>
    BY EmptyWaiting, ConcatEmptySeq
  <2>3. \A i \in 1 .. d : Waiting(i)' = Waiting(i)
    BY <2>1, <1>5 DEF Waiting
  <2>4. Waiting(d + 1)' = <<>>
    BY <2>1, <2>2, <1>3, <1>5 DEF Waiting
  <2>5. Waiting(d + 2)' = Waiting(d + 1)
    BY <2>1, <1>1 DEF Waiting
  <2>6. QED
    BY <2>3, <2>4, <2>5
<1>10. BlocksKept'
  <2>1. \A i \in 1 .. d + 2 : i = d + 2 \/ i = d + 1 \/ i \in 1 .. d
    BY <1>2
  <2>2. d + 1 \in 1 .. d + 1 /\ d + 2 \in 1 .. d + 2 /\ \A i \in 1 .. d : i \in 1 .. d + 1 /\ i \in 1 .. d + 2 /\ i < d + 1
    BY <1>2
  <2>3. \A i \in 1 .. d + 2 : Waiting(i)' = <<>> \/ \E k \in 1 .. d + 1 : Waiting(i)' = Waiting(k)
    BY <2>1, <2>2, <1>9
  <2>4. \A i, j \in 1 .. d + 2 :
              i < j => \/ Waiting(i)' = <<>> \/ Waiting(j)' = <<>>
                       \/ \E k, l \in 1 .. d + 1 :
                            k < l /\ Waiting(i)' = Waiting(k) /\ Waiting(j)' = Waiting(l)
    <3> SUFFICES ASSUME NEW i \in 1 .. d + 2, NEW j \in 1 .. d + 2, i < j,
                        Waiting(i)' # <<>>, Waiting(j)' # <<>>
                 PROVE  \E k, l \in 1 .. d + 1 :
                            k < l /\ Waiting(i)' = Waiting(k) /\ Waiting(j)' = Waiting(l)
      OBVIOUS
    <3>1. i \in 1 .. d
      BY <1>2, <1>9, <2>1
    <3>2. CASE j = d + 2
      BY <3>1, <3>2, <2>2, <1>9
    <3>3. CASE j # d + 2
      BY <3>1, <3>3, <2>1, <2>2, <1>9
    <3>4. QED
      BY <3>2, <3>3
  <2>5. \A k \in 1 .. d + 1 : \E i \in 1 .. d + 2 : Waiting(i)' = Waiting(k)
    BY <1>6, <2>2, <1>9
  <2>6. Places = 1 .. d + 1 /\ Places' = 1 .. d + 2 /\ BlocksKept /\ UNCHANGED <<ran, issued>>
    BY <1>1, <1>2, <1>5 DEF BlockInv, Places
  <2>7. \A i \in Places' :
              Waiting(i)' = <<>> \/ \E k \in Places : Waiting(i)' = Waiting(k)
    BY <2>3, <2>6
  <2>8. \A i, j \in Places' :
              i < j => \/ Waiting(i)' = <<>> \/ Waiting(j)' = <<>>
                       \/ \E k, l \in Places :
                            k < l /\ Waiting(i)' = Waiting(k) /\ Waiting(j)' = Waiting(l)
    BY <2>4, <2>6
  <2>9. \A k \in Places :
              Waiting(k) = <<>> \/ \E i \in Places' : Waiting(i)' = Waiting(k)
    BY <2>5, <2>6
  <2>10. QED
    BY <2>6, <2>7, <2>8, <2>9, Moved
<1>11. QED
  BY <1>7, <1>8, <1>10 DEF BlockInv

\* An activation that ends holds none either
LEMMA PopRunKeeps == BlockInv /\ PopRun => BlockInv'
<1> SUFFICES ASSUME BlockInv, PopRun PROVE BlockInv'
  OBVIOUS
<1>1. /\ Depth > 0 /\ ~InBlocks(Top) /\ runs' = Front(runs) /\ UNCHANGED <<blocks, issued, ran>>
  BY DEF PopRun, history, At, InBlocks
<1>2. PICK d \in Nat : d = Depth
  BY DepthIsNat DEF BlockInv
<1>3. d > 0 /\ d \in 1 .. d /\ d - 1 \in Nat
  BY <1>1, <1>2
<1>4. Shortened(runs, runs')
  <2>1. IsSeq(runs) /\ d = Len(runs)
    BY <1>2 DEF BlockInv, RunsOK, Depth
  <2>2. QED
    BY <1>1, <1>3, <2>1, DropOne, Zenon
<1>5. /\ IsSeq(runs') /\ Depth' = d - 1 /\ \A j \in 1 .. d - 1 : runs'[j] = runs[j]
  BY <1>2, <1>4 DEF Shortened, Depth
<1>6. \A i \in 1 .. d - 1 : i \in 1 .. d /\ i < d
  BY <1>2, <1>3
<1>7. RunsOK'
  BY <1>2, <1>5, <1>6 DEF RunsOK, BlockInv
<1>8. BlockTypes'
  <2>1. \A i \in 1 .. d - 1 : /\ runs'[i].list \in Seq(Block) /\ runs'[i].kept \in Seq(Block)
                              /\ ~InBlocks(runs'[i]) => runs'[i].list = <<>> /\ runs'[i].kept = <<>>
    BY <1>2, <1>5, <1>6 DEF BlockInv, BlockTypes, InBlocks
  <2>2. QED
    BY <2>1, <1>1, <1>5 DEF BlockTypes, InBlocks, BlockInv
<1>9. /\ \A i \in 1 .. d - 1 : Waiting(i)' = Waiting(i)
      /\ Waiting(d) = <<>> /\ Waiting(d)' = Waiting(d + 1)
  <2>1. /\ \A i \in 1 .. d - 1 : i <= Depth /\ i <= Depth'
        /\ d <= Depth /\ ~(d + 1 <= Depth) /\ ~(d <= Depth')
    BY <1>2, <1>3, <1>5
  <2>2. <<>> \o <<>> = <<>>
    BY EmptyWaiting, ConcatEmptySeq
  <2>3. \A i \in 1 .. d - 1 : Waiting(i)' = Waiting(i)
    BY <2>1, <1>5 DEF Waiting
  <2>4. runs[d].list = <<>> /\ runs[d].kept = <<>>
    BY <1>1, <1>2, <1>3 DEF BlockInv, BlockTypes, Top
  <2>5. Waiting(d) = <<>>
    BY <2>1, <2>2, <2>4 DEF Waiting
  <2>6. Waiting(d)' = Waiting(d + 1)
    BY <2>1, <1>1 DEF Waiting
  <2>7. QED
    BY <2>3, <2>5, <2>6
<1>10. BlocksKept'
  <2>1. \A i \in 1 .. d : i = d \/ i \in 1 .. d - 1
    BY <1>2
  <2>2. /\ d + 1 \in 1 .. d + 1 /\ d \in 1 .. d
        /\ \A i \in 1 .. d - 1 : i \in 1 .. d + 1 /\ i \in 1 .. d /\ i < d + 1
        /\ \A i \in 1 .. d + 1 : i = d + 1 \/ i = d \/ i \in 1 .. d - 1
        /\ \A i, j \in 1 .. d : i < j => i \in 1 .. d - 1
    BY <1>2, <1>3
  <2>3. \A i \in 1 .. d : \E k \in 1 .. d + 1 : Waiting(i)' = Waiting(k)
    BY <2>1, <2>2, <1>9
  <2>4. \A i, j \in 1 .. d :
              i < j => \E k, l \in 1 .. d + 1 :
                            k < l /\ Waiting(i)' = Waiting(k) /\ Waiting(j)' = Waiting(l)
    BY <2>1, <2>2, <1>9
  <2>5. \A k \in 1 .. d + 1 : Waiting(k) = <<>> \/ \E i \in 1 .. d : Waiting(i)' = Waiting(k)
    BY <2>2, <1>9
  <2>6. Places = 1 .. d + 1 /\ Places' = 1 .. d /\ BlocksKept /\ UNCHANGED <<ran, issued>>
    BY <1>1, <1>2, <1>5 DEF BlockInv, Places
  <2>7. \A i \in Places' :
              Waiting(i)' = <<>> \/ \E k \in Places : Waiting(i)' = Waiting(k)
    BY <2>3, <2>6
  <2>8. \A i, j \in Places' :
              i < j => \/ Waiting(i)' = <<>> \/ Waiting(j)' = <<>>
                       \/ \E k, l \in Places :
                            k < l /\ Waiting(i)' = Waiting(k) /\ Waiting(j)' = Waiting(l)
    BY <2>4, <2>6
  <2>9. \A k \in Places :
              Waiting(k) = <<>> \/ \E i \in Places' : Waiting(i)' = Waiting(k)
    BY <2>5, <2>6
  <2>10. QED
    BY <2>6, <2>7, <2>8, <2>9, Moved
<1>11. QED
  BY <1>7, <1>8, <1>10 DEF BlockInv

\* A new block gets the next number and the last place
LEMMA PerformBlockKeeps ==
    ASSUME BlockInv, NEW c \in Callers, NEW ms \in SUBSET Modes, CFRunLoopPerformBlock(c, ms)
    PROVE  BlockInv'
<1> DEFINE b == [block |-> issued + 1, modes |-> ms]
<1>1. runs' = runs /\ issued' = issued + 1 /\ blocks' = Append(blocks, b) /\ ran' = ran
  BY DEF CFRunLoopPerformBlock
<1>2. PICK d \in Nat : d = Depth
  BY DepthIsNat DEF BlockInv
<1>3. blocks \in Seq(Block) /\ issued \in Nat /\ issued + 1 \in Nat
  BY DEF BlockInv, BlockTypes
<1>4. b \in Block /\ b.block = issued + 1
  BY <1>3 DEF Block
<1> HIDE DEF b
<1>5. /\ blocks' = blocks \o <<b>> /\ <<b>> \in Seq(Block) /\ Numbers(<<b>>) = {issued + 1}
      /\ Increasing(<<b>>) /\ blocks' \in Seq(Block)
      /\ Numbers(blocks') = Numbers(blocks) \cup {issued + 1}
  <2>1. Append(blocks, b) = blocks \o <<b>>
    BY <1>3, <1>4, AppendIsConcat
  <2>2. <<b>> \in Seq(Block) /\ Numbers(<<b>>) = {issued + 1} /\ Increasing(<<b>>)
    BY <1>4, SingleWaiting
  <2>3. /\ blocks \o <<b>> \in Seq(Block)
        /\ Numbers(blocks \o <<b>>) = Numbers(blocks) \cup Numbers(<<b>>)
    BY <1>3, <2>2, JoinNumbers
  <2>4. QED
    BY <1>1, <2>1, <2>2, <2>3
<1>6. Depth' = d /\ RunsOK' /\ BlockTypes'
  BY <1>1, <1>2, <1>3, <1>5 DEF RunsOK, BlockTypes, BlockInv, Depth, InBlocks
<1>7. /\ \A i \in 1 .. d : Waiting(i)' = Waiting(i)
      /\ Waiting(d + 1) = blocks /\ Waiting(d + 1)' = blocks'
  <2>1. /\ \A i \in 1 .. d : i <= Depth /\ i <= Depth'
        /\ ~(d + 1 <= Depth) /\ ~(d + 1 <= Depth')
    BY <1>2, <1>6
  <2>2. QED
    BY <2>1, <1>1 DEF Waiting
<1>8. /\ \A i \in 1 .. d + 1 : i = d + 1 \/ i \in 1 .. d
      /\ d + 1 \in 1 .. d + 1 /\ \A i \in 1 .. d : i \in 1 .. d + 1
      /\ \A i, j \in 1 .. d + 1 : i < j => i \in 1 .. d
  BY <1>2
<1>9. /\ \A i \in 1 .. d + 1 : Increasing(Waiting(i)) /\ Numbers(Waiting(i)) \cap ran = {}
      /\ \A i, j \in 1 .. d + 1 : i < j =>
            \A x \in Numbers(Waiting(i)), y \in Numbers(Waiting(j)) : x < y
      /\ (UNION {Numbers(Waiting(i)) : i \in 1 .. d + 1}) \cup ran = 1 .. issued
  BY <1>2 DEF BlockInv, BlocksKept
<1>10. /\ \A i \in 1 .. d + 1 : \A x \in Numbers(Waiting(i)) : x \in 1 .. issued
       /\ \A x \in ran : x \in 1 .. issued
  <2>1. \A i \in 1 .. d + 1 : \A x \in Numbers(Waiting(i)) : x \in AllWaiting
    BY <1>2, AllWaitingDef
  <2>2. AllWaiting \cup ran = 1 .. issued
    BY DEF BlockInv, BlocksKept, AllWaiting
  <2>3. QED
    BY <2>1, <2>2, Zenon
<1>11. \A x \in 1 .. issued : x < issued + 1 /\ x # issued + 1
  BY <1>3
<1>12. \A i \in 1 .. d + 1 : Increasing(Waiting(i)') /\ Numbers(Waiting(i)') \cap ran' = {}
  <2>1. Increasing(blocks')
    <3>1. Before(blocks, <<b>>)
      BY <1>5, <1>7, <1>8, <1>10, <1>11 DEF Before
    <3>2. Increasing(blocks)
      BY <1>7, <1>8, <1>9
    <3>3. QED
      BY <3>1, <3>2, <1>3, <1>5, JoinIncreasing
  <2>2. Numbers(blocks') \cap ran = {}
    BY <1>5, <1>7, <1>8, <1>9, <1>10, <1>11
  <2>3. QED
    BY <2>1, <2>2, <1>1, <1>7, <1>8, <1>9
<1>13. \A i, j \in 1 .. d + 1 : i < j =>
            \A x \in Numbers(Waiting(i)'), y \in Numbers(Waiting(j)') : x < y
  <2> SUFFICES ASSUME NEW i \in 1 .. d + 1, NEW j \in 1 .. d + 1, i < j,
                      NEW x \in Numbers(Waiting(i)'), NEW y \in Numbers(Waiting(j)')
               PROVE  x < y
    OBVIOUS
  <2>1. i \in 1 .. d /\ x \in Numbers(Waiting(i))
    BY <1>7, <1>8
  <2>2. CASE j \in 1 .. d
    BY <2>1, <2>2, <1>7, <1>8, <1>9
  <2>3. CASE j = d + 1
    <3>1. y \in Numbers(Waiting(j)) \/ y = issued + 1
      BY <2>3, <1>5, <1>7
    <3>2. QED
      BY <2>1, <3>1, <1>8, <1>9, <1>10, <1>11
  <2>4. QED
    BY <2>2, <2>3, <1>8
<1>14. (UNION {Numbers(Waiting(i)') : i \in 1 .. d + 1}) \cup ran' = 1 .. issued'
  <2>1. 1 .. issued' = (1 .. issued) \cup {issued + 1}
    BY <1>1, <1>3
  <2>2. \A x : x \in UNION {Numbers(Waiting(i)') : i \in 1 .. d + 1}
               <=> x \in UNION {Numbers(Waiting(i)) : i \in 1 .. d + 1} \/ x = issued + 1
    BY <1>5, <1>7, <1>8
  <2>3. QED
    BY <2>1, <2>2, <1>1, <1>9
<1>15. BlocksKept'
  BY <1>6, <1>12, <1>13, <1>14 DEF BlocksKept, Numbers, Increasing
<1>16. QED
  BY <1>6, <1>15 DEF BlockInv

\* __CFRunLoopDoBlocks puts back what is left
LEMMA BlocksPutBack ==
    ASSUME BlockInv, Depth > 0, NEW f, Set(f), RunOK(f), f.list = <<>>, f.kept = <<>>,
           blocks' = Top.kept \o Top.list \o blocks, UNCHANGED <<issued, ran>>
    PROVE  BlockInv'
<1>1. PICK d \in Nat : d = Depth
  BY DepthIsNat DEF BlockInv
<1>2. d \in 1 .. d /\ RunOK(Top)
  BY <1>1, TopOK DEF BlockInv
<1>3. RunsOK' /\ Depth' = d /\ runs'[d] = f /\ \A j \in 1 .. d : j # d => runs'[j] = runs[j]
  BY <1>1, SetTop DEF BlockInv
<1>4. /\ Top = runs[d] /\ Top.kept \in Seq(Block) /\ Top.list \in Seq(Block)
      /\ blocks \in Seq(Block) /\ issued \in Nat
  BY <1>1, <1>2 DEF BlockInv, BlockTypes, Top
<1>5. /\ \A i \in 1 .. d + 1 : i = d + 1 \/ i = d \/ (i \in 1 .. d /\ i # d)
      /\ d \in 1 .. d + 1 /\ d + 1 \in 1 .. d + 1 /\ d < d + 1 /\ d # d + 1
      /\ \A i \in 1 .. d : i \in 1 .. d + 1
      /\ \A i, j \in 1 .. d + 1 : i < j => i \in 1 .. d
      /\ \A i, j \in 1 .. d + 1 : i < j /\ j # d + 1 => i # d /\ j \in 1 .. d
      /\ \A i \in 1 .. d : i # d => i < d
      /\ \A i \in 1 .. d : i < d + 1
  BY <1>1, <1>2
<1>6. /\ \A i \in 1 .. d : i # d => Waiting(i)' = Waiting(i)
      /\ Waiting(d) = Top.kept \o Top.list /\ Waiting(d + 1) = blocks
      /\ Waiting(d)' = <<>> /\ Waiting(d + 1)' = blocks'
  <2>1. /\ \A i \in 1 .. d : i <= Depth /\ i <= Depth'
        /\ ~(d + 1 <= Depth) /\ ~(d + 1 <= Depth')
    BY <1>1, <1>3
  <2>2. <<>> \o <<>> = <<>>
    BY EmptyWaiting, ConcatEmptySeq
  <2>3. \A i \in 1 .. d : i # d => Waiting(i)' = Waiting(i)
    BY <2>1, <1>3 DEF Waiting
  <2>4. Waiting(d) = Top.kept \o Top.list /\ Waiting(d + 1) = blocks
    BY <2>1, <1>2, <1>4 DEF Waiting
  <2>5. Waiting(d)' = <<>> /\ Waiting(d + 1)' = blocks'
    BY <2>1, <2>2, <1>2, <1>3 DEF Waiting
  <2>6. QED
    BY <2>3, <2>4, <2>5
<1>7. /\ \A i \in 1 .. d + 1 : Increasing(Waiting(i)) /\ Numbers(Waiting(i)) \cap ran = {}
      /\ \A i, j \in 1 .. d + 1 : i < j =>
            \A x \in Numbers(Waiting(i)), y \in Numbers(Waiting(j)) : x < y
      /\ (UNION {Numbers(Waiting(i)) : i \in 1 .. d + 1}) \cup ran = 1 .. issued
  BY <1>1 DEF BlockInv, BlocksKept
<1>8. /\ blocks' = Waiting(d) \o Waiting(d + 1)
      /\ Waiting(d) \in Seq(Block) /\ Waiting(d + 1) \in Seq(Block)
  <2>1. Top.kept \o Top.list \in Seq(Block)
    BY <1>4, JoinNumbers
  <2>2. QED
    BY <2>1, <1>4, <1>6, Zenon
<1>9. blocks' \in Seq(Block) /\ Numbers(blocks') = Numbers(Waiting(d)) \cup Numbers(Waiting(d + 1))
  BY <1>8, JoinNumbers
<1>10. Increasing(blocks')
  <2>1. Before(Waiting(d), Waiting(d + 1))
    BY <1>5, <1>7 DEF Before
  <2>2. QED
    BY <2>1, <1>5, <1>7, <1>8, JoinIncreasing
<1>11. BlockTypes'
  <2>1. \A i \in 1 .. d : /\ runs'[i].list \in Seq(Block) /\ runs'[i].kept \in Seq(Block)
                          /\ ~InBlocks(runs'[i]) => runs'[i].list = <<>> /\ runs'[i].kept = <<>>
    BY <1>1, <1>2, <1>3, EmptyWaiting DEF BlockInv, BlockTypes, InBlocks
  <2>2. QED
    BY <2>1, <1>3, <1>4, <1>9 DEF BlockTypes, InBlocks
<1>12. \A i \in 1 .. d + 1 : Increasing(Waiting(i)') /\ Numbers(Waiting(i)') \cap ran' = {}
  <2>1. Increasing(Waiting(d + 1)') /\ Numbers(Waiting(d + 1)') \cap ran' = {}
    BY <1>5, <1>6, <1>7, <1>9, <1>10
  <2>2. Increasing(Waiting(d)') /\ Numbers(Waiting(d)') \cap ran' = {}
    BY <1>6, EmptyWaiting
  <2>3. \A i \in 1 .. d : i # d => Increasing(Waiting(i)') /\ Numbers(Waiting(i)') \cap ran' = {}
    BY <1>5, <1>6, <1>7
  <2>4. QED
    BY <2>1, <2>2, <2>3, <1>5
<1>13. \A i, j \in 1 .. d + 1 : i < j =>
            \A x \in Numbers(Waiting(i)'), y \in Numbers(Waiting(j)') : x < y
  <2> SUFFICES ASSUME NEW i \in 1 .. d + 1, NEW j \in 1 .. d + 1, i < j,
                      NEW x \in Numbers(Waiting(i)'), NEW y \in Numbers(Waiting(j)')
               PROVE  x < y
    OBVIOUS
  <2>1. i \in 1 .. d /\ i # d /\ x \in Numbers(Waiting(i))
    BY <1>5, <1>6, EmptyWaiting
  <2>2. CASE j = d + 1
    <3>1. y \in Numbers(Waiting(d)) \/ y \in Numbers(Waiting(d + 1))
      BY <2>2, <1>6, <1>9
    <3>2. QED
      BY <2>1, <3>1, <1>5, <1>7
  <2>3. CASE j # d + 1
    <3>1. j # d /\ j \in 1 .. d
      BY <2>3, <1>5, <1>6, EmptyWaiting
    <3>2. QED
      BY <2>1, <3>1, <1>5, <1>6, <1>7
  <2>4. QED
    BY <2>2, <2>3
<1>14. (UNION {Numbers(Waiting(i)') : i \in 1 .. d + 1}) \cup ran' = 1 .. issued'
  <2>1. \A x : x \in UNION {Numbers(Waiting(i)') : i \in 1 .. d + 1}
               => x \in UNION {Numbers(Waiting(i)) : i \in 1 .. d + 1}
    BY <1>5, <1>6, <1>9, EmptyWaiting
  <2>2. \A x : x \in UNION {Numbers(Waiting(i)) : i \in 1 .. d + 1}
               => x \in UNION {Numbers(Waiting(i)') : i \in 1 .. d + 1}
    BY <1>5, <1>6, <1>9, EmptyWaiting
  <2>3. QED
    BY <2>1, <2>2, <1>7
<1>15. BlocksKept'
  BY <1>3, <1>12, <1>13, <1>14 DEF BlocksKept, Numbers, Increasing
<1>16. QED
  BY <1>3, <1>11, <1>15 DEF BlockInv

\* It takes the n-th block out of its list and calls it
LEMMA BlockCalled ==
    ASSUME BlockInv, Depth > 0, NEW n \in 1 .. Len(Top.list), NEW f, Set(f), RunOK(f),
           f.kept = Top.kept \o SubSeq(Top.list, 1, n - 1),
           f.list = SubSeq(Top.list, n + 1, Len(Top.list)), InBlocks(f),
           ran' = ran \cup {Top.list[n].block}, UNCHANGED <<blocks, issued>>
    PROVE  BlockInv'
<1> DEFINE b == Top.list[n].block
<1>1. PICK d \in Nat : d = Depth
  BY DepthIsNat DEF BlockInv
<1>2. d \in 1 .. d /\ RunOK(Top)
  BY <1>1, TopOK DEF BlockInv
<1>3. RunsOK' /\ Depth' = d /\ runs'[d] = f /\ \A j \in 1 .. d : j # d => runs'[j] = runs[j]
  BY <1>1, SetTop DEF BlockInv
<1>4. /\ Top = runs[d] /\ Top.kept \in Seq(Block) /\ Top.list \in Seq(Block)
      /\ blocks \in Seq(Block) /\ issued \in Nat
  BY <1>1, <1>2 DEF BlockInv, BlockTypes, Top
<1>5. /\ \A i \in 1 .. d + 1 : i = d \/ (i \in 1 .. d + 1 /\ i # d)
      /\ d \in 1 .. d + 1 /\ \A i \in 1 .. d : i \in 1 .. d + 1
  BY <1>1, <1>2
<1>6. /\ \A i \in 1 .. d + 1 : i # d => Waiting(i)' = Waiting(i)
      /\ Waiting(d) = Top.kept \o Top.list /\ Waiting(d)' = f.kept \o f.list
  <2>1. /\ \A i \in 1 .. d : i <= Depth /\ i <= Depth'
        /\ ~(d + 1 <= Depth) /\ ~(d + 1 <= Depth')
        /\ \A i \in 1 .. d + 1 : i \in 1 .. d \/ i = d + 1
    BY <1>1, <1>3
  <2>2. \A i \in 1 .. d + 1 : i # d => Waiting(i)' = Waiting(i)
    BY <2>1, <1>3 DEF Waiting
  <2>3. Waiting(d) = Top.kept \o Top.list
    BY <2>1, <1>2, <1>4 DEF Waiting
  <2>4. Waiting(d)' = f.kept \o f.list
    BY <2>1, <1>2, <1>3 DEF Waiting
  <2>5. QED
    BY <2>2, <2>3, <2>4
<1>7. /\ \A i \in 1 .. d + 1 : Increasing(Waiting(i)) /\ Numbers(Waiting(i)) \cap ran = {}
      /\ \A i, j \in 1 .. d + 1 : i < j =>
            \A x \in Numbers(Waiting(i)), y \in Numbers(Waiting(j)) : x < y
      /\ (UNION {Numbers(Waiting(i)) : i \in 1 .. d + 1}) \cup ran = 1 .. issued
  BY <1>1 DEF BlockInv, BlocksKept
<1>8. /\ f.kept \in Seq(Block) /\ f.list \in Seq(Block)
      /\ Increasing(Waiting(d)')
      /\ Numbers(Waiting(d)') = Numbers(Waiting(d)) \ {b} /\ b \in Numbers(Waiting(d))
  <2>1. Increasing(Top.kept \o Top.list)
    BY <1>5, <1>6, <1>7
  <2>2. OneTaken(Top.kept, Top.list, n, f.kept, f.list)
    BY <2>1, <1>4, TakeOne, Zenon
  <2>3. QED
    BY <2>2, <1>6 DEF OneTaken
<1>9. \A i \in 1 .. d + 1 : Numbers(Waiting(i)) \subseteq Nat
  BY <1>1, WaitingTypes DEF BlockInv
<1> HIDE DEF b
<1>10. BlockTypes'
  <2>1. \A i \in 1 .. d : /\ runs'[i].list \in Seq(Block) /\ runs'[i].kept \in Seq(Block)
                          /\ ~InBlocks(runs'[i]) => runs'[i].list = <<>> /\ runs'[i].kept = <<>>
    BY <1>1, <1>2, <1>3, <1>8 DEF BlockInv, BlockTypes, InBlocks
  <2>2. QED
    BY <2>1, <1>3, <1>4 DEF BlockTypes, InBlocks
<1>11. ran' = ran \cup {b}
  BY DEF b
<1>12. \A i \in 1 .. d + 1 : i # d => b \notin Numbers(Waiting(i))
  <2> SUFFICES ASSUME NEW i \in 1 .. d + 1, i # d, b \in Numbers(Waiting(i)) PROVE FALSE
    OBVIOUS
  <2>1. i < d \/ d < i
    BY <1>1
  <2>2. b < b
    BY <2>1, <1>5, <1>7, <1>8
  <2>3. b \in Nat
    BY <1>5, <1>8, <1>9
  <2>4. QED
    BY <2>2, <2>3
<1>13. \A i \in 1 .. d + 1 : Increasing(Waiting(i)') /\ Numbers(Waiting(i)') \cap ran' = {}
  BY <1>5, <1>6, <1>7, <1>8, <1>11, <1>12
<1>14. \A i \in 1 .. d + 1 : Numbers(Waiting(i)') \subseteq Numbers(Waiting(i))
  BY <1>5, <1>6, <1>8
<1>15. (AllWaiting \cup ran = 1 .. issued)'
  <2>1. AllWaiting \cup ran = 1 .. issued
    BY DEF BlockInv, BlocksKept, AllWaiting
  <2>2. \A x : x \in AllWaiting <=> \E i \in 1 .. d + 1 : x \in Numbers(Waiting(i))
    BY <1>1, AllWaitingDef
  <2>3. \A x : x \in AllWaiting' <=> \E i \in 1 .. d + 1 : x \in Numbers(Waiting(i)')
    BY <1>3 DEF AllWaiting, Numbers
  <2>4. \A x : x \in AllWaiting' => x \in AllWaiting
    BY <2>2, <2>3, <1>14
  <2>5. \A x : x \in AllWaiting => x \in AllWaiting' \/ x = b
    BY <2>2, <2>3, <1>5, <1>6, <1>8
  <2>6. b \in AllWaiting
    BY <2>2, <1>5, <1>8
  <2>7. QED
    BY <2>1, <2>4, <2>5, <2>6, <1>11
<1>16. BlocksKept'
  <2>1. \A i, j \in 1 .. d + 1 : i < j =>
            \A x \in Numbers(Waiting(i)'), y \in Numbers(Waiting(j)') : x < y
    BY <1>7, <1>14
  <2>2. QED
    BY <1>3, <1>13, <1>15, <2>1 DEF BlocksKept, Numbers, Increasing, AllWaiting
<1>17. QED
  BY <1>3, <1>10, <1>16 DEF BlockInv

LEMMA DoBlocksKeeps == BlockInv /\ DoBlocks => BlockInv'
<1> SUFFICES ASSUME BlockInv, DoBlocks PROVE BlockInv'
  OBVIOUS
<1> DEFINE mine == {i \in DOMAIN Top.list : Top.mode \in Top.list[i].modes}
<1>1. Depth > 0 /\ UNCHANGED issued /\ RunOK(Top) /\ Depth \in 1 .. Depth
  BY TopOK DEF DoBlocks, At, BlockInv
<1>2. CASE mine = {}
  <2> DEFINE f == [Top EXCEPT !.list = <<>>, !.kept = <<>>, !.back = "none", !.pc = AfterBlocks(Top.back)]
  <2>1. blocks' = Top.kept \o Top.list \o blocks /\ Set(f) /\ UNCHANGED ran
    BY <1>2 DEF DoBlocks
  <2>2. RunOK(f) /\ f.list = <<>> /\ f.kept = <<>>
    BY <1>1 DEF RunFields, RunOK
  <2> HIDE DEF f
  <2>3. QED
    BY <1>1, <2>1, <2>2, BlocksPutBack
<1>3. CASE mine # {}
  <2> DEFINE n == Min(mine)
             f == [Top EXCEPT !.kept = @ \o SubSeq(Top.list, 1, n - 1),
                              !.list = SubSeq(@, n + 1, Len(@)), !.pc = "block"]
  <2>1. Set(f) /\ ran' = ran \cup {Top.list[n].block} /\ UNCHANGED blocks
    BY <1>3 DEF DoBlocks
  <2>2. /\ RunOK(f) /\ f.kept = Top.kept \o SubSeq(Top.list, 1, n - 1)
        /\ f.list = SubSeq(Top.list, n + 1, Len(Top.list)) /\ InBlocks(f)
    BY <1>1 DEF RunFields, RunOK, InBlocks
  <2>3. Top.list \in Seq(Block)
    BY <1>1 DEF BlockInv, BlockTypes, Top
  <2>4. DOMAIN Top.list = 1 .. Len(Top.list) /\ DOMAIN Top.list \subseteq Nat
    BY <2>3, LenProperties
  <2>5. n \in mine
    BY <1>3, <2>4, MinIsIn
  <2>6. n \in 1 .. Len(Top.list)
    BY <2>4, <2>5
  <2> HIDE DEF f, n
  <2>7. QED
    BY <1>1, <2>1, <2>2, <2>6, BlockCalled
<1>4. QED
  BY <1>2, <1>3


\* The other steps of the loop's thread change the innermost activation, but
\* not its blocks
Plain(f) == /\ RunOK(f) /\ f.list = Top.list /\ f.kept = Top.kept
            /\ InBlocks(Top) => InBlocks(f)

LEMMA PlainKeeps ==
    ASSUME BlockInv, Depth > 0, UNCHANGED <<blocks, issued, ran>>, \E f : Set(f) /\ Plain(f)
    PROVE  BlockInv'
<1>1. PICK f : Set(f) /\ Plain(f)
  OBVIOUS
<1>2. RunsOK /\ RunOK(f)
  BY <1>1 DEF BlockInv, Plain
<1>3. /\ RunsOK' /\ Depth' = Depth /\ runs'[Depth] = f
      /\ \A j \in 1 .. Depth : j # Depth => runs'[j] = runs[j]
  BY <1>1, <1>2, SetTop
<1>4. KeepsBlocks
  BY <1>1, <1>3 DEF KeepsBlocks, Plain, InBlocks, Top
<1>5. QED
  BY <1>4, KeepsBlockInv

MsgsOK == msgs \subseteq Ports \cup {"main"}

PlainStep ==
    \/ DoObservers \/ EnterLoop \/ CollectSources0 \/ DoSources0 \/ PollDispatch \/ Receive
    \/ Relock \/ HandleMsg \/ DoSource1 \/ DoTimer \/ Return \/ InvalidateFired
    \/ RemoveFired \/ EndTimer \/ Decide

LEMMA PlainStepKeeps == BlockInv /\ MsgsOK /\ PlainStep => BlockInv'
<1> SUFFICES ASSUME BlockInv, MsgsOK, PlainStep PROVE BlockInv'
  OBVIOUS
<1>1. Depth > 0 /\ UNCHANGED <<blocks, issued, ran>>
  BY DEF PlainStep, DoObservers, EnterLoop, CollectSources0, DoSources0, PollDispatch, Receive,
         Relock, HandleMsg, DoSource1, DoTimer, Return, InvalidateFired, RemoveFired, EndTimer,
         Decide, At, Callout, history
<1>2. RunOK(Top)
  BY <1>1, TopOK DEF BlockInv
<1> SUFFICES \E f : Set(f) /\ Plain(f)
  BY <1>1, PlainKeeps
<1> USE DEF Plain, RunOK, RunFields
<1>3. CASE DoObservers
  <2> DEFINE pc == CASE Top.pc = "entry" -> "begin"
                     [] Top.pc = "beforeTimers" -> ToBeforeSources(Top.mode)
                     [] Top.pc = "beforeSources" -> ToBlocks1(Top.mode)
                     [] Top.pc = "beforeWaiting" -> "sleep"
                     [] Top.pc = "afterWaiting" -> "handle"
                     [] Top.pc = "exit" -> "return"
  <2>1. Goto(pc) /\ ~InBlocks(Top)
    BY <1>3 DEF DoObservers, InBlocks, Activities
  <2> HIDE DEF pc
  <2>2. QED
    BY <1>2, <2>1 DEF Goto
<1>4. CASE EnterLoop
  BY <1>2, <1>4 DEF EnterLoop, Round, At, InBlocks
<1>5. CASE CollectSources0
  BY <1>2, <1>5 DEF CollectSources0, At, InBlocks
<1>6. CASE DoSources0
  BY <1>2, <1>6 DEF DoSources0, At, InBlocks
<1>7. CASE PollDispatch
  BY <1>2, <1>7 DEF PollDispatch, At, InBlocks
<1>8. CASE Receive
  BY <1>2, <1>8 DEF Receive, At, InBlocks, MsgsOK
<1>9. CASE Relock
  BY <1>2, <1>9 DEF Relock, At, InBlocks
<1>10. CASE HandleMsg
  BY <1>2, <1>10 DEF HandleMsg, At, InBlocks
<1>11. CASE DoSource1
  BY <1>2, <1>11 DEF DoSource1, At, InBlocks
<1>12. CASE DoTimer
  BY <1>2, <1>12 DEF DoTimer, At, InBlocks
<1>13. CASE Return
  <2> DEFINE pc == CASE Top.pc = "block" -> "doBlocks" [] Top.pc = "source" -> "doSources"
                     [] Top.pc \in {"source1", "main"} -> ToBlocks3
                     [] Top.pc = "timer" -> IF interval[Top.cur] = 0 THEN "doneTimer" ELSE "endTimer"
  <2>1. Goto(pc)
    BY <1>13 DEF Return
  <2>2. Top.pc = "block" => pc = "doBlocks"
    OBVIOUS
  <2>3. Top.pc # "doBlocks"
    BY <1>13 DEF Return, Callout, At, Activities
  <2> HIDE DEF pc
  <2>4. QED
    BY <1>2, <2>1, <2>2, <2>3 DEF Goto, InBlocks
<1>14. CASE InvalidateFired
  BY <1>2, <1>14 DEF InvalidateFired, Goto, At, InBlocks
<1>15. CASE RemoveFired
  BY <1>2, <1>15 DEF RemoveFired, Goto, At, InBlocks
<1>16. CASE EndTimer
  BY <1>2, <1>16 DEF EndTimer, At, InBlocks
<1>17. CASE Decide
  BY <1>2, <1>17 DEF Decide, Round, At, InBlocks
<1>18. QED
  BY <1>3, <1>4, <1>5, <1>6, <1>7, <1>8, <1>9, <1>10, <1>11, <1>12, <1>13, <1>14, <1>15, <1>16,
     <1>17 DEF PlainStep

LEMMA SameRunsKeep == BlockInv /\ UNCHANGED <<runs, blocks, issued, ran>> => BlockInv'
<1> SUFFICES ASSUME BlockInv, UNCHANGED <<runs, blocks, issued, ran>> PROVE BlockInv'
  OBVIOUS
<1>1. KeepsBlocks
  BY DEF KeepsBlocks, BlockInv, RunsOK, Depth
<1>2. QED
  BY <1>1, KeepsBlockInv

\* Timeouts change one activation, any of them
LEMMA OneRunKeeps ==
    ASSUME BlockInv, UNCHANGED <<blocks, issued, ran>>, NEW i \in DOMAIN runs, NEW f, RunOK(f),
           runs' = [runs EXCEPT ![i] = f],
           f.list = runs[i].list, f.kept = runs[i].kept, f.pc = runs[i].pc
    PROVE  BlockInv'
<1>1. i \in 1 .. Depth
  BY LenProperties DEF BlockInv, RunsOK, IsSeq, Depth
<1>2. RunsOK' /\ Depth' = Depth /\ runs'[i] = f /\ \A j \in 1 .. Depth : j # i => runs'[j] = runs[j]
  BY <1>1, SetOne DEF BlockInv
<1>3. KeepsBlocks
  BY <1>1, <1>2 DEF KeepsBlocks, InBlocks
<1>4. QED
  BY <1>3, KeepsBlockInv

LEMMA CallKeepsBlocks ==
    ASSUME BlockInv, NEW c \in Callers, API(c)
    PROVE  BlockInv'
<1>1. CASE CFRunLoopStop(c)
  <2>1. Depth > 0 /\ Set([Top EXCEPT !.stopped = TRUE]) /\ UNCHANGED <<blocks, issued, ran>>
    BY <1>1 DEF CFRunLoopStop, history
  <2>2. RunOK(Top)
    BY <2>1, TopOK DEF BlockInv
  <2>3. Plain([Top EXCEPT !.stopped = TRUE])
    BY <2>2 DEF Plain, RunOK, RunFields, InBlocks
  <2>4. QED
    BY <2>1, <2>3, PlainKeeps
<1>2. ASSUME NEW ms \in SUBSET Modes \ {{}}, CFRunLoopPerformBlock(c, ms)
      PROVE  BlockInv'
  BY <1>2, PerformBlockKeeps
<1>3. CASE ~CFRunLoopStop(c) /\ ~\E ms \in SUBSET Modes \ {{}} : CFRunLoopPerformBlock(c, ms)
  <2>1. UNCHANGED <<runs, blocks, issued, ran>>
    BY <1>3 DEF API, CFRunLoopWakeUp, AddInserts, InvalidateRemoves, SetDateRepositions,
                CFRunLoopSourceSignal, CFRunLoopStopMode, Invalidate, RemoveItem, AddChecks,
                SetNextFireDate, history
  <2>2. QED
    BY <2>1, SameRunsKeep
<1>4. QED
  BY <1>1, <1>2, <1>3

LEMMA NextMsgsOK == MsgsOK /\ [Next]_vars => MsgsOK'
<1> SUFFICES ASSUME MsgsOK, [Next]_vars PROVE MsgsOK'
  OBVIOUS
<1>1. CASE Loop
  BY <1>1 DEF MsgsOK, Loop, DoObservers, EnterLoop, TakeBlocks, DoBlocks, CollectSources0,
              DoSources0, PollDispatch, Receive, Relock, HandleMsg, DoSource1, DoTimer, Return,
              InvalidateFired, RemoveFired, EndTimer, Decide, PopRun, ports
<1>2. ASSUME NEW c \in Callers, API(c) PROVE MsgsOK'
  BY <1>2 DEF MsgsOK, API, CFRunLoopWakeUp, CFRunLoopStop, AddInserts, InvalidateRemoves,
              SetDateRepositions, CFRunLoopSourceSignal, CFRunLoopStopMode, CFRunLoopPerformBlock,
              Invalidate, RemoveItem, AddChecks, SetNextFireDate, items
<1>3. ASSUME NEW m, NEW once, NEW seconds, CFRunLoopRunSpecific(m, once, seconds) PROVE MsgsOK'
  BY <1>3 DEF MsgsOK, CFRunLoopRunSpecific, ports
<1>4. ASSUME NEW p \in Ports \cup {"main"}, Arrives(p) PROVE MsgsOK'
  BY <1>4 DEF MsgsOK, Arrives
<1>5. ASSUME NEW i \in DOMAIN runs, Timeout(i) \/ TimeoutWakes(i) PROVE MsgsOK'
  BY <1>5 DEF MsgsOK, Timeout, TimeoutWakes, ports
<1>6. CASE Tick \/ \E m \in Modes : KernelTimer(m)
  BY <1>6 DEF MsgsOK, Tick, KernelTimer, ports
<1>7. CASE UNCHANGED vars
  BY <1>7 DEF MsgsOK, vars
<1>8. QED
  BY <1>1, <1>2, <1>3, <1>4, <1>5, <1>6, <1>7 DEF Next

LEMMA NextBlockInv == BlockInv /\ MsgsOK /\ [Next]_vars => BlockInv'
<1> SUFFICES ASSUME BlockInv, MsgsOK, [Next]_vars PROVE BlockInv'
  OBVIOUS
<1>1. CASE Loop
  <2>1. TakeBlocks \/ DoBlocks \/ PopRun \/ PlainStep
    BY <1>1 DEF Loop, PlainStep
  <2>2. QED
    BY <2>1, TakeBlocksKeeps, DoBlocksKeeps, PopRunKeeps, PlainStepKeeps
<1>2. ASSUME NEW c \in Callers, API(c) PROVE BlockInv'
  BY <1>2, CallKeepsBlocks
<1>3. ASSUME NEW r \in RunArgs, CFRunLoopRunSpecific(r[1], r[2], r[3]) PROVE BlockInv'
  <2>1. r[1] \in Modes
    BY RunLoopAssumption
  <2>2. QED
    BY <1>3, <2>1, RunSpecificKeeps
<1>4. ASSUME NEW i \in DOMAIN runs, Timeout(i) PROVE BlockInv'
  <2> DEFINE f == [runs[i] EXCEPT !.term = 0, !.owes = TRUE]
  <2>1. RunOK(runs[i])
    BY LenProperties DEF BlockInv, RunsOK, IsSeq, Depth
  <2>2. RunOK(f) /\ f.list = runs[i].list /\ f.kept = runs[i].kept /\ f.pc = runs[i].pc
    BY <2>1 DEF RunOK, RunFields
  <2>3. runs' = [runs EXCEPT ![i] = f] /\ UNCHANGED <<blocks, issued, ran>>
    BY <1>4 DEF Timeout, history
  <2> HIDE DEF f
  <2>4. QED
    BY <2>2, <2>3, OneRunKeeps
<1>5. ASSUME NEW i \in DOMAIN runs, TimeoutWakes(i) PROVE BlockInv'
  <2> DEFINE f == [runs[i] EXCEPT !.owes = FALSE]
  <2>1. RunOK(runs[i])
    BY LenProperties DEF BlockInv, RunsOK, IsSeq, Depth
  <2>2. RunOK(f) /\ f.list = runs[i].list /\ f.kept = runs[i].kept /\ f.pc = runs[i].pc
    BY <2>1 DEF RunOK, RunFields
  <2>3. runs' = [runs EXCEPT ![i] = f] /\ UNCHANGED <<blocks, issued, ran>>
    BY <1>5 DEF TimeoutWakes, history
  <2> HIDE DEF f
  <2>4. QED
    BY <2>2, <2>3, OneRunKeeps
<1>6. CASE Tick \/ (\E m \in Modes : KernelTimer(m)) \/ (\E p \in Ports \cup {"main"} : Arrives(p))
  <2>1. UNCHANGED <<runs, blocks, issued, ran>>
    BY <1>6 DEF Tick, KernelTimer, Arrives, history
  <2>2. QED
    BY <2>1, SameRunsKeep
<1>7. CASE UNCHANGED vars
  BY <1>7, SameRunsKeep DEF vars
<1>8. QED
  BY <1>1, <1>2, <1>3, <1>4, <1>5, <1>6, <1>7 DEF Next

\* No block is lost, run twice or moved ahead of an older one, for any number of
\* modes, callers and nested runs, at whatever callouts the loop is run again.
THEOREM BlocksNeverLost == Spec => []BlocksKept
<1>1. Init => BlockInv /\ MsgsOK
  BY InitBlockInv DEF Init, MsgsOK
<1>2. BlockInv /\ MsgsOK /\ [Next]_vars => (BlockInv /\ MsgsOK)'
  BY NextBlockInv, NextMsgsOK
<1>3. BlockInv => BlocksKept
  BY DEF BlockInv
<1>4. QED
  BY <1>1, <1>2, <1>3, PTL DEF Spec

-----------------------------------------------------------------------------
(* The modes *)

ModeFields == {"sources", "timers", "stopped", "soft", "armed", "port"}

ModeOK(md) == DOMAIN md = ModeFields

Domains == /\ DOMAIN mode = Modes /\ \A m \in Modes : ModeOK(mode[m])
           /\ DOMAIN call = Callers

\* md after a step that added no source and did not stop it
Shrinks(md, old) ==
    /\ ModeOK(md) /\ md.sources \subseteq old.sources
    /\ md.stopped => old.stopped

LEMMA ArmNextShrinks ==
    ASSUME NEW md, NEW fire, NEW busy, ModeOK(md)
    PROVE  Shrinks(ArmNext(md, fire, busy), md)
<1> DEFINE q == SelectSeq(md.timers, LAMBDA t : t \notin busy)
           seen == {n \in DOMAIN q : \A i \in 1 .. n - 1 : fire[q[i + 1]] <= fire[q[i]]}
           next == IF q = <<>> THEN Never ELSE fire[q[Max(seen)]]
           arm == IF next # Never /\ next = md.soft THEN md.armed ELSE next
<1>1. ArmNext(md, fire, busy) = [md EXCEPT !.soft = next, !.armed = arm]
  BY DEF ArmNext
<1> HIDE DEF next, arm
<1>2. QED
  BY <1>1 DEF Shrinks, ModeOK, ModeFields

\* The array of timers changes, nothing else
LEMMA TimersShrinks ==
    ASSUME NEW md, NEW fire, NEW busy, NEW seq, ModeOK(md)
    PROVE  Shrinks(ArmNext([md EXCEPT !.timers = seq], fire, busy), md)
<1> DEFINE r == [md EXCEPT !.timers = seq]
<1>1. ModeOK(r) /\ r.sources = md.sources /\ (r.stopped <=> md.stopped)
  BY DEF ModeOK, ModeFields
<1> HIDE DEF r
<1>2. Shrinks(ArmNext(r, fire, busy), r)
  BY <1>1, ArmNextShrinks
<1>3. Shrinks(ArmNext(r, fire, busy), md)
  BY <1>1, <1>2 DEF Shrinks
<1>4. QED
  BY <1>3 DEF r

LEMMA SameShrinks ==
    ASSUME NEW md, ModeOK(md)
    PROVE  Shrinks(md, md)
  BY DEF Shrinks

LEMMA RepositionShrinks ==
    ASSUME NEW md, NEW t, NEW fire, NEW busy, ModeOK(md)
    PROVE  Shrinks(Reposition(md, t, fire, busy), md)
<1> DEFINE seq == Insert(Remove(md.timers, t), t, fire)
<1>1. \/ Reposition(md, t, fire, busy) = md
      \/ Reposition(md, t, fire, busy) = ArmNext([md EXCEPT !.timers = seq], fire, busy)
  BY DEF Reposition
<1> HIDE DEF seq
<1>2. QED
  BY <1>1, TimersShrinks, SameShrinks

LEMMA WithoutShrinks ==
    ASSUME NEW md, NEW t, NEW fire, NEW busy, ModeOK(md)
    PROVE  Shrinks(Without(md, t, fire, busy), md)
<1> DEFINE seq == Remove(md.timers, t)
<1>1. \/ Without(md, t, fire, busy) = md
      \/ Without(md, t, fire, busy) = ArmNext([md EXCEPT !.timers = seq], fire, busy)
  BY DEF Without
<1> HIDE DEF seq
<1>2. QED
  BY <1>1, TimersShrinks, SameShrinks

LEMMA RemoveFromShrinks ==
    ASSUME NEW md, NEW x, NEW busy, ModeOK(md)
    PROVE  Shrinks(RemoveFrom(md, x, busy), md)
<1>1. CASE x \in Timers
  BY <1>1, WithoutShrinks DEF RemoveFrom
<1>2. CASE x \notin Timers
  <2>1. RemoveFrom(md, x, busy) = [md EXCEPT !.sources = @ \ {x}]
    BY <1>2 DEF RemoveFrom
  <2>2. QED
    BY <2>1 DEF Shrinks, ModeOK, ModeFields
<1>3. QED
  BY <1>1, <1>2

\* One mode is changed, or all of them
AllShrink == DOMAIN mode' = Modes /\ \A m \in Modes : Shrinks(mode'[m], mode[m])

LEMMA OneShrinks ==
    ASSUME Domains, NEW m, NEW md, m \in Modes => Shrinks(md, mode[m]),
           mode' = [mode EXCEPT ![m] = md]
    PROVE  AllShrink
  BY SameShrinks DEF Domains, AllShrink

LEMMA NoneShrinks == Domains /\ UNCHANGED mode => AllShrink
  BY SameShrinks DEF Domains, AllShrink

\* No step of the loop's thread adds a source or stops a mode
LEMMA LoopShrinks == Domains /\ Loop => AllShrink
<1> SUFFICES ASSUME Domains, Loop PROVE AllShrink
  OBVIOUS
<1>1. CASE EnterLoop \/ Decide
  <2>1. PICK v : mode' = [mode EXCEPT ![Top.mode].stopped = @ /\ v]
    BY <1>1 DEF EnterLoop, Decide
  <2> DEFINE md == [mode[Top.mode] EXCEPT !.stopped = @ /\ v]
  <2>2. mode' = [mode EXCEPT ![Top.mode] = md]
    BY <2>1
  <2>3. Top.mode \in Modes => Shrinks(md, mode[Top.mode])
    BY DEF Shrinks, Domains, ModeOK, ModeFields
  <2> HIDE DEF md
  <2>4. QED
    BY <2>2, <2>3, OneShrinks
<1>2. CASE Receive
  <2>1. UNCHANGED mode \/ mode' = [mode EXCEPT ![Top.mode].port = FALSE]
    BY <1>2 DEF Receive
  <2>2. CASE mode' = [mode EXCEPT ![Top.mode].port = FALSE]
    <3> DEFINE md == [mode[Top.mode] EXCEPT !.port = FALSE]
    <3>1. mode' = [mode EXCEPT ![Top.mode] = md]
      BY <2>2
    <3>2. Top.mode \in Modes => Shrinks(md, mode[Top.mode])
      BY DEF Shrinks, Domains, ModeOK, ModeFields
    <3> HIDE DEF md
    <3>3. QED
      BY <3>1, <3>2, OneShrinks
  <2>3. QED
    BY <2>1, <2>2, NoneShrinks
<1>3. CASE DoTimer
  <2> DEFINE md == mode[Top.mode]
             soft == [md EXCEPT !.soft = Never]
  <2>1. \/ UNCHANGED mode
        \/ mode' = [mode EXCEPT ![Top.mode] = md]
        \/ mode' = [mode EXCEPT ![Top.mode] = ArmNext(md, fireTSR, firing)]
        \/ mode' = [mode EXCEPT ![Top.mode] = ArmNext(soft, fireTSR, firing')]
    BY <1>3 DEF DoTimer
  <2>2. Top.mode \in Modes => Shrinks(ArmNext(md, fireTSR, firing), md) /\ Shrinks(md, md)
    BY ArmNextShrinks, SameShrinks DEF Domains
  <2>3. Top.mode \in Modes => Shrinks(ArmNext(soft, fireTSR, firing'), md)
    <3>1. Top.mode \in Modes => ModeOK(soft) /\ soft.sources = md.sources /\ (soft.stopped <=> md.stopped)
      BY DEF Domains, ModeOK, ModeFields
    <3> HIDE DEF soft
    <3>2. Top.mode \in Modes => Shrinks(ArmNext(soft, fireTSR, firing'), soft)
      BY <3>1, ArmNextShrinks
    <3>3. QED
      BY <3>1, <3>2 DEF Shrinks
  <2> HIDE DEF soft
  <2>4. QED
    BY <2>1, <2>2, <2>3, OneShrinks, NoneShrinks
<1>4. CASE RemoveFired
  BY <1>4, WithoutShrinks DEF RemoveFired, AllShrink, Domains
<1>5. CASE EndTimer
  <2>1. \/ UNCHANGED mode
        \/ mode' = [mode EXCEPT ![Top.mode] = ArmNext(mode[Top.mode], fireTSR, firing')]
        \/ mode' = [m \in Modes |-> Reposition(mode[m], Top.cur, fireTSR', firing')]
    BY <1>5 DEF EndTimer
  <2>2. CASE mode' = [mode EXCEPT ![Top.mode] = ArmNext(mode[Top.mode], fireTSR, firing')]
    <3>1. Top.mode \in Modes => Shrinks(ArmNext(mode[Top.mode], fireTSR, firing'), mode[Top.mode])
      BY ArmNextShrinks DEF Domains
    <3>2. QED
      BY <2>2, <3>1, OneShrinks
  <2>3. CASE mode' = [m \in Modes |-> Reposition(mode[m], Top.cur, fireTSR', firing')]
    BY <2>3, RepositionShrinks DEF AllShrink, Domains
  <2>4. QED
    BY <2>1, <2>2, <2>3, NoneShrinks
<1>6. CASE \/ DoObservers \/ TakeBlocks \/ DoBlocks \/ CollectSources0 \/ DoSources0
           \/ PollDispatch \/ Relock \/ HandleMsg \/ DoSource1 \/ Return \/ InvalidateFired \/ PopRun
  <2>1. UNCHANGED mode
    BY <1>6 DEF DoObservers, TakeBlocks, DoBlocks, CollectSources0, DoSources0, PollDispatch,
                Relock, HandleMsg, DoSource1, Return, InvalidateFired, PopRun
  <2>2. QED
    BY <2>1, NoneShrinks
<1>7. QED
  BY <1>1, <1>2, <1>3, <1>4, <1>5, <1>6 DEF Loop

LEMMA CallerDomain == Domains /\ [Next]_vars => DOMAIN call' = Callers
<1> SUFFICES ASSUME Domains, [Next]_vars PROVE DOMAIN call' = Callers
  OBVIOUS
<1>1. CASE Loop
  BY <1>1 DEF Domains, Loop, DoObservers, EnterLoop, TakeBlocks, DoBlocks, CollectSources0,
              DoSources0, PollDispatch, Receive, Relock, HandleMsg, DoSource1, DoTimer, Return,
              InvalidateFired, RemoveFired, EndTimer, Decide, PopRun, rest
<1>2. ASSUME NEW c \in Callers, API(c) PROVE DOMAIN call' = Callers
  <2>1. \E r : call' = [call EXCEPT ![c] = r]
    BY <1>2 DEF API, CFRunLoopWakeUp, CFRunLoopStop, AddInserts, InvalidateRemoves,
                SetDateRepositions, CFRunLoopSourceSignal, CFRunLoopStopMode,
                CFRunLoopPerformBlock, Invalidate, RemoveItem, AddChecks, SetNextFireDate,
                Begin, Continue
  <2>2. QED
    BY <2>1 DEF Domains
<1>3. ASSUME NEW m, NEW once, NEW seconds, CFRunLoopRunSpecific(m, once, seconds)
      PROVE  DOMAIN call' = Callers
  BY <1>3 DEF Domains, CFRunLoopRunSpecific, rest
<1>4. ASSUME NEW i \in DOMAIN runs, Timeout(i) \/ TimeoutWakes(i) PROVE DOMAIN call' = Callers
  BY <1>4 DEF Domains, Timeout, TimeoutWakes, rest
<1>5. CASE Tick \/ (\E m \in Modes : KernelTimer(m)) \/ (\E p \in Ports \cup {"main"} : Arrives(p))
  BY <1>5 DEF Domains, Tick, KernelTimer, Arrives, rest
<1>6. CASE UNCHANGED vars
  BY <1>6 DEF Domains, vars
<1>7. QED
  BY <1>1, <1>2, <1>3, <1>4, <1>5, <1>6 DEF Next

\* The calls that bring the loop nothing to do
AddsNothing(c) ==
    \/ InvalidateRemoves(c)
    \/ \E x \in Sources \cup Ports \cup Timers :
          Invalidate(c, x) \/ \E m \in Modes : RemoveItem(c, x, m)
    \/ \E a \in Adds : AddChecks(c, a[1], a[2])
    \/ \E t \in Timers, date \in 1 .. MaxNow : SetNextFireDate(c, t, date)

LEMMA RemovalShrinks ==
    ASSUME Domains, NEW c \in Callers, AddsNothing(c)
    PROVE  AllShrink
<1>1. CASE InvalidateRemoves(c)
  BY <1>1, RemoveFromShrinks, SameShrinks DEF InvalidateRemoves, AllShrink, Domains
<1>2. ASSUME NEW x \in Sources \cup Ports \cup Timers, NEW m \in Modes, RemoveItem(c, x, m)
      PROVE  AllShrink
  <2>1. mode' = [mode EXCEPT ![m] = RemoveFrom(mode[m], x, firing)]
    BY <1>2 DEF RemoveItem
  <2>2. Shrinks(RemoveFrom(mode[m], x, firing), mode[m])
    BY RemoveFromShrinks DEF Domains
  <2>3. QED
    BY <2>1, <2>2, OneShrinks
<1>3. CASE UNCHANGED mode
  BY <1>3, NoneShrinks
<1>4. QED
  BY <1>1, <1>2, <1>3 DEF AddsNothing, Invalidate, AddChecks, SetNextFireDate

\* CFRunLoopAddTimer
LEMMA AddTimerShrinks ==
    ASSUME Domains, NEW c \in Callers, AddInserts(c), call[c][2] \in Timers
    PROVE  AllShrink
<1> DEFINE x == call[c][2]
           m == call[c][3]
           seq == Insert(mode[m].timers, x, fireTSR)
           md == ArmNext([mode[m] EXCEPT !.timers = seq], fireTSR, firing)
<1>1. mode' = [mode EXCEPT ![m] = mode[m]] \/ mode' = [mode EXCEPT ![m] = md]
  BY DEF AddInserts
<1>2. m \in Modes => Shrinks(mode[m], mode[m]) /\ Shrinks(md, mode[m])
  <2> HIDE DEF seq
  <2>1. QED
    BY SameShrinks, TimersShrinks DEF Domains
<1> HIDE DEF md, m
<1>3. QED
  BY <1>1, <1>2, OneShrinks

LEMMA NextDomains == Domains /\ [Next]_vars => Domains'
<1> SUFFICES ASSUME Domains, [Next]_vars PROVE Domains'
  OBVIOUS
<1>1. DOMAIN call' = Callers
  BY CallerDomain
<1> SUFFICES AllShrink \/ (DOMAIN mode' = Modes /\ \A m \in Modes : ModeOK(mode'[m]))
  BY <1>1 DEF AllShrink, Shrinks, Domains
<1>2. CASE Loop
  BY <1>2, LoopShrinks
<1>3. ASSUME NEW c \in Callers, API(c)
      PROVE  AllShrink \/ (DOMAIN mode' = Modes /\ \A m \in Modes : ModeOK(mode'[m]))
  <2>1. CASE AddsNothing(c)
    BY <2>1, RemovalShrinks
  <2>2. CASE AddInserts(c)
    <3>1. CASE call[c][2] \in Timers
      BY <2>2, <3>1, AddTimerShrinks
    <3>2. CASE call[c][2] \notin Timers
      <4> DEFINE m == call[c][3]
                 md == [mode[m] EXCEPT !.sources = @ \cup {call[c][2]}]
      <4>1. mode' = [mode EXCEPT ![m] = md]
        BY <2>2, <3>2 DEF AddInserts
      <4>2. m \in Modes => ModeOK(md)
        BY DEF Domains, ModeOK
      <4> HIDE DEF m, md
      <4>3. QED
        BY <4>1, <4>2 DEF Domains
    <3>3. QED
      BY <3>1, <3>2
  <2>3. ASSUME NEW m \in Modes, CFRunLoopStopMode(c, m)
        PROVE  DOMAIN mode' = Modes /\ \A k \in Modes : ModeOK(mode'[k])
    BY <2>3 DEF CFRunLoopStopMode, Domains, ModeOK, ModeFields
  <2>4. CASE SetDateRepositions(c)
    BY <2>4, RepositionShrinks, SameShrinks DEF SetDateRepositions, AllShrink, Domains
  <2>5. CASE UNCHANGED mode
    BY <2>5, NoneShrinks
  <2>6. QED
    BY <1>3, <2>1, <2>2, <2>3, <2>4, <2>5
       DEF API, AddsNothing, CFRunLoopWakeUp, CFRunLoopStop, CFRunLoopSourceSignal,
           CFRunLoopPerformBlock
<1>4. ASSUME NEW m \in Modes, KernelTimer(m)
      PROVE  DOMAIN mode' = Modes /\ \A k \in Modes : ModeOK(mode'[k])
  BY <1>4 DEF KernelTimer, Domains, ModeOK, ModeFields
<1>5. CASE UNCHANGED mode
  BY <1>5, NoneShrinks
<1>6. QED
  BY <1>2, <1>3, <1>4, <1>5
     DEF Next, CFRunLoopRunSpecific, Tick, Arrives, Timeout, TimeoutWakes, vars

-----------------------------------------------------------------------------
(* On the way to sleep *)

\* A nested run would receive the wake-up that was meant for the activation
\* that is on its way to sleep.
NestsAwake == NestAt \cap {"block", "beforeTimers", "beforeSources", "beforeWaiting"} = {}

HasBlock(w, m) == \E k \in DOMAIN w : m \in w[k].modes
Soon == wakeUpPort \/ WakeUpComing

\* On its way to sleep, with nothing done in this round
Quiet(f) ==
    \/ /\ f.pc \in {"beforeTimers", "beforeSources", "blocks1", "sources0", "doSources", "poll"}
       /\ ~f.handled
    \/ f.pc \in {"doBlocks", "block"} /\ f.back = "blocks1" /\ ~f.handled
    \/ f.pc \in {"beforeWaiting", "sleep"} /\ ~f.poll

\* What holds of each activation by itself
Local(f) ==
    /\ f.pc \in {"source", "blocks2"} => f.handled
    /\ InBlocks(f) => f.back \in {"blocks1", "blocks2", "blocks3"}
    /\ InBlocks(f) /\ f.back = "blocks2" => f.handled
    /\ ~HasBlock(f.kept, f.mode)

Callouts == {"block", "source", "source1", "timer", "main"} \cup Activities

\* What the activation has passed in this round has come up again only with a
\* wake-up, and that one is not ignored
Idle(f) ==
    /\ ~f.ignore
    /\ f.stopped \/ mode[f.mode].stopped => Soon
    /\ /\ f.pc \in {"doBlocks", "block", "sources0", "doSources", "poll", "beforeWaiting", "sleep"}
       /\ HasBlock(blocks, f.mode)
       => Soon
    /\ f.pc = "doSources" => (IsSeq(f.pend) /\ Found(f.mode) \subseteq Range(f.pend)) \/ Soon
    /\ f.pc \in {"poll", "beforeWaiting", "sleep"} /\ Found(f.mode) # {} => Soon
    /\ f.pc \in {"beforeWaiting", "sleep"} /\ f.term = 0 => Soon

Locals == \A i \in 1 .. Depth : Local(runs[i])
Nested == \A i \in 1 .. Depth : i # Depth => runs[i].pc \in NestAt /\ runs[i].pc \in Callouts
IdleInv == Locals /\ Nested /\ (Depth > 0 /\ Quiet(Top) => Idle(Top))

\* A step of the innermost activation
LEMMA TopIdle ==
    ASSUME RunsOK, IdleInv, Depth > 0, NEW f, RunOK(f), Set(f), Local(f), Quiet(f) => Idle(f)'
    PROVE  IdleInv'
<1>1. /\ RunsOK' /\ Depth' = Depth /\ runs'[Depth] = f /\ Top' = f
      /\ \A j \in 1 .. Depth : j # Depth => runs'[j] = runs[j]
  BY SetTop
<1>2. Locals'
  BY <1>1 DEF Locals, IdleInv
<1>3. Nested'
  BY <1>1 DEF Nested, IdleInv
<1>4. QED
  BY <1>1, <1>2, <1>3 DEF IdleInv

\* A step of the others changes of the activations only these parts
Others(f, g) ==
    /\ g.mode = f.mode /\ g.pc = f.pc /\ g.back = f.back /\ (g.handled <=> f.handled)
    /\ (g.poll <=> f.poll) /\ (g.ignore <=> f.ignore) /\ g.kept = f.kept /\ g.pend = f.pend

LEMMA OthersLocal ==
    ASSUME NEW f, NEW g, Others(f, g)
    PROVE  (Local(f) <=> Local(g)) /\ (Quiet(f) <=> Quiet(g))
  BY DEF Others, Local, Quiet, InBlocks

\* and either is followed by a wake-up or brings nothing new
Calm(f, g) ==
    /\ AllShrink /\ (HasBlock(blocks', f.mode) => HasBlock(blocks, f.mode))
    /\ Found(f.mode)' \subseteq Found(f.mode)
    /\ (g.stopped => f.stopped) /\ (g.term = 0 => f.term = 0) /\ (Soon => Soon')

LEMMA OthersIdle ==
    ASSUME RunsOK, RunsOK', IdleInv, Depth' = Depth, \A i \in 1 .. Depth : Others(runs[i], runs'[i]),
           NEW f, f = Top, NEW g, g = Top',
           Depth > 0 /\ ~f.ignore => Soon' \/ Calm(f, g)
    PROVE  IdleInv'
<1>1. Locals'
  BY OthersLocal DEF IdleInv, Locals
<1>2. Nested'
  BY DEF IdleInv, Nested, Others
<1>3. ASSUME Depth' > 0, Quiet(Top)' PROVE Idle(Top)'
  <2>1. Depth \in 1 .. Depth /\ Depth > 0 /\ RunOK(f)
    BY <1>3, TopOK
  <2>2. Others(f, g)
    BY <2>1 DEF Top
  <2>3. Quiet(f)
    BY <1>3, <2>2, OthersLocal
  <2>4. Idle(f)
    BY <2>1, <2>3 DEF IdleInv
  <2>5. Soon' \/ Calm(f, g)
    BY <2>1, <2>4 DEF Idle
  <2>6. CASE Soon'
    BY <2>2, <2>4, <2>6 DEF Idle, Others
  <2>7. CASE Calm(f, g)
    <3>1. mode[f.mode]'.stopped => mode[f.mode].stopped
      BY <2>1, <2>7 DEF Calm, AllShrink, Shrinks, RunOK
    <3>2. QED
      BY <2>2, <2>4, <2>7, <3>1 DEF Idle, Others, Calm
  <2>8. QED
    BY <2>5, <2>6, <2>7
<1>4. QED
  BY <1>1, <1>2, <1>3 DEF IdleInv

LEMMA FoundShrinks ==
    ASSUME AllShrink, signaled' \subseteq signaled, valid' \subseteq valid, NEW m \in Modes
    PROVE  Found(m)' \subseteq Found(m)
  BY DEF AllShrink, Shrinks, Found

LEMMA WakeFollows ==
    ASSUME Domains, NEW c \in Callers, call' = [call EXCEPT ![c] = <<"wake">>]
    PROVE  Soon'
<1>1. call'[c] = <<"wake">>
  BY DEF Domains
<1>2. QED
  BY <1>1 DEF Soon, WakeUpComing

LEMMA OtherCall ==
    ASSUME Domains, NEW c \in Callers, NEW r, call' = [call EXCEPT ![c] = r], call[c] # <<"wake">>,
           UNCHANGED <<runs, wakeUpPort>>
    PROVE  Soon => Soon'
<1>1. \A b \in Callers : call[b] = <<"wake">> => call'[b] = <<"wake">>
  BY DEF Domains
<1>2. QED
  BY <1>1 DEF Soon, WakeUpComing

\* A step of another thread that leaves the activations alone
LEMMA SameRunsIdle ==
    ASSUME BlockInv, IdleInv, UNCHANGED runs,
           Depth > 0 /\ ~Top.ignore =>
             \/ Soon'
             \/ /\ AllShrink /\ UNCHANGED blocks /\ signaled' \subseteq signaled
                /\ valid' \subseteq valid /\ (Soon => Soon')
    PROVE  IdleInv'
<1>1. PICK f : f = Top
  OBVIOUS
<1>2. f = Top' /\ RunsOK /\ RunsOK' /\ Depth' = Depth
  BY <1>1 DEF Top, Depth, BlockInv, RunsOK
<1>3. \A i \in 1 .. Depth : Others(runs[i], runs'[i])
  BY DEF Others
<1>4. Depth > 0 /\ ~f.ignore => Soon' \/ Calm(f, f)
  <2> SUFFICES ASSUME Depth > 0, ~f.ignore, ~Soon' PROVE Calm(f, f)
    OBVIOUS
  <2>1. /\ AllShrink /\ UNCHANGED blocks /\ signaled' \subseteq signaled
        /\ valid' \subseteq valid /\ (Soon => Soon')
    BY <1>1
  <2>2. f.mode \in Modes
    BY <1>1, <1>2, TopOK DEF RunOK
  <2>3. Found(f.mode)' \subseteq Found(f.mode)
    BY <2>1, <2>2, FoundShrinks
  <2>4. QED
    BY <2>1, <2>3 DEF Calm
<1>5. QED
  BY <1>1, <1>2, <1>3, <1>4, OthersIdle

LEMMA CallKeepsIdle ==
    ASSUME BlockInv, Domains, IdleInv, NEW c \in Callers, API(c)
    PROVE  IdleInv'
<1>1. CASE CFRunLoopWakeUp(c)
  <2>1. UNCHANGED <<runs, mode, blocks, signaled, valid>> /\ Wakes
    BY <1>1 DEF CFRunLoopWakeUp, items
  <2>2. Depth > 0 /\ ~Top.ignore => Soon'
    BY <2>1 DEF Wakes, Soon
  <2>3. QED
    BY <2>1, <2>2, SameRunsIdle
<1>2. CASE CFRunLoopStop(c)
  <2>1. Depth > 0 /\ Set([Top EXCEPT !.stopped = TRUE]) /\ call' = [call EXCEPT ![c] = <<"wake">>]
    BY <1>2 DEF CFRunLoopStop, Begin
  <2>2. PICK f : f = Top
    OBVIOUS
  <2>3. PICK g : g = [Top EXCEPT !.stopped = TRUE]
    OBVIOUS
  <2>4. RunsOK /\ RunOK(f) /\ Depth \in 1 .. Depth
    BY <2>1, <2>2, TopOK DEF BlockInv
  <2>5. RunOK(g) /\ Others(f, g)
    BY <2>2, <2>3, <2>4 DEF RunOK, RunFields, Others
  <2>6. /\ RunsOK' /\ Depth' = Depth /\ runs'[Depth] = g /\ Top' = g
        /\ \A j \in 1 .. Depth : j # Depth => runs'[j] = runs[j]
    BY <2>1, <2>3, <2>4, <2>5, SetTop
  <2>7. \A i \in 1 .. Depth : Others(runs[i], runs'[i])
    BY <2>2, <2>5, <2>6 DEF Others, Top
  <2>8. Soon'
    BY <2>1, WakeFollows
  <2>9. QED
    BY <2>2, <2>4, <2>6, <2>7, <2>8, OthersIdle
<1>3. CASE \/ \E m \in Modes : CFRunLoopStopMode(c, m)
           \/ \E s \in Sources : CFRunLoopSourceSignal(c, s)
           \/ \E ms \in SUBSET Modes \ {{}} : CFRunLoopPerformBlock(c, ms)
           \/ SetDateRepositions(c)
  <2>1. UNCHANGED runs /\ call' = [call EXCEPT ![c] = <<"wake">>]
    BY <1>3 DEF CFRunLoopStopMode, CFRunLoopSourceSignal, CFRunLoopPerformBlock,
                SetDateRepositions, Begin, Continue
  <2>2. Soon'
    BY <2>1, WakeFollows
  <2>3. QED
    BY <2>1, <2>2, SameRunsIdle
<1>4. CASE AddInserts(c)
  <2>1. CASE call[c][2] \notin Timers
    <3>1. UNCHANGED runs /\ call' = [call EXCEPT ![c] = <<"wake">>]
      BY <1>4, <2>1 DEF AddInserts, Continue
    <3>2. Soon'
      BY <3>1, WakeFollows
    <3>3. QED
      BY <3>1, <3>2, SameRunsIdle
  <2>2. CASE call[c][2] \in Timers
    <3>1. /\ call' = [call EXCEPT ![c] = <<"none">>] /\ call[c][1] = "add"
          /\ UNCHANGED <<runs, blocks, wakeUpPort, signaled, valid>>
      BY <1>4, <2>2 DEF AddInserts, Continue, items
    <3>3. AllShrink
      BY <1>4, <2>2, AddTimerShrinks
    <3>4. call[c] # <<"wake">>
      BY <3>1
    <3>5. Soon => Soon'
      BY <3>1, <3>4, OtherCall
    <3>6. QED
      BY <3>1, <3>3, <3>5, SameRunsIdle
  <2>3. QED
    BY <2>1, <2>2
<1>5. CASE AddsNothing(c)
  <2>1. /\ UNCHANGED <<runs, blocks, wakeUpPort>> /\ signaled' \subseteq signaled /\ valid' \subseteq valid
    BY <1>5 DEF AddsNothing, InvalidateRemoves, Invalidate, RemoveItem, AddChecks, SetNextFireDate, items
  <2>2. call[c] # <<"wake">>
    <3>1. call[c] = <<"none">> \/ call[c][1] = "drop"
      BY <1>5 DEF AddsNothing, InvalidateRemoves, Invalidate, RemoveItem, AddChecks, SetNextFireDate, Begin
    <3>2. QED
      BY <3>1
  <2>3. Soon => Soon'
    <3>1. \E r : call' = [call EXCEPT ![c] = r]
      BY <1>5 DEF AddsNothing, InvalidateRemoves, Invalidate, RemoveItem, AddChecks, SetNextFireDate,
                  Begin, Continue
    <3>2. QED
      BY <2>1, <2>2, <3>1, OtherCall
  <2>4. AllShrink
    BY <1>5, RemovalShrinks
  <2>5. QED
    BY <2>1, <2>3, <2>4, SameRunsIdle
<1>6. QED
  BY <1>1, <1>2, <1>3, <1>4, <1>5 DEF API, AddsNothing

\* Timeouts change one activation, any of them
LEMMA TimeoutKeepsIdle ==
    ASSUME BlockInv, Domains, IdleInv, NEW i \in DOMAIN runs, Timeout(i) \/ TimeoutWakes(i)
    PROVE  IdleInv'
<1>1. i \in 1 .. Depth /\ RunOK(runs[i]) /\ RunsOK /\ DOMAIN runs = 1 .. Depth
  BY LenProperties DEF BlockInv, RunsOK, IsSeq, Depth
<1>2. PICK g : /\ runs' = [runs EXCEPT ![i] = g]
               /\ \/ g = [runs[i] EXCEPT !.term = 0, !.owes = TRUE] /\ UNCHANGED <<wakeUpPort, call>>
                  \/ g = [runs[i] EXCEPT !.owes = FALSE] /\ Wakes
  BY DEF Timeout, TimeoutWakes, ports, rest
<1>3. RunOK(g) /\ Others(runs[i], g)
  BY <1>1, <1>2 DEF RunOK, RunFields, Others
<1>4. RunsOK' /\ Depth' = Depth /\ runs'[i] = g /\ \A j \in 1 .. Depth : j # i => runs'[j] = runs[j]
  BY <1>1, <1>2, <1>3, SetOne
<1>5. \A j \in 1 .. Depth : Others(runs[j], runs'[j])
  BY <1>3, <1>4 DEF Others
<1>6. PICK f : f = Top
  OBVIOUS
<1>7. PICK h : h = Top'
  OBVIOUS
<1>8. Depth > 0 /\ ~f.ignore => Soon'
  <2>1. CASE g = [runs[i] EXCEPT !.term = 0, !.owes = TRUE]
    <3>1. i \in DOMAIN runs' /\ runs'[i].owes
      BY <1>1, <1>2, <1>4, <2>1 DEF RunOK, RunFields
    <3>2. QED
      BY <3>1 DEF Soon, WakeUpComing
  <2>2. CASE Wakes
    BY <1>6, <2>2 DEF Wakes, Soon
  <2>3. QED
    BY <1>2, <2>1, <2>2
<1>9. QED
  BY <1>1, <1>4, <1>5, <1>6, <1>7, <1>8, OthersIdle

\* Clock, kernel and other threads bring the innermost activation no work of
\* these kinds
LEMMA EnvironmentKeepsIdle ==
    ASSUME BlockInv, Domains, IdleInv,
           \/ Tick \/ (\E m \in Modes : KernelTimer(m))
           \/ (\E p \in Ports \cup {"main"} : Arrives(p)) \/ UNCHANGED vars
    PROVE  IdleInv'
<1>1. UNCHANGED <<runs, blocks, signaled, valid, wakeUpPort, call>>
  BY DEF Tick, KernelTimer, Arrives, ports, rest, vars
<1>2. AllShrink
  <2>1. ASSUME NEW m \in Modes, KernelTimer(m) PROVE AllShrink
    <3> DEFINE md == [mode[m] EXCEPT !.armed = Never, !.port = TRUE]
    <3>1. mode' = [mode EXCEPT ![m] = md]
      BY <2>1 DEF KernelTimer, Domains
    <3>2. Shrinks(md, mode[m])
      BY DEF Shrinks, Domains, ModeOK, ModeFields
    <3> HIDE DEF md
    <3>3. QED
      BY <3>1, <3>2, OneShrinks
  <2>2. CASE UNCHANGED mode
    BY <2>2, NoneShrinks
  <2>3. QED
    BY <2>1, <2>2 DEF Tick, Arrives, vars
<1>3. Soon => Soon'
  BY <1>1 DEF Soon, WakeUpComing
<1>4. QED
  BY <1>1, <1>2, <1>3, SameRunsIdle

\* A callout runs the loop again, or that run returns to the callout
LEMMA RunSpecificKeepsIdle ==
    ASSUME BlockInv, IdleInv, NEW m, NEW once, NEW seconds, CFRunLoopRunSpecific(m, once, seconds)
    PROVE  IdleInv'
<1>1. PICK g : g = NewRun(m, once, seconds)
  OBVIOUS
<1>2. PICK d \in Nat : d = Depth
  BY DepthIsNat DEF BlockInv
<1>3. Extended(runs, runs', g)
  BY <1>1, AddOne DEF CFRunLoopRunSpecific, BlockInv, RunsOK
<1>4. Depth' = d + 1 /\ runs'[d + 1] = g /\ \A j \in 1 .. d : runs'[j] = runs[j]
  BY <1>2, <1>3 DEF Extended, Depth
<1>5. Local(g) /\ ~Quiet(g)
  BY <1>1 DEF NewRun, Local, Quiet, InBlocks, HasBlock
<1>6. Locals'
  BY <1>2, <1>4, <1>5 DEF IdleInv, Locals
<1>7. d > 0 => runs[d].pc \in NestAt /\ runs[d].pc \in Callouts
  BY <1>2 DEF CFRunLoopRunSpecific, Callout, Callouts, At, Top
<1>8. Nested'
  <2> SUFFICES ASSUME NEW i \in 1 .. d + 1, i # d + 1 PROVE runs'[i].pc \in NestAt /\ runs'[i].pc \in Callouts
    BY <1>4 DEF Nested
  <2>1. i \in 1 .. d /\ runs'[i] = runs[i]
    BY <1>4
  <2>2. CASE i = d
    BY <1>7, <2>1, <2>2
  <2>3. CASE i # d
    BY <1>2, <2>1, <2>3 DEF IdleInv, Nested
  <2>4. QED
    BY <2>2, <2>3
<1>9. Top' = g
  BY <1>4 DEF Top
<1>10. QED
  BY <1>5, <1>6, <1>8, <1>9 DEF IdleInv

LEMMA PopRunKeepsIdle ==
    ASSUME NestsAwake, BlockInv, IdleInv, PopRun
    PROVE  IdleInv'
<1>1. PICK d \in Nat : d = Depth
  BY DepthIsNat DEF BlockInv
<1>2. d > 0 /\ d = Len(runs)
  BY <1>1 DEF PopRun, At, Depth
<1>3. Shortened(runs, runs')
  BY <1>2, DropOne DEF PopRun, BlockInv, RunsOK
<1>4. Depth' = d - 1 /\ \A j \in 1 .. d - 1 : runs'[j] = runs[j]
  BY <1>2, <1>3 DEF Shortened, Depth
<1>5. Locals'
  BY <1>1, <1>4 DEF IdleInv, Locals
<1>6. \A j \in 1 .. d - 1 : runs'[j].pc \in NestAt /\ runs'[j].pc \in Callouts
  BY <1>1, <1>4 DEF IdleInv, Nested
<1>7. Nested'
  BY <1>4, <1>6 DEF Nested
<1>8. ASSUME Depth' > 0 PROVE ~Quiet(Top)'
  <2>1. Top'.pc \in NestAt /\ Top'.pc \in Callouts
    BY <1>4, <1>6, <1>8 DEF Top
  <2>2. Top'.pc \notin {"block", "beforeTimers", "beforeSources", "beforeWaiting"}
    BY <2>1 DEF NestsAwake
  <2>3. QED
    BY <2>1, <2>2 DEF Quiet, Callouts, Activities
<1>9. QED
  BY <1>5, <1>7, <1>8 DEF IdleInv

\* Where the activation is not on its way to sleep
Awake == {"begin", "exit", "return", "woken", "afterWaiting", "handle", "timers", "timer", "main",
          "source1", "doSource1", "doneTimer", "dropTimer", "endTimer", "decide", "blocks3"}

LEMMA AwakeKeeps ==
    ASSUME BlockInv, IdleInv, Depth > 0,
           \E f : Set(f) /\ RunOK(f) /\ f.mode = Top.mode /\ f.kept = Top.kept /\ f.pc \in Awake
    PROVE  IdleInv'
<1>1. PICK f : Set(f) /\ RunOK(f) /\ f.mode = Top.mode /\ f.kept = Top.kept /\ f.pc \in Awake
  OBVIOUS
<1>2. RunsOK /\ Local(Top)
  BY TopOK DEF BlockInv, IdleInv, Locals, Top
<1>3. Local(f) /\ ~Quiet(f)
  BY <1>1, <1>2 DEF Local, Quiet, InBlocks, Awake
<1>4. QED
  BY <1>1, <1>2, <1>3, TopIdle

AwakeStep ==
    \/ Receive \/ Relock \/ HandleMsg \/ DoSource1 \/ DoTimer \/ InvalidateFired
    \/ RemoveFired \/ EndTimer

LEMMA AwakeStepKeeps == BlockInv /\ MsgsOK /\ IdleInv /\ AwakeStep => IdleInv'
<1> SUFFICES ASSUME BlockInv, MsgsOK, IdleInv, AwakeStep PROVE IdleInv'
  OBVIOUS
<1>1. Depth > 0
  BY DEF AwakeStep, Receive, Relock, HandleMsg, DoSource1, DoTimer, InvalidateFired,
         RemoveFired, EndTimer, At
<1>2. RunOK(Top)
  BY <1>1, TopOK DEF BlockInv
<1> DEFINE Fits(f) == RunOK(f) /\ f.mode = Top.mode /\ f.kept = Top.kept /\ f.pc \in Awake
<1> SUFFICES \E f : Set(f) /\ Fits(f)
  BY <1>1, AwakeKeeps
<1>3. CASE Receive
  <2>1. PICK v \in {"wakeUp", "timer", "none", "main"} \cup Ports : Set([Top EXCEPT !.live = v, !.pc = "woken"])
    BY <1>3 DEF Receive, MsgsOK
  <2>2. Fits([Top EXCEPT !.live = v, !.pc = "woken"])
    BY <1>2 DEF RunOK, RunFields, Awake
  <2>3. QED
    BY <2>1, <2>2
<1>4. CASE Relock
  <2>1. PICK pc \in Awake : Set([Top EXCEPT !.ignore = TRUE, !.pc = pc])
    BY <1>4 DEF Relock, Awake
  <2>2. Fits([Top EXCEPT !.ignore = TRUE, !.pc = pc])
    BY <1>2 DEF RunOK, RunFields
  <2>3. QED
    BY <2>1, <2>2
<1>5. CASE HandleMsg
  <2> DEFINE f == [Top EXCEPT !.ignore = TRUE]
             g == CASE f.live \in {"none", "wakeUp"} -> [f EXCEPT !.pc = ToBlocks3]
                    [] f.live = "timer" -> [f EXCEPT !.pend = Due(f.mode), !.pc = "timers"]
                    [] f.live = "main" -> [f EXCEPT !.handled = TRUE, !.did = TRUE, !.pc = "main"]
                    [] f.live \in Ports -> [f EXCEPT !.pc = IF f.live \in mode[f.mode].sources
                                                           THEN "doSource1" ELSE ToBlocks3]
  <2>1. Set(g)
    BY <1>5 DEF HandleMsg
  <2>2. RunOK(f) /\ f.mode = Top.mode /\ f.kept = Top.kept /\ ToBlocks3 \in Awake
    BY <1>2 DEF RunOK, RunFields, Awake, ToBlocks3
  <2> HIDE DEF f
  <2>3. Fits(g)
    <3>1. CASE f.live \in {"none", "wakeUp"} /\ f.live \notin Ports
      BY <2>2, <3>1 DEF RunOK, RunFields
    <3>2. CASE f.live = "timer"
      BY <2>2, <3>2 DEF RunOK, RunFields, Awake
    <3>3. CASE f.live = "main" /\ f.live \notin Ports
      BY <2>2, <3>3 DEF RunOK, RunFields, Awake
    <3>4. CASE f.live \in Ports
      BY <2>2, <3>4 DEF RunOK, RunFields, Awake
    <3>5. QED
      BY <2>2, <3>1, <3>2, <3>3, <3>4 DEF RunOK
  <2> HIDE DEF g
  <2>4. QED
    BY <2>1, <2>3
<1>6. CASE DoSource1
  <2>1. \/ Set([Top EXCEPT !.handled = TRUE, !.pc = "source1"])
        \/ Set([Top EXCEPT !.pc = ToBlocks3])
    BY <1>6 DEF DoSource1
  <2>2. Fits([Top EXCEPT !.handled = TRUE, !.pc = "source1"]) /\ Fits([Top EXCEPT !.pc = ToBlocks3])
    BY <1>2 DEF RunOK, RunFields, Awake, ToBlocks3
  <2>3. QED
    BY <2>1, <2>2
<1>7. CASE DoTimer
  <2> DEFINE f == [Top EXCEPT !.fired = FALSE, !.pc = ToBlocks3]
             t == Head(Top.pend)
             g == [Top EXCEPT !.pend = Tail(@), !.cur = t, !.old = fireTSR[t], !.pc = "timer"]
             h == [Top EXCEPT !.pend = Tail(@)]
  <2>1. Set(f) \/ Set(g) \/ Set(h)
    BY <1>7 DEF DoTimer
  <2>2. Fits(f)
    BY <1>2 DEF RunOK, RunFields, Awake, ToBlocks3
  <2>3. Fits(g)
    BY <1>2 DEF RunOK, RunFields, Awake
  <2>4. Fits(h)
    BY <1>2, <1>7 DEF RunOK, RunFields, Awake, DoTimer, At
  <2> HIDE DEF f, g, h
  <2>5. QED
    BY <2>1, <2>2, <2>3, <2>4
<1>8. CASE InvalidateFired \/ RemoveFired
  <2>1. PICK pc \in Awake : Goto(pc)
    BY <1>8 DEF InvalidateFired, RemoveFired, Awake
  <2>2. Fits([Top EXCEPT !.pc = pc])
    BY <1>2 DEF RunOK, RunFields
  <2>3. QED
    BY <2>1, <2>2 DEF Goto
<1>9. CASE EndTimer
  <2> DEFINE f == [Top EXCEPT !.fired = TRUE, !.cur = "none", !.old = 0, !.pc = "timers"]
  <2>1. Set(f)
    BY <1>9 DEF EndTimer
  <2>2. Fits(f)
    BY <1>2 DEF RunOK, RunFields, Awake
  <2> HIDE DEF f
  <2>3. QED
    BY <2>1, <2>2
<1>10. QED
  BY <1>3, <1>4, <1>5, <1>6, <1>7, <1>8, <1>9 DEF AwakeStep

\* The steps of the loop's thread that receive nothing take no wake-up away
LEMMA SoonStays ==
    ASSUME BlockInv, Depth > 0, NEW f, Set(f), RunOK(f), f.owes <=> Top.owes,
           UNCHANGED <<wakeUpPort, call>>
    PROVE  Soon => Soon'
<1>1. RunsOK /\ DOMAIN runs = 1 .. Depth
  BY LenProperties DEF BlockInv, RunsOK, IsSeq, Depth
<1>2. /\ RunsOK' /\ Depth' = Depth /\ runs'[Depth] = f
      /\ \A j \in 1 .. Depth : j # Depth => runs'[j] = runs[j]
  BY <1>1, SetTop
<1>3. DOMAIN runs' = 1 .. Depth
  BY <1>2, LenProperties DEF RunsOK, IsSeq, Depth
<1>4. \A i \in DOMAIN runs : runs[i].owes => runs'[i].owes
  BY <1>1, <1>2 DEF Top
<1>5. QED
  BY <1>1, <1>3, <1>4 DEF Soon, WakeUpComing

\* What the round has left behind where it goes on at pc
Passed(pc, m) ==
    /\ pc \in {"beforeTimers", "beforeSources", "blocks1", "sources0", "poll"}
    /\ pc \in {"sources0", "poll"} => blocks = <<>>
    /\ pc = "poll" => Found(m) = {}

LEMMA RoundPasses ==
    ASSUME NEW m
    PROVE  Passed(ToBlocks1(m), m) /\ Passed(ToBeforeSources(m), m) /\ Passed(ToBeforeTimers(m), m)
<1>1. Passed(ToBlocks1(m), m)
  BY DEF Passed, ToBlocks1, ToSources0
<1>2. Passed(ToBeforeSources(m), m)
  BY <1>1 DEF Passed, ToBeforeSources
<1>3. QED
  BY <1>1, <1>2 DEF Passed, ToBeforeTimers

LEMMA PassedIdle ==
    ASSUME AllShrink, UNCHANGED <<blocks, signaled, valid>>, NEW f, RunOK(f), Passed(f.pc, f.mode),
           ~f.ignore, f.stopped \/ mode[f.mode]'.stopped => Soon'
    PROVE  Idle(f)'
<1>1. f.mode \in Modes
  BY DEF RunOK
<1>2. Found(f.mode)' \subseteq Found(f.mode)
  BY <1>1, FoundShrinks
<1>3. blocks = <<>> => ~HasBlock(blocks, f.mode)'
  BY DEF HasBlock
<1>4. QED
  BY <1>2, <1>3 DEF Idle, Passed

\* A round begins, or the loop is left
LEMMA RoundKeepsIdle ==
    ASSUME BlockInv, Domains, IdleInv, EnterLoop \/ Decide
    PROVE  IdleInv'
<1>1. Depth > 0 /\ UNCHANGED <<blocks, signaled, valid>>
  BY DEF EnterLoop, Decide, At
<1>2. RunsOK /\ RunOK(Top) /\ Local(Top)
  BY <1>1, TopOK DEF BlockInv, IdleInv, Locals, Top
<1>3. ToExit \in Awake
  BY DEF ToExit, Awake
<1>4. PICK b : \/ Set([Top EXCEPT !.stopped = b, !.pc = ToExit])
               \/ /\ ~Top.stopped /\ ~mode[Top.mode].stopped
                  /\ \/ Set(Round(Top))
                     \/ \E disp, term : Set([Round(Top) EXCEPT !.disp = disp, !.term = term])
  <2>1. CASE EnterLoop
    BY <2>1 DEF EnterLoop
  <2>2. CASE Decide
    BY <2>2 DEF Decide
  <2>3. QED
    BY <2>1, <2>2
<1>5. CASE Set([Top EXCEPT !.stopped = b, !.pc = ToExit])
  <2>1. PICK f : f = [Top EXCEPT !.stopped = b, !.pc = ToExit]
    OBVIOUS
  <2>2. RunOK(f) /\ f.mode = Top.mode /\ f.kept = Top.kept /\ f.pc \in Awake
    BY <1>2, <1>3, <2>1 DEF RunOK, RunFields
  <2>3. QED
    BY <1>1, <1>5, <2>1, <2>2, AwakeKeeps
<1>6. ASSUME NEW f, Set(f), ~Top.stopped, ~mode[Top.mode].stopped,
             f = Round(Top) \/ \E disp, term : f = [Round(Top) EXCEPT !.disp = disp, !.term = term]
      PROVE  IdleInv'
  <2> DEFINE pc == ToBeforeTimers(Top.mode)
  <2>1. /\ RunOK(f) /\ f.mode = Top.mode /\ f.kept = Top.kept /\ ~f.ignore /\ ~f.stopped
        /\ f.pc = pc
    <3> HIDE DEF pc
    <3>1. QED
      BY <1>2, <1>6 DEF Round, RunOK, RunFields, pc
  <2>2. Passed(f.pc, f.mode)
    BY <2>1, RoundPasses
  <2>3. AllShrink
    BY LoopShrinks DEF Loop
  <2>4. ~mode[f.mode]'.stopped
    BY <1>6, <2>1, <2>3 DEF AllShrink, Shrinks, RunOK
  <2>5. Idle(f)'
    BY <1>1, <2>1, <2>2, <2>3, <2>4, PassedIdle
  <2>6. Local(f)
    BY <1>2, <2>1, <2>2 DEF Local, Passed, InBlocks
  <2>7. QED
    BY <1>1, <1>2, <1>6, <2>1, <2>5, <2>6, TopIdle
<1>7. QED
  BY <1>4, <1>5, <1>6

LEMMA ObserversKeepIdle ==
    ASSUME BlockInv, Domains, IdleInv, DoObservers
    PROVE  IdleInv'
<1>1. /\ Depth > 0 /\ Top.pc \in Activities
      /\ UNCHANGED <<mode, blocks, signaled, valid, wakeUpPort, call>>
  BY DEF DoObservers, ports, rest
<1>2. RunsOK /\ RunOK(Top) /\ Local(Top)
  BY <1>1, TopOK DEF BlockInv, IdleInv, Locals, Top
<1>3. PICK pc : /\ Goto(pc)
                /\ \/ pc \in Awake
                   \/ Top.pc = "beforeTimers" /\ pc = ToBeforeSources(Top.mode)
                   \/ Top.pc = "beforeSources" /\ pc = ToBlocks1(Top.mode)
                   \/ Top.pc = "beforeWaiting" /\ pc = "sleep"
  BY DEF DoObservers, Activities, Awake
<1>4. PICK f : f = [Top EXCEPT !.pc = pc]
  OBVIOUS
<1>5. Set(f) /\ RunOK(f) /\ f = [Top EXCEPT !.pc = pc] /\ f.mode = Top.mode /\ f.kept = Top.kept
      /\ f.pc = pc /\ (f.owes <=> Top.owes)
  BY <1>2, <1>3, <1>4 DEF Goto, RunOK, RunFields
<1>6. Soon => Soon'
  BY <1>1, <1>5, SoonStays
<1>7. AllShrink
  BY <1>1, NoneShrinks
<1>8. CASE pc \in Awake
  BY <1>1, <1>5, <1>8, AwakeKeeps
<1>9. CASE Top.pc \in {"beforeTimers", "beforeSources"} /\ Passed(pc, Top.mode)
  <2>1. Local(f)
    BY <1>2, <1>5, <1>9 DEF Local, Passed, InBlocks
  <2>2. ASSUME Quiet(f) PROVE Idle(f)'
    <3>1. Quiet(Top)
      BY <1>2, <1>5, <1>9, <2>2 DEF Quiet, Passed, RunOK, RunFields
    <3>2. Idle(Top)
      BY <1>1, <3>1 DEF IdleInv
    <3>3. ~f.ignore /\ (f.stopped \/ mode[f.mode]'.stopped => Soon')
      BY <1>1, <1>2, <1>5, <1>6, <3>2 DEF Idle, RunOK, RunFields
    <3>4. QED
      BY <1>1, <1>5, <1>7, <1>9, <3>3, PassedIdle
  <2>3. QED
    BY <1>1, <1>2, <1>5, <2>1, <2>2, TopIdle
<1>10. CASE Top.pc = "beforeWaiting" /\ pc = "sleep"
  <2>1. Local(f)
    BY <1>2, <1>5, <1>10 DEF Local, InBlocks
  <2>2. ASSUME Quiet(f) PROVE Idle(f)'
    <3>1. Quiet(Top)
      BY <1>2, <1>5, <1>10, <2>2 DEF Quiet, RunOK, RunFields
    <3>2. Idle(Top)
      BY <1>1, <3>1 DEF IdleInv
    <3>3. Idle(f)
      BY <1>2, <1>5, <1>10, <3>2 DEF Idle, RunOK, RunFields
    <3>4. QED
      BY <1>1, <1>6, <3>3 DEF Idle, Found
  <2>3. QED
    BY <1>1, <1>2, <1>5, <2>1, <2>2, TopIdle
<1>11. QED
  BY <1>3, <1>8, <1>9, <1>10, RoundPasses

\* __CFRunLoopDoBlocks begins
LEMMA TakeBlocksKeepsIdle ==
    ASSUME BlockInv, Domains, IdleInv, TakeBlocks
    PROVE  IdleInv'
<1>1. /\ Depth > 0 /\ Top.pc \in {"blocks1", "blocks2", "blocks3"} /\ blocks' = <<>>
      /\ UNCHANGED <<mode, signaled, valid, wakeUpPort, call>>
  BY DEF TakeBlocks, ports, rest
<1>2. RunsOK /\ RunOK(Top) /\ Local(Top)
  BY <1>1, TopOK DEF BlockInv, IdleInv, Locals, Top
<1>3. PICK f : f = [Top EXCEPT !.list = blocks, !.back = Top.pc, !.pc = "doBlocks"]
  OBVIOUS
<1>4. /\ Set(f) /\ RunOK(f) /\ f.mode = Top.mode /\ f.kept = Top.kept /\ f.pc = "doBlocks"
      /\ f.back = Top.pc /\ (f.handled <=> Top.handled) /\ (f.owes <=> Top.owes)
      /\ (f.ignore <=> Top.ignore) /\ (f.stopped <=> Top.stopped)
  BY <1>2, <1>3 DEF TakeBlocks, RunOK, RunFields
<1>5. Soon => Soon'
  BY <1>1, <1>4, SoonStays
<1>6. Local(f)
  BY <1>1, <1>2, <1>4 DEF Local, InBlocks
<1>7. ASSUME Quiet(f) PROVE Idle(f)'
  <2>1. Quiet(Top)
    BY <1>1, <1>4, <1>7 DEF Quiet
  <2>2. Idle(Top)
    BY <1>1, <2>1 DEF IdleInv
  <2>3. ~HasBlock(blocks, f.mode)'
    BY <1>1 DEF HasBlock
  <2>4. QED
    BY <1>1, <1>4, <1>5, <2>2, <2>3 DEF Idle
<1>8. QED
  BY <1>1, <1>2, <1>4, <1>6, <1>7, TopIdle

LEMMA JoinHasBlock ==
    ASSUME NEW v \in Seq(Block), NEW w \in Seq(Block), NEW m, HasBlock(v \o w, m)
    PROVE  HasBlock(v, m) \/ HasBlock(w, m)
<1>1. /\ DOMAIN (v \o w) = 1 .. Len(v) + Len(w)
      /\ \A i \in 1 .. Len(v) + Len(w) :
            (v \o w)[i] = IF i <= Len(v) THEN v[i] ELSE w[i - Len(v)]
  BY ConcatProperties, LenProperties
<1>2. /\ Len(v) \in Nat /\ Len(w) \in Nat
      /\ DOMAIN v = 1 .. Len(v) /\ DOMAIN w = 1 .. Len(w)
  BY LenProperties
<1>3. PICK i \in 1 .. Len(v) + Len(w) : m \in (v \o w)[i].modes
  BY <1>1 DEF HasBlock
<1>4. CASE i <= Len(v)
  BY <1>1, <1>2, <1>3, <1>4 DEF HasBlock
<1>5. CASE ~(i <= Len(v))
  <2>1. i - Len(v) \in DOMAIN w /\ m \in w[i - Len(v)].modes
    BY <1>1, <1>2, <1>3, <1>5
  <2>2. QED
    BY <2>1 DEF HasBlock
<1>6. QED
  BY <1>4, <1>5

LEMMA DoBlocksKeepsIdle ==
    ASSUME BlockInv, Domains, IdleInv, DoBlocks
    PROVE  IdleInv'
<1> DEFINE mine == {i \in DOMAIN Top.list : Top.mode \in Top.list[i].modes}
<1>1. /\ Depth > 0 /\ Top.pc = "doBlocks" /\ UNCHANGED <<mode, signaled, valid, wakeUpPort, call>>
  BY DEF DoBlocks, At, ports, rest
<1>2. RunsOK /\ RunOK(Top) /\ Local(Top) /\ Depth \in 1 .. Depth
  BY <1>1, TopOK DEF BlockInv, IdleInv, Locals, Top
<1>3. Top.list \in Seq(Block) /\ Top.kept \in Seq(Block) /\ blocks \in Seq(Block)
  BY <1>2 DEF BlockInv, BlockTypes, Top
<1>4. /\ Top.back \in {"blocks1", "blocks2", "blocks3"} /\ ~HasBlock(Top.kept, Top.mode)
      /\ (Top.back = "blocks2" => Top.handled)
  BY <1>1, <1>2 DEF Local, InBlocks
<1>5. Quiet(Top) => Idle(Top)
  BY <1>1 DEF IdleInv
<1>6. CASE mine = {}
  <2>1. PICK pc : /\ pc \in {"sources0", "poll", "decide"}
                  /\ Top.back = "blocks2" => pc = "poll"
                  /\ Top.back = "blocks3" => pc = "decide"
                  /\ Top.back = "blocks1" => pc \in {"sources0", "poll"} /\ (pc = "poll" => Found(Top.mode) = {})
                  /\ Set([Top EXCEPT !.list = <<>>, !.kept = <<>>, !.back = "none", !.pc = pc])
    BY <1>4, <1>6 DEF DoBlocks, AfterBlocks, ToSources0
  <2>2. PICK f : f = [Top EXCEPT !.list = <<>>, !.kept = <<>>, !.back = "none", !.pc = pc]
    OBVIOUS
  <2>3. /\ Set(f) /\ RunOK(f) /\ f.mode = Top.mode /\ f.kept = <<>> /\ f.pc = pc
        /\ (f.handled <=> Top.handled) /\ (f.owes <=> Top.owes)
        /\ (f.ignore <=> Top.ignore) /\ (f.stopped <=> Top.stopped)
    BY <1>2, <2>1, <2>2 DEF RunOK, RunFields
  <2>4. Soon => Soon'
    BY <1>1, <2>3, SoonStays
  <2>5. Local(f)
    BY <2>1, <2>3 DEF Local, InBlocks, HasBlock
  <2>6. ASSUME Quiet(f) PROVE Idle(f)'
    <3>1. pc \in {"sources0", "poll"} /\ ~Top.handled /\ Top.back = "blocks1"
      BY <1>4, <2>1, <2>3, <2>6 DEF Quiet
    <3>2. Idle(Top)
      BY <1>1, <1>5, <3>1 DEF Quiet
    <3>3. blocks' = Top.kept \o Top.list \o blocks
      BY <1>6 DEF DoBlocks
    <3>4. HasBlock(blocks', Top.mode) => HasBlock(blocks, Top.mode)
      <4>1. ~HasBlock(Top.list, Top.mode)
        BY <1>6 DEF HasBlock
      <4>2. Top.kept \o Top.list \in Seq(Block)
        BY <1>3, JoinNumbers
      <4>3. HasBlock(blocks', Top.mode) => HasBlock(Top.kept \o Top.list, Top.mode) \/ HasBlock(blocks, Top.mode)
        BY <1>3, <3>3, <4>2, JoinHasBlock
      <4>4. ~HasBlock(Top.kept \o Top.list, Top.mode)
        BY <1>3, <1>4, <4>1, JoinHasBlock
      <4>5. QED
        BY <4>3, <4>4
    <3>5. HasBlock(blocks, f.mode)' => Soon'
      BY <1>1, <2>3, <2>4, <3>2, <3>4 DEF Idle, HasBlock
    <3>6. pc = "poll" => Found(f.mode)' = {}
      BY <1>1, <2>1, <2>3, <3>1 DEF Found
    <3>7. QED
      BY <1>1, <2>3, <2>4, <3>1, <3>2, <3>5, <3>6 DEF Idle
  <2>7. QED
    BY <1>1, <1>2, <2>3, <2>5, <2>6, TopIdle
<1>7. CASE mine # {}
  <2> DEFINE n == Min(mine)
             kept == Top.kept \o SubSeq(Top.list, 1, n - 1)
  <2>1. PICK f : f = [Top EXCEPT !.kept = kept, !.list = SubSeq(@, n + 1, Len(@)), !.pc = "block"]
    OBVIOUS
  <2>2. Set(f) /\ UNCHANGED blocks
    BY <1>7, <2>1 DEF DoBlocks
  <2>3. n \in mine /\ (\A i \in mine : n <= i) /\ n \in Nat
    <3>1. DOMAIN Top.list \subseteq Nat
      BY <1>3, LenProperties
    <3>2. QED
      BY <1>7, <3>1, MinIsIn
  <2> HIDE DEF n
  <2>4. ~HasBlock(kept, Top.mode)
    <3> DEFINE w == SubSeq(Top.list, 1, n - 1)
    <3>1. Len(Top.list) \in Nat /\ DOMAIN Top.list = 1 .. Len(Top.list)
          /\ \A i \in 1 .. Len(Top.list) : Top.list[i] \in Block
      BY <1>3, LenProperties, ElementOfSeq
    <3>2. (\A i \in 1 .. n - 1 : i \in DOMAIN Top.list /\ i \notin mine /\ Top.list[i] \in Block) /\ 1 \in Int /\ n - 1 \in Int
      BY <2>3, <3>1
    <3>3. /\ w \in Seq(Block) /\ Len(w) = (IF 1 <= n - 1 THEN n - 1 - 1 + 1 ELSE 0)
          /\ \A i \in 1 .. n - 1 - 1 + 1 : w[i] = Top.list[1 + i - 1]
      BY <3>2, SubSeqProperties
    <3> HIDE DEF w
    <3>4. DOMAIN w = 1 .. Len(w)
      BY <3>3, LenProperties
    <3>5. \A i \in DOMAIN w : i \in 1 .. n - 1 /\ w[i] = Top.list[i]
      BY <2>3, <3>3, <3>4
    <3>6. ~HasBlock(w, Top.mode)
      BY <3>2, <3>5 DEF HasBlock
    <3>7. ~HasBlock(Top.kept \o w, Top.mode)
      BY <1>3, <1>4, <3>3, <3>6, JoinHasBlock
    <3>8. QED
      BY <3>7 DEF w
  <2> HIDE DEF kept
  <2>5. /\ RunOK(f) /\ f.mode = Top.mode /\ f.kept = kept /\ f.pc = "block" /\ f.back = Top.back
        /\ (f.handled <=> Top.handled) /\ (f.owes <=> Top.owes)
        /\ (f.ignore <=> Top.ignore) /\ (f.stopped <=> Top.stopped)
    BY <1>2, <2>1 DEF RunOK, RunFields
  <2>6. Soon => Soon'
    BY <1>1, <2>2, <2>5, SoonStays
  <2>7. Local(f)
    BY <1>4, <2>4, <2>5 DEF Local, InBlocks
  <2>8. ASSUME Quiet(f) PROVE Idle(f)'
    <3>1. Idle(Top)
      BY <1>1, <1>5, <2>5, <2>8 DEF Quiet
    <3>2. QED
      BY <1>1, <2>2, <2>5, <2>6, <3>1 DEF Idle
  <2>9. QED
    BY <1>1, <1>2, <2>2, <2>5, <2>7, <2>8, TopIdle
<1>8. QED
  BY <1>6, <1>7

\* Only finitely many sources are ever signalled
SignaledOK == IsFiniteSet(signaled)

LEMMA NextSignaledOK == SignaledOK /\ [Next]_vars => SignaledOK'
<1> SUFFICES ASSUME SignaledOK, [Next]_vars PROVE SignaledOK'
  OBVIOUS
<1>1. (\E x : signaled' = signaled \cup {x}) \/ signaled' \subseteq signaled
  <2>1. CASE Loop
    BY <2>1 DEF Loop, DoObservers, EnterLoop, TakeBlocks, DoBlocks, CollectSources0,
                DoSources0, PollDispatch, Receive, Relock, HandleMsg, DoSource1, DoTimer, Return,
                InvalidateFired, RemoveFired, EndTimer, Decide, PopRun
  <2>2. ASSUME NEW c \in Callers, API(c)
        PROVE  (\E x : signaled' = signaled \cup {x}) \/ signaled' \subseteq signaled
    BY <2>2 DEF API, CFRunLoopWakeUp, CFRunLoopStop, AddInserts, InvalidateRemoves,
                SetDateRepositions, CFRunLoopSourceSignal, CFRunLoopStopMode, CFRunLoopPerformBlock,
                Invalidate, RemoveItem, AddChecks, SetNextFireDate, items
  <2>3. CASE ~Loop /\ ~\E c \in Callers : API(c)
    BY <2>3 DEF Next, CFRunLoopRunSpecific, Tick, KernelTimer, Arrives, Timeout, TimeoutWakes, vars
  <2>4. QED
    BY <2>1, <2>2, <2>3
<1>2. QED
  BY <1>1, FS_AddElement, FS_Subset DEF SignaledOK

LEMMA CollectKeepsIdle ==
    ASSUME BlockInv, Domains, SignaledOK, IdleInv, CollectSources0
    PROVE  IdleInv'
<1>1. /\ Depth > 0 /\ Top.pc = "sources0"
      /\ UNCHANGED <<mode, blocks, signaled, valid, wakeUpPort, call>>
  BY DEF CollectSources0, At, ports, rest
<1>2. RunsOK /\ RunOK(Top) /\ Local(Top)
  BY <1>1, TopOK DEF BlockInv, IdleInv, Locals, Top
<1>3. PICK found : found = Found(Top.mode)
  OBVIOUS
<1>4. PICK q \in [1 .. Cardinality(found) -> found] :
         Range(q) = found /\ Set([Top EXCEPT !.pc = "doSources", !.pend = q])
  BY <1>3 DEF CollectSources0
<1>5. IsSeq(q)
  <2>1. IsFiniteSet(found)
    BY <1>3, FS_Subset DEF Found, SignaledOK
  <2>2. Cardinality(found) \in Nat
    BY <2>1, FS_CardinalityType
  <2>3. q \in Seq(found)
    BY <2>2
  <2>4. QED
    BY <2>3, SeqOfRange DEF IsSeq
<1>6. PICK f : f = [Top EXCEPT !.pc = "doSources", !.pend = q]
  OBVIOUS
<1>7. /\ Set(f) /\ RunOK(f) /\ f.mode = Top.mode /\ f.kept = Top.kept /\ f.pc = "doSources"
      /\ f.pend = q /\ (f.handled <=> Top.handled) /\ (f.owes <=> Top.owes)
      /\ (f.ignore <=> Top.ignore) /\ (f.stopped <=> Top.stopped)
  BY <1>2, <1>4, <1>6 DEF RunOK, RunFields
<1>8. Soon => Soon'
  BY <1>1, <1>7, SoonStays
<1>9. Local(f)
  BY <1>2, <1>7 DEF Local, InBlocks
<1>10. ASSUME Quiet(f) PROVE Idle(f)'
  <2>1. Quiet(Top)
    BY <1>1, <1>7, <1>10 DEF Quiet
  <2>2. Idle(Top)
    BY <1>1, <2>1 DEF IdleInv
  <2>3. Found(f.mode)' \subseteq Range(f.pend)
    BY <1>1, <1>3, <1>4, <1>7 DEF Found
  <2>4. QED
    BY <1>1, <1>5, <1>7, <1>8, <2>2, <2>3 DEF Idle
<1>11. QED
  BY <1>1, <1>2, <1>7, <1>9, <1>10, TopIdle

LEMMA TailRange ==
    ASSUME NEW q, IsSeq(q), q # <<>>
    PROVE  IsSeq(Tail(q)) /\ Range(q) \subseteq {Head(q)} \cup Range(Tail(q))
<1>1. PICK S : q \in Seq(S)
  BY DEF IsSeq
<1>2. PICK n \in Nat : n = Len(q)
  BY <1>1, LenProperties
<1>3. /\ Tail(q) \in Seq(S) /\ Len(Tail(q)) = n - 1 /\ DOMAIN q = 1 .. n
      /\ \A i \in 1 .. Len(Tail(q)) : Tail(q)[i] = q[i + 1]
  BY <1>1, <1>2, HeadTailProperties, LenProperties
<1>4. DOMAIN Tail(q) = 1 .. n - 1
  BY <1>3, LenProperties
<1>5. ASSUME NEW i \in 1 .. n PROVE q[i] \in {Head(q)} \cup Range(Tail(q))
  <2>1. CASE i = 1
    BY <1>1, <2>1
  <2>2. CASE i # 1
    <3>1. i - 1 \in 1 .. n - 1 /\ (i - 1) + 1 = i
      BY <2>2
    <3>2. Tail(q)[i - 1] = q[i]
      BY <1>3, <3>1
    <3>3. QED
      BY <1>4, <3>1, <3>2 DEF Range
  <2>3. QED
    BY <2>1, <2>2
<1>6. IsSeq(Tail(q))
  BY <1>3, SeqOfRange DEF IsSeq
<1>7. QED
  BY <1>3, <1>5, <1>6 DEF Range

LEMMA DoSources0KeepsIdle ==
    ASSUME BlockInv, Domains, IdleInv, DoSources0
    PROVE  IdleInv'
<1>1. /\ Depth > 0 /\ Top.pc = "doSources"
      /\ UNCHANGED <<mode, blocks, valid, wakeUpPort, call>>
  BY DEF DoSources0, At, ports, rest
<1>2. RunsOK /\ RunOK(Top) /\ Local(Top) /\ Top.mode \in Modes
  BY <1>1, TopOK DEF BlockInv, IdleInv, Locals, Top, RunOK
<1>3. AllShrink
  BY <1>1, NoneShrinks
<1>4. Quiet(Top) => Idle(Top)
  BY <1>1 DEF IdleInv
<1>5. CASE Top.pend = <<>> \/ (Top.once /\ Top.handled)
  <2>1. PICK pc : /\ Set([Top EXCEPT !.pend = <<>>, !.pc = pc]) /\ UNCHANGED signaled
                  /\ pc = "poll" \/ (pc = "blocks2" /\ Top.handled)
    BY <1>5 DEF DoSources0
  <2>2. PICK f : f = [Top EXCEPT !.pend = <<>>, !.pc = pc]
    OBVIOUS
  <2>3. /\ Set(f) /\ RunOK(f) /\ f.mode = Top.mode /\ f.kept = Top.kept /\ f.pc = pc
        /\ (f.handled <=> Top.handled) /\ (f.owes <=> Top.owes)
        /\ (f.ignore <=> Top.ignore) /\ (f.stopped <=> Top.stopped)
    BY <1>2, <2>1, <2>2 DEF RunOK, RunFields
  <2>4. Soon => Soon'
    BY <1>1, <2>3, SoonStays
  <2>5. Local(f)
    BY <1>2, <2>1, <2>3 DEF Local, InBlocks
  <2>6. ASSUME Quiet(f) PROVE Idle(f)'
    <3>1. ~Top.handled /\ pc = "poll"
      BY <2>1, <2>3, <2>6 DEF Quiet
    <3>2. Idle(Top)
      BY <1>1, <1>4, <3>1 DEF Quiet
    <3>3. Found(Top.mode) = {} \/ Soon
      <4>1. Range(Top.pend) = {}
        BY <1>5, <3>1 DEF Range
      <4>2. QED
        BY <1>1, <3>2, <4>1 DEF Idle
    <3>4. Found(f.mode)' = {} \/ Soon'
      BY <1>1, <2>1, <2>3, <2>4, <3>3 DEF Found
    <3>5. QED
      BY <1>1, <2>3, <2>4, <3>1, <3>2, <3>4 DEF Idle
  <2>7. QED
    BY <1>1, <1>2, <2>3, <2>5, <2>6, TopIdle
<1>6. CASE ~(Top.pend = <<>> \/ (Top.once /\ Top.handled))
  <2> DEFINE s == Head(Top.pend)
  <2>1. /\ signaled' = signaled \ {s}
        /\ IF s \in signaled \cap valid
           THEN Set([Top EXCEPT !.pend = Tail(@), !.handled = TRUE, !.pc = "source"])
           ELSE Set([Top EXCEPT !.pend = Tail(@)])
    BY <1>6 DEF DoSources0
  <2>2. CASE s \in signaled \cap valid
    <3>1. PICK f : f = [Top EXCEPT !.pend = Tail(@), !.handled = TRUE, !.pc = "source"]
      OBVIOUS
    <3>2. Set(f) /\ RunOK(f) /\ f.mode = Top.mode /\ f.kept = Top.kept /\ f.pc = "source" /\ f.handled
      BY <1>2, <2>1, <2>2, <3>1 DEF RunOK, RunFields
    <3>3. Local(f) /\ ~Quiet(f)
      BY <1>2, <3>2 DEF Local, Quiet, InBlocks
    <3>4. QED
      BY <1>1, <1>2, <3>2, <3>3, TopIdle
  <2>3. CASE s \notin signaled \cap valid
    <3>1. PICK f : f = [Top EXCEPT !.pend = Tail(@)]
      OBVIOUS
    <3>2. /\ Set(f) /\ RunOK(f) /\ f.mode = Top.mode /\ f.kept = Top.kept /\ f.pc = "doSources"
          /\ f.pend = Tail(Top.pend) /\ (f.handled <=> Top.handled) /\ (f.owes <=> Top.owes)
          /\ (f.ignore <=> Top.ignore) /\ (f.stopped <=> Top.stopped)
      BY <1>1, <1>2, <2>1, <2>3, <3>1 DEF RunOK, RunFields
    <3>3. Soon => Soon'
      BY <1>1, <3>2, SoonStays
    <3>4. Local(f)
      BY <1>2, <3>2 DEF Local, InBlocks
    <3>5. ASSUME Quiet(f) PROVE Idle(f)'
      <4>1. Idle(Top)
        BY <1>1, <1>4, <3>2, <3>5 DEF Quiet
      <4>2. Found(f.mode)' \subseteq Found(Top.mode) \ {s}
        BY <1>1, <2>1, <3>2 DEF Found
      <4>3. (IsSeq(f.pend) /\ Found(f.mode)' \subseteq Range(f.pend)) \/ Soon'
        <5>1. (IsSeq(Top.pend) /\ Found(Top.mode) \subseteq Range(Top.pend)) \/ Soon
          BY <1>1, <4>1 DEF Idle
        <5>2. CASE IsSeq(Top.pend) /\ Found(Top.mode) \subseteq Range(Top.pend)
          <6>1. IsSeq(Tail(Top.pend)) /\ Range(Top.pend) \subseteq {s} \cup Range(Tail(Top.pend))
            BY <1>6, <5>2, TailRange
          <6>2. QED
            BY <3>2, <4>2, <5>2, <6>1
        <5>3. QED
          BY <3>3, <5>1, <5>2
      <4>4. QED
        BY <1>1, <3>2, <3>3, <4>1, <4>3 DEF Idle
    <3>6. QED
      BY <1>1, <1>2, <3>2, <3>4, <3>5, TopIdle
  <2>4. QED
    BY <2>2, <2>3
<1>7. QED
  BY <1>5, <1>6

LEMMA PollKeepsIdle ==
    ASSUME BlockInv, Domains, IdleInv, PollDispatch
    PROVE  IdleInv'
<1>1. /\ Depth > 0 /\ Top.pc = "poll"
      /\ UNCHANGED <<mode, blocks, signaled, valid, wakeUpPort, call>>
  BY DEF PollDispatch, At, rest
<1>2. RunsOK /\ RunOK(Top) /\ Local(Top)
  BY <1>1, TopOK DEF BlockInv, IdleInv, Locals, Top
<1>3. PICK poll : poll = (Top.handled \/ Top.term = 0)
  OBVIOUS
<1>4. \/ Set([Top EXCEPT !.poll = poll, !.live = "main", !.pc = "handle"])
      \/ \E pc \in {"beforeWaiting", "sleep"} : Set([Top EXCEPT !.poll = poll, !.did = FALSE, !.pc = pc])
  BY <1>3 DEF PollDispatch
<1>5. CASE Set([Top EXCEPT !.poll = poll, !.live = "main", !.pc = "handle"])
  <2>1. PICK f : f = [Top EXCEPT !.poll = poll, !.live = "main", !.pc = "handle"]
    OBVIOUS
  <2>2. RunOK(f) /\ f.mode = Top.mode /\ f.kept = Top.kept /\ f.pc \in Awake
    BY <1>2, <2>1 DEF RunOK, RunFields, Awake
  <2>3. QED
    BY <1>1, <1>5, <2>1, <2>2, AwakeKeeps
<1>6. ASSUME NEW pc \in {"beforeWaiting", "sleep"}, Set([Top EXCEPT !.poll = poll, !.did = FALSE, !.pc = pc])
      PROVE  IdleInv'
  <2>1. PICK f : f = [Top EXCEPT !.poll = poll, !.did = FALSE, !.pc = pc]
    OBVIOUS
  <2>2. /\ Set(f) /\ RunOK(f) /\ f.mode = Top.mode /\ f.kept = Top.kept /\ f.pc = pc
        /\ f.poll = poll /\ (f.owes <=> Top.owes) /\ f.term = Top.term
        /\ (f.ignore <=> Top.ignore) /\ (f.stopped <=> Top.stopped)
    BY <1>2, <1>6, <2>1 DEF RunOK, RunFields
  <2>3. Soon => Soon'
    BY <1>1, <2>2, SoonStays
  <2>4. Local(f)
    BY <1>2, <2>2 DEF Local, InBlocks
  <2>5. ASSUME Quiet(f) PROVE Idle(f)'
    <3>1. ~Top.handled /\ Top.term # 0
      BY <1>3, <2>2, <2>5 DEF Quiet
    <3>2. Idle(Top)
      BY <1>1, <3>1 DEF IdleInv, Quiet
    <3>3. QED
      BY <1>1, <2>2, <2>3, <3>1, <3>2 DEF Idle, Found
  <2>6. QED
    BY <1>1, <1>2, <2>2, <2>4, <2>5, TopIdle
<1>7. QED
  BY <1>4, <1>5, <1>6

LEMMA ReturnKeepsIdle ==
    ASSUME BlockInv, Domains, IdleInv, Return
    PROVE  IdleInv'
<1>1. Depth > 0 /\ UNCHANGED <<mode, blocks, signaled, valid, wakeUpPort, call>>
  BY DEF Return, Callout, At, ports, rest
<1>2. RunsOK /\ RunOK(Top) /\ Local(Top)
  BY <1>1, TopOK DEF BlockInv, IdleInv, Locals, Top
<1>3. PICK pc : /\ Goto(pc)
                /\ \/ pc \in Awake
                   \/ Top.pc = "block" /\ pc = "doBlocks"
                   \/ Top.pc = "source" /\ pc = "doSources"
  BY DEF Return, Callout, At, Awake, ToBlocks3
<1>4. PICK f : f = [Top EXCEPT !.pc = pc]
  OBVIOUS
<1>5. /\ Set(f) /\ RunOK(f) /\ f.mode = Top.mode /\ f.kept = Top.kept /\ f.pc = pc
      /\ f.back = Top.back /\ (f.handled <=> Top.handled) /\ (f.owes <=> Top.owes)
      /\ (f.ignore <=> Top.ignore) /\ (f.stopped <=> Top.stopped)
  BY <1>2, <1>3, <1>4 DEF Goto, RunOK, RunFields
<1>6. CASE pc \in Awake
  BY <1>1, <1>5, <1>6, AwakeKeeps
<1>7. CASE Top.pc = "source" /\ pc = "doSources"
  <2>1. Local(f) /\ ~Quiet(f)
    BY <1>2, <1>5, <1>7 DEF Local, Quiet, InBlocks
  <2>2. QED
    BY <1>1, <1>2, <1>5, <2>1, TopIdle
<1>8. CASE Top.pc = "block" /\ pc = "doBlocks"
  <2>1. Local(f)
    BY <1>2, <1>5, <1>8 DEF Local, InBlocks
  <2>2. Soon => Soon'
    BY <1>1, <1>5, SoonStays
  <2>3. ASSUME Quiet(f) PROVE Idle(f)'
    <3>1. Idle(Top)
      BY <1>1, <1>5, <1>8, <2>3 DEF IdleInv, Quiet
    <3>2. QED
      BY <1>1, <1>5, <1>8, <2>2, <3>1 DEF Idle
  <2>4. QED
    BY <1>1, <1>2, <1>5, <2>1, <2>3, TopIdle
<1>9. QED
  BY <1>3, <1>6, <1>7, <1>8

LEMMA NextIdleInv ==
    ASSUME NestsAwake, BlockInv, MsgsOK, Domains, SignaledOK, IdleInv, [Next]_vars
    PROVE  IdleInv'
<1>1. CASE Loop
  <2>1. \/ AwakeStep \/ EnterLoop \/ Decide \/ DoObservers \/ TakeBlocks \/ DoBlocks
        \/ CollectSources0 \/ DoSources0 \/ PollDispatch \/ Return \/ PopRun
    BY <1>1 DEF Loop, AwakeStep
  <2>2. QED
    BY <2>1, AwakeStepKeeps, RoundKeepsIdle, ObserversKeepIdle, TakeBlocksKeepsIdle,
       DoBlocksKeepsIdle, CollectKeepsIdle, DoSources0KeepsIdle, PollKeepsIdle, ReturnKeepsIdle,
       PopRunKeepsIdle
<1>2. ASSUME NEW c \in Callers, API(c) PROVE IdleInv'
  BY <1>2, CallKeepsIdle
<1>3. ASSUME NEW r \in RunArgs, CFRunLoopRunSpecific(r[1], r[2], r[3]) PROVE IdleInv'
  BY <1>3, RunSpecificKeepsIdle
<1>4. ASSUME NEW i \in DOMAIN runs, Timeout(i) \/ TimeoutWakes(i) PROVE IdleInv'
  BY <1>4, TimeoutKeepsIdle
<1>5. CASE \/ Tick \/ (\E m \in Modes : KernelTimer(m))
           \/ (\E p \in Ports \cup {"main"} : Arrives(p)) \/ UNCHANGED vars
  BY <1>5, EnvironmentKeepsIdle
<1>6. QED
  BY <1>1, <1>2, <1>3, <1>4, <1>5 DEF Next

LEMMA InitIdleInv == Init => Domains /\ SignaledOK /\ IdleInv
<1> SUFFICES ASSUME Init PROVE Domains /\ SignaledOK /\ IdleInv
  OBVIOUS
<1>1. runs = <<>> /\ signaled = {} /\ DOMAIN call = Callers
  BY DEF Init
<1>2. Depth = 0
  BY <1>1 DEF Depth
<1>3. IdleInv
  BY <1>2 DEF IdleInv, Locals, Nested
<1>4. ASSUME NEW m \in Modes PROVE DOMAIN mode = Modes /\ ModeOK(mode[m])
  <2> DEFINE src == IF m \in CommonModes THEN Sources \cup Ports ELSE {}
             seq == IF m \in CommonModes THEN SetToSeq(Timers) ELSE <<>>
             md == [sources |-> src, timers |-> seq, stopped |-> FALSE, soft |-> Never,
                    armed |-> Never, port |-> FALSE]
  <2>1. DOMAIN mode = Modes /\ mode[m] = ArmNext(md, fireTSR, {})
    BY DEF Init
  <2> HIDE DEF src, seq
  <2>2. ModeOK(md)
    BY DEF ModeOK, ModeFields
  <2> HIDE DEF md
  <2>3. QED
    BY <2>1, <2>2, ArmNextShrinks DEF Shrinks
<1>5. DOMAIN mode = Modes
  BY DEF Init
<1>6. QED
  BY <1>1, <1>3, <1>4, <1>5, FS_EmptySet DEF Domains, SignaledOK

\* When the loop sleeps with an empty port, no source of its mode is signalled,
\* no block it could run is queued, nobody has asked it to stop and its timeout
\* has not expired, unless the wake-up is still to come: with any modes, sources
\* and callers and any nested runs, as long as no block and no observer of the
\* way to sleep runs the loop again, whose run could receive the wake-up.
THEOREM NothingLeftAsleep == ASSUME NestsAwake PROVE Spec => []SleepsOnlyWhenIdle
<1> DEFINE Inv == BlockInv /\ MsgsOK /\ Domains /\ SignaledOK /\ IdleInv
<1>1. Init => Inv
  BY InitBlockInv, InitIdleInv DEF Init, MsgsOK
<1>2. Inv /\ [Next]_vars => Inv'
  BY NextBlockInv, NextMsgsOK, NextDomains, NextSignaledOK, NextIdleInv
<1>3. Inv => SleepsOnlyWhenIdle
  <2> SUFFICES ASSUME IdleInv, Asleep, ~WakeUpComing
               PROVE  /\ Found(Top.mode) = {} /\ ~HasBlock(blocks, Top.mode)
                      /\ ~Top.stopped /\ ~mode[Top.mode].stopped /\ Top.term # 0
    BY DEF SleepsOnlyWhenIdle, Found, HasBlock
  <2>1. Depth > 0 /\ Top.pc = "sleep" /\ ~Top.poll /\ ~Soon
    BY DEF Asleep, At, Soon
  <2>2. Idle(Top)
    BY <2>1 DEF IdleInv, Quiet
  <2>3. QED
    BY <2>1, <2>2 DEF Idle
<1>4. QED
  BY <1>1, <1>2, <1>3, PTL DEF Spec
=============================================================================
