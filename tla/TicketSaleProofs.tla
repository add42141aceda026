-------------------------- MODULE TicketSaleProofs --------------------------
(***************************************************************************)
(* Proofs that saleTicketSafe sells every ticket exactly once, for any     *)
(* number of windows and of tickets, and of how many tickets the two       *)
(* windows of saleTicketNotSave can sell at the most.  The semaphore is    *)
(* the abstract one, which DispatchSemaphoreProofs shows libdispatch to    *)
(* implement.                                                              *)
(***************************************************************************)
EXTENDS TicketSale, FiniteSetTheorems, TLAPS

\* The window that holds the permit, for good once it has closed.
Owns(w) == w \in Holding \/ w \in Kept

\* One permit, one owner: the lock excludes the windows from each other.
OneOwner ==
    /\ permits = 1 => \A w \in Windows : ~Owns(w)
    /\ \A v, w \in Windows : Owns(v) /\ Owns(w) => v = w

\* What a window has checked and read is still true while it owns the permit.
ReadIsFresh ==
    \A w \in Windows :
        /\ window[w] \in {"read", "write"} => ticketSurplusCount > 0
        /\ window[w] = "write" => count[w] = ticketSurplusCount

\* EveryTicketSoldOnce is not inductive: a write keeps it only if the value
\* read is fresh, which it is only because the permit has one owner.
SaleInv ==
    /\ SaleTypeOK
    /\ ~Safe => \A w \in Windows : window[w] \in {"check", "read", "write", "closed"}
    /\ Safe => OneOwner /\ ReadIsFresh
    /\ EveryTicketSoldOnce

\* All tickets are there and the permit is available.
LEMMA InitSaleInv == SaleInit => SaleInv
BY SaleAssumption
   DEF SaleInit, Methods, Safe, LoopStart, semaphoreLock!Init, SaleInv, SaleTypeOK, Labels, OneOwner,
       Owns, Holding, Kept, ReadIsFresh, EveryTicketSoldOnce

\* Every step of every window keeps the invariant.
LEMMA NextSaleInv == SaleInv /\ [SaleNext]_saleVars => SaleInv'
<1> SUFFICES ASSUME SaleInv, [SaleNext]_saleVars
             PROVE  SaleInv'
  OBVIOUS
<1> USE SaleAssumption
    DEF SaleInv, SaleTypeOK, Methods, Safe, LoopStart, Labels, OneOwner, Owns, Holding, Kept, ReadIsFresh,
        EveryTicketSoldOnce, lock, GoesTo
<1>1. ASSUME NEW w \in Windows, Wait(w), UNCHANGED method
      PROVE  SaleInv'
  <2>1. CASE semaphoreLock!AcquireAtOnce(w) /\ GoesTo(w, "check")
    BY <1>1, <2>1 DEF Wait, semaphoreLock!AcquireAtOnce
  <2>2. CASE permits = 0 /\ semaphoreLock!StartWaiting(w, "forever")
                         /\ GoesTo(w, "blocked")
    BY <1>1, <2>2 DEF Wait, semaphoreLock!StartWaiting
  <2>3. QED
    BY <1>1, <2>1, <2>2 DEF Wait
<1>2. ASSUME NEW w \in Windows, Unblock(w), UNCHANGED method
      PROVE  SaleInv'
  BY <1>2 DEF Unblock, semaphoreLock!Acquire
<1>3. ASSUME NEW w \in Windows, Check(w), UNCHANGED method
      PROVE  SaleInv'
  BY <1>3 DEF Check
<1>4. ASSUME NEW w \in Windows, Read(w), UNCHANGED method
      PROVE  SaleInv'
  BY <1>4 DEF Read
<1>5. ASSUME NEW w \in Windows, Write(w), UNCHANGED method
      PROVE  SaleInv'
  BY <1>5 DEF Write
<1>6. ASSUME NEW w \in Windows, Signal(w), UNCHANGED method
      PROVE  SaleInv'
  BY <1>6 DEF Signal, semaphoreLock!Signal
<1>7. CASE UNCHANGED saleVars
  BY <1>7 DEF saleVars
<1>8. QED
  BY <1>1, <1>2, <1>3, <1>4, <1>5, <1>6, <1>7 DEF SaleNext, SaleStep

\* With saleTicketSafe, however many windows sell, tickets sold and tickets
\* left always add up to the tickets there were.
THEOREM SafeSale == SaleSpec => []EveryTicketSoldOnce
<1>1. SaleInit => SaleInv
  BY InitSaleInv
<1>2. SaleInv /\ [SaleNext]_saleVars => SaleInv'
  BY NextSaleInv
<1>3. SaleInv => EveryTicketSoldOnce
  BY DEF SaleInv
<1>4. QED
  BY <1>1, <1>2, <1>3, PTL DEF SaleSpec

-----------------------------------------------------------------------------
(* saleTicketNotSave with two windows *)

\* The other window is not between its check and its write.
Out(w) == window[w] \in {"check", "closed"}

\* What a window that raced past its check can still do to the count: it sells
\* the ticket that is not there only when the other one is out, and then the count
\* is zero and the other one closes.
Racing(w, v) ==
    /\ window[w] = "read" => ticketSurplusCount >= 0 /\ (ticketSurplusCount = 0 => Out(v))
    /\ window[w] = "write" =>
          /\ ticketSurplusCount >= 0 /\ count[w] >= 0
          /\ count[w] = 0 => ticketSurplusCount = 0 /\ Out(v)

\* That the count does not fall below -1 is not inductive: a write keeps it because
\* the value read was not negative, and a read keeps that because the count is not
\* negative while a window is past its check.
RaceInv ==
    ~Safe /\ Cardinality(Windows) = 2 =>
        /\ ticketSurplusCount >= -1
        /\ \A w, v \in Windows : w # v => Racing(w, v)

\* No ticket is lost: neither by what the count is nor by what a window is about to
\* make of it.
NothingLost ==
    ~Safe => /\ sold + ticketSurplusCount >= Tickets
             /\ \A w \in Windows : window[w] = "write" => sold + count[w] >= Tickets

\* Twice the tickets that two windows can sell, starting at their check with the
\* count n: one window sells the n tickets while the other holds on to the value n,
\* and then puts n - 1 of them back.
Room(n) == IF n > 0 THEN n * (n + 3) ELSE 0
Most == Tickets * (Tickets + 3)

\* One window is to write from the value m and the other from n: either writes last.
Fits(m, n) == /\ 2 * sold + 2 * m + 2 + Room(n - 1) <= Most
              /\ 2 * sold + 2 * n + 2 + Room(m - 1) <= Most

\* The bound on the tickets sold, with what can be sold yet: it depends on where
\* the two windows are, and on the values they have read.
Sales(w, v) ==
    /\ Out(w) /\ Out(v) => 2 * sold + Room(ticketSurplusCount) <= Most
    /\ window[w] = "read" /\ window[v] # "write" =>
          2 * sold + (IF ticketSurplusCount > 0 THEN Room(ticketSurplusCount) ELSE 2) <= Most
    /\ window[w] = "write" /\ window[v] # "write" =>
          IF ticketSurplusCount > 0 THEN Fits(count[w], ticketSurplusCount)
          ELSE 2 * sold + 2 + Room(count[w] - 1) <= Most
    /\ window[w] = "write" /\ window[v] = "write" => Fits(count[w], count[v])

SalesInv ==
    ~Safe /\ Cardinality(Windows) = 2 => \A w, v \in Windows : w # v => Sales(w, v)

\* What one ticket more makes room for.
LEMMA RoomFacts ==
    /\ \A n \in Int : Room(n) \in Nat
    /\ \A n \in Int : n > 0 => Room(n) = Room(n - 1) + 2 * n + 2
    /\ \A n \in Int : n <= 0 => Room(n) = 0
    /\ Room(Tickets) = Most /\ Most \in Nat
<1>1. ASSUME NEW n \in Int, n > 0 PROVE n * (n + 3) \in Nat /\ n * (n + 3) = (n - 1) * (n + 2) + 2 * n + 2
  BY <1>1
<1>2. ASSUME NEW n \in Int, n > 0 PROVE Room(n) = Room(n - 1) + 2 * n + 2
  <2>1. CASE n = 1
    BY <2>1 DEF Room
  <2>2. CASE n > 1
    BY <1>1, <2>2 DEF Room
  <2>3. QED
    BY <1>2, <2>1, <2>2
<1>3. QED
  BY <1>1, <1>2, SaleAssumption DEF Room, Most

\* Of two windows, the one that is not w is the other one.
LEMMA OtherWindow ==
    ASSUME Cardinality(Windows) = 2, NEW w \in Windows
    PROVE  \E v \in Windows : v # w /\ \A u \in Windows : u = w \/ u = v
<1>1. IsFiniteSet(Windows \ {w}) /\ Cardinality(Windows \ {w}) = Cardinality(Windows) - 1
  BY SaleAssumption, FS_RemoveElement
<1>2. Cardinality(Windows \ {w}) = 1
  BY <1>1
<1>3. PICK v : Windows \ {w} = {v}
  BY <1>1, <1>2, FS_Singleton
<1>4. QED
  BY <1>3

\* Before the first sale nobody is past the check.
LEMMA InitRaceInv == SaleInit => RaceInv
BY SaleAssumption DEF SaleInit, Safe, LoopStart, RaceInv, Racing

\* Each step of each window keeps what is known of the race.
LEMMA NextRaceInv == SaleInv /\ RaceInv /\ [SaleNext]_saleVars => RaceInv'
<1> SUFFICES ASSUME SaleInv, RaceInv, [SaleNext]_saleVars, ~Safe', Cardinality(Windows) = 2
             PROVE  /\ ticketSurplusCount' >= -1
                    /\ \A u, v \in Windows : u # v => Racing(u, v)'
  BY DEF RaceInv
<1>0. /\ ~Safe /\ \A w \in Windows : window[w] \in {"check", "read", "write", "closed"}
      /\ ticketSurplusCount >= -1 /\ \A u, v \in Windows : u # v => Racing(u, v)
      /\ ticketSurplusCount \in Int /\ count \in [Windows -> Int] /\ DOMAIN window = Windows
  <2>1. ~Safe
    BY DEF SaleNext, SaleStep, saleVars, Safe
  <2>2. QED
    BY <2>1 DEF SaleInv, SaleTypeOK, RaceInv
<1>1. CASE UNCHANGED <<ticketSurplusCount, window, count>>
  BY <1>0, <1>1 DEF Racing, Out
<1>2. ASSUME NEW w \in Windows, Check(w)
      PROVE  /\ ticketSurplusCount' >= -1
             /\ \A u, v \in Windows : u # v => Racing(u, v)'
  BY <1>0, <1>2 DEF Check, GoesTo, Racing, Out
<1>3. ASSUME NEW w \in Windows, Read(w)
      PROVE  /\ ticketSurplusCount' >= -1
             /\ \A u, v \in Windows : u # v => Racing(u, v)'
  BY <1>0, <1>3 DEF Read, GoesTo, Racing, Out
<1>4. ASSUME NEW w \in Windows, Write(w)
      PROVE  /\ ticketSurplusCount' >= -1
             /\ \A u, v \in Windows : u # v => Racing(u, v)'
  <2>1. PICK o \in Windows : o # w /\ \A u \in Windows : u = w \/ u = o
    BY OtherWindow
  <2>2. /\ ticketSurplusCount' = count[w] - 1 /\ count' = count /\ count[w] >= 0 /\ window[w] = "write"
        /\ window'[w] = "check" /\ window'[o] = window[o] /\ Racing(w, o) /\ Racing(o, w)
    BY <1>0, <1>4, <2>1 DEF Write, GoesTo, Racing
  <2>3. Racing(w, o)' /\ Racing(o, w)'
    BY <1>0, <2>2 DEF Racing, Out
  <2>4. ticketSurplusCount' >= -1
    BY <1>0, <2>2
  <2>5. QED
    BY <2>1, <2>3, <2>4
<1>5. ASSUME NEW w \in Windows, Wait(w) \/ Unblock(w) \/ Signal(w)
      PROVE  FALSE
  BY <1>0, <1>5 DEF Wait, Unblock, Signal
<1>6. QED
  BY <1>1, <1>2, <1>3, <1>4, <1>5 DEF SaleNext, SaleStep, saleVars

\* A window that writes sells a ticket for the one its value has less.
LEMMA NextNothingLost == SaleInv /\ NothingLost /\ [SaleNext]_saleVars => NothingLost'
<1> SUFFICES ASSUME SaleInv, NothingLost, [SaleNext]_saleVars, ~Safe'
             PROVE  NothingLost'
  BY DEF NothingLost
<1>0. /\ ~Safe /\ \A w \in Windows : window[w] \in {"check", "read", "write", "closed"}
      /\ sold + ticketSurplusCount >= Tickets
      /\ \A w \in Windows : window[w] = "write" => sold + count[w] >= Tickets
      /\ ticketSurplusCount \in Int /\ sold \in Nat /\ Tickets \in Nat
      /\ count \in [Windows -> Int] /\ DOMAIN window = Windows
  <2>1. ~Safe
    BY DEF SaleNext, SaleStep, saleVars, Safe
  <2>2. QED
    BY <2>1, SaleAssumption DEF SaleInv, SaleTypeOK, NothingLost
<1>1. CASE UNCHANGED saleVars
  BY <1>0, <1>1 DEF saleVars, NothingLost
<1>2. ASSUME NEW w \in Windows, Check(w) PROVE NothingLost'
  BY <1>0, <1>2 DEF Check, GoesTo, NothingLost
<1>3. ASSUME NEW w \in Windows, Read(w) PROVE NothingLost'
  BY <1>0, <1>3 DEF Read, GoesTo, NothingLost
<1>4. ASSUME NEW w \in Windows, Write(w) PROVE NothingLost'
  BY <1>0, <1>4 DEF Write, GoesTo, NothingLost
<1>5. ASSUME NEW w \in Windows, Wait(w) \/ Unblock(w) \/ Signal(w) PROVE FALSE
  BY <1>0, <1>5 DEF Wait, Unblock, Signal
<1>6. QED
  BY <1>1, <1>2, <1>3, <1>4, <1>5 DEF SaleNext, SaleStep

\* At the start there is room for all that is ever sold.
LEMMA InitSalesInv == SaleInit => NothingLost /\ SalesInv
BY SaleAssumption, RoomFacts DEF SaleInit, Safe, LoopStart, NothingLost, SalesInv, Sales, Out

\* No step makes room for more: a sale takes at least one ticket's worth of it.
LEMMA NextSalesInv == SaleInv /\ RaceInv /\ SalesInv /\ [SaleNext]_saleVars => SalesInv'
<1> SUFFICES ASSUME SaleInv, RaceInv, SalesInv, [SaleNext]_saleVars, ~Safe', Cardinality(Windows) = 2
             PROVE  \A u, v \in Windows : u # v => Sales(u, v)'
  BY DEF SalesInv
<1> DEFINE c == ticketSurplusCount
<1>0. /\ ~Safe /\ \A w \in Windows : window[w] \in {"check", "read", "write", "closed"}
      /\ \A u, v \in Windows : u # v => Racing(u, v) /\ Sales(u, v)
      /\ ticketSurplusCount \in Int /\ sold \in Nat /\ Most \in Nat
      /\ count \in [Windows -> Int] /\ DOMAIN window = Windows
  <2>1. ~Safe
    BY DEF SaleNext, SaleStep, saleVars, Safe
  <2>2. QED
    BY <2>1, RoomFacts DEF SaleInv, SaleTypeOK, RaceInv, SalesInv
<1>1. CASE UNCHANGED saleVars
  BY <1>0, <1>1 DEF saleVars, Sales, Out, Fits, Room, Most
<1>2. ASSUME NEW w \in Windows, SaleStep(w) PROVE \A u, v \in Windows : u # v => Sales(u, v)'
  <2>1. PICK o \in Windows : o # w /\ \A u \in Windows : u = w \/ u = o
    BY OtherWindow
  <2>2. /\ Racing(w, o) /\ Racing(o, w) /\ Sales(w, o) /\ Sales(o, w)
        /\ window[w] \in {"check", "read", "write", "closed"}
        /\ window[o] \in {"check", "read", "write", "closed"}
        /\ count[w] \in Int /\ count[o] \in Int
    BY <1>0, <2>1
  <2>3. SUFFICES Sales(w, o)' /\ Sales(o, w)'
    BY <2>1
  <2>4. CASE Check(w)
    <3>1. /\ window[w] = "check" /\ c' = c /\ sold' = sold /\ count' = count
          /\ window'[w] = (IF c > 0 THEN "read" ELSE "closed") /\ window'[o] = window[o]
      BY <1>0, <2>1, <2>4 DEF Check, GoesTo
    <3>2. Room(c)' = Room(c) /\ Fits(count[w], c)' = Fits(count[w], c) /\ Fits(count[o], c)' = Fits(count[o], c)
          /\ (Room(count[o] - 1))' = Room(count[o] - 1)
      BY <3>1 DEF Room, Fits, Most
    <3>3. QED
      BY <1>0, <2>2, <3>1, <3>2 DEF Sales, Out, Racing, Most
  <2>5. CASE Read(w)
    <3>1. /\ window[w] = "read" /\ c' = c /\ sold' = sold /\ count'[w] = c /\ count'[o] = count[o]
          /\ window'[w] = "write" /\ window'[o] = window[o]
      BY <1>0, <2>1, <2>5 DEF Read, GoesTo
    <3>2. c > 0 => Room(c) = Room(c - 1) + 2 * c + 2
      BY <1>0, RoomFacts
    <3>3. c <= 0 => Room(c - 1) = 0
      BY <1>0, RoomFacts
    <3>4. Room(c - 1) \in Nat /\ Room(c) \in Nat /\ Room(count[o] - 1) \in Nat
      BY <1>0, <2>2, RoomFacts
    <3>5. Sales(w, o)'
      BY <1>0, <2>2, <3>1, <3>2, <3>3, <3>4 DEF Sales, Out, Racing, Fits, Most
    <3>6. Sales(o, w)'
      BY <1>0, <2>2, <3>1, <3>2, <3>3, <3>4 DEF Sales, Out, Racing, Fits, Most
    <3>7. QED
      BY <3>5, <3>6
  <2>6. CASE Write(w)
    <3>1. /\ window[w] = "write" /\ c' = count[w] - 1 /\ sold' = sold + 1 /\ count' = count
          /\ window'[w] = "check" /\ window'[o] = window[o]
      BY <1>0, <2>1, <2>6 DEF Write, GoesTo
    <3>2. /\ count[w] - 1 > 0 => Room(count[w] - 1) = Room(count[w] - 2) + 2 * (count[w] - 1) + 2
          /\ count[w] - 1 <= 0 => Room(count[w] - 1) = 0
      BY <2>2, RoomFacts
    <3>3. Room(count[w] - 1) \in Nat /\ Room(count[w] - 2) \in Nat /\ Room(count[o] - 1) \in Nat
          /\ Room(c - 1) \in Nat
      BY <1>0, <2>2, RoomFacts
    <3>4. Sales(w, o)'
      BY <1>0, <2>2, <3>1, <3>2, <3>3 DEF Sales, Out, Racing, Fits, Most
    <3>5. Sales(o, w)'
      BY <1>0, <2>2, <3>1, <3>2, <3>3 DEF Sales, Out, Racing, Fits, Most
    <3>6. QED
      BY <3>4, <3>5
  <2>7. QED
    BY <1>0, <1>2, <2>4, <2>5, <2>6 DEF SaleStep, Wait, Unblock, Signal
<1>3. QED
  BY <1>1, <1>2 DEF SaleNext

\* Without the lock no ticket is lost, whatever the number of windows; and two
\* windows sell Tickets * (Tickets + 3) / 2 tickets at the most and take the count
\* to -1 at the lowest, for any interleaving of their reads and writes.
THEOREM UnsafeSale == SaleSpec => []BoundedOversale
<1> DEFINE Inv == SaleInv /\ RaceInv /\ NothingLost /\ SalesInv
<1>1. SaleInit => Inv
  BY InitSaleInv, InitRaceInv, InitSalesInv
<1>2. Inv /\ [SaleNext]_saleVars => Inv'
  BY NextSaleInv, NextRaceInv, NextNothingLost, NextSalesInv
<1>3. Inv => BoundedOversale
  <2> SUFFICES ASSUME Inv, ~Safe, Cardinality(Windows) = 2 PROVE 2 * sold <= Tickets * (Tickets + 3)
    BY DEF RaceInv, NothingLost, BoundedOversale
  <2>1. PICK w \in Windows : TRUE
    BY FS_EmptySet
  <2>2. PICK v \in Windows : v # w
    BY OtherWindow
  <2>3. /\ Sales(w, v) /\ Sales(v, w) /\ Racing(w, v) /\ Racing(v, w)
        /\ sold \in Nat /\ ticketSurplusCount \in Int /\ count[w] \in Int /\ count[v] \in Int
        /\ window[w] \in {"check", "read", "write", "closed"}
        /\ window[v] \in {"check", "read", "write", "closed"}
    BY <2>2 DEF SaleInv, SaleTypeOK, RaceInv, SalesInv
  <2>4. /\ Room(ticketSurplusCount) \in Nat /\ Room(ticketSurplusCount - 1) \in Nat
        /\ Room(count[w] - 1) \in Nat /\ Room(count[v] - 1) \in Nat /\ Most \in Nat
    BY <2>3, RoomFacts
  <2>5. 2 * sold <= Most
    BY <2>3, <2>4 DEF Sales, Racing, Fits, Out
  <2>6. QED
    BY <2>5 DEF Most
<1>4. QED
  BY <1>1, <1>2, <1>3, PTL DEF SaleSpec
=============================================================================
