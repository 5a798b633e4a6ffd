-------------------------- MODULE ChunkLayoutProofs --------------------------
(***************************************************************************)
(* The allocator's map is sound for any areas, windows and sizes: regions  *)
(* never share storage and _insert never raises.  Whatever alloc hands out *)
(* starts at the window's `next', so it is above every region of its       *)
(* window, and windows are apart.                                          *)
(***************************************************************************)
EXTENDS ChunkLayout, NumberLemmas

\* Regions lie one below another.
Apart(p, q) == p.end <= q.base \/ q.end <= p.base

\* A region lies in the part of its window that has been handed out.
Placed(r) ==
    /\ r.win \in Win(r.area)
    /\ WinBase[r.area][r.win] <= r.base
    /\ r.base < r.end
    /\ r.end <= next[r.area][r.win]

NextInWindow(a, w) == next[a][w] \in WinBase[a][w] .. WinLimit[a][w]

\* next[a][w] is a number for every window, and only for windows.
NextType ==
    /\ DOMAIN next = Area
    /\ \A a \in Area : DOMAIN next[a] = Win(a)

IInv ==
    /\ TypeOK
    /\ NextType
    /\ rr \in [Area -> Int]
    /\ \A a \in Area : \A w \in Win(a) : NextInWindow(a, w)
    /\ \A r \in regions : Placed(r)
    /\ \A p, q \in regions : p # q => Apart(p, q)
    /\ InsertNeverRaises

\* Rounding up does not round down.
LEMMA RoundUpAbove ==
    ASSUME NEW x \in Nat
    PROVE  RoundUp(x) \in Nat /\ x <= RoundUp(x)
<1> DEFINE y == x + BEAT - 1
<1>1. BEAT \in Nat \ {0} /\ y \in Nat
    BY LayoutAssumption
<1>2. y \div BEAT \in Nat /\ y % BEAT \in 0 .. BEAT - 1 /\ y = ((y \div BEAT) * BEAT) + (y % BEAT)
    <2> HIDE DEF y
    <2> QED
        BY <1>1, DivMod
<1>3. RoundUp(x) = (y \div BEAT) * BEAT
    BY DEF RoundUp
<1> QED
    BY <1>1, <1>2, <1>3

\* Every region has room for a beat.
LEMMA SizePositive ==
    ASSUME NEW s \in Size
    PROVE  RegionSize(s) \in Nat \ {0}
    BY RoundUpAbove, LayoutAssumption DEF RegionSize

\* The windows, one by one.
LEMMA WindowTypes ==
    ASSUME NEW a \in Area, NEW w \in Win(a)
    PROVE  /\ WinBase[a][w] \in Nat /\ WinLimit[a][w] \in Nat
           /\ WinBase[a][w] < WinLimit[a][w]
           /\ <<a, w>> \in Windows
           /\ w \in Nat
<1>1. <<a, w>> \in {a} \X Win(a)
    OBVIOUS
<1>2. NumWin[a] \in Nat
    BY LayoutAssumption
<1> QED
    BY <1>1, <1>2, LayoutAssumption DEF Windows, Win

\* A region and its window, in numbers.
LEMMA PlacedTypes ==
    ASSUME IInv, NEW p \in regions
    PROVE  /\ p.area \in Area /\ p.win \in Win(p.area)
           /\ p.base \in Nat /\ p.end \in Nat /\ p.base < p.end
           /\ WinBase[p.area][p.win] <= p.base
           /\ p.end <= next[p.area][p.win]
           /\ next[p.area][p.win] \in Nat /\ next[p.area][p.win] <= WinLimit[p.area][p.win]
           /\ WinBase[p.area][p.win] \in Nat /\ WinLimit[p.area][p.win] \in Nat
<1>1. p \in Region /\ Placed(p)
    BY DEF IInv, TypeOK
<1>2. p.area \in Area /\ p.win \in Win(p.area) /\ p.base \in Nat /\ p.end \in Nat
    BY <1>1 DEF Region, Placed
<1>3. /\ next[p.area][p.win] \in Nat
      /\ next[p.area][p.win] \in WinBase[p.area][p.win] .. WinLimit[p.area][p.win]
    BY <1>2 DEF IInv, TypeOK, NextInWindow
<1>4. WinBase[p.area][p.win] \in Nat /\ WinLimit[p.area][p.win] \in Nat
    BY <1>2, WindowTypes
<1> QED
    BY <1>1, <1>2, <1>3, <1>4 DEF Placed

\* What alloc is about to hand out, in numbers.
LEMMA FreshTypes ==
    ASSUME IInv, NEW a \in Area, NEW w \in Win(a), NEW s \in Size, Fits(a, w, s)
    PROVE  LET b == RoundUp(next[a][w])
               e == RoundUp(next[a][w]) + RegionSize(s)
           IN  /\ next[a][w] \in Nat /\ WinBase[a][w] <= next[a][w] /\ next[a][w] <= b
               /\ b \in Nat /\ e \in Nat /\ b < e /\ e <= WinLimit[a][w]
               /\ WinBase[a][w] \in Nat /\ WinLimit[a][w] \in Nat
<1>1. WinBase[a][w] \in Nat /\ WinLimit[a][w] \in Nat
    BY WindowTypes
<1>2. next[a][w] \in Nat /\ WinBase[a][w] <= next[a][w]
    BY <1>1 DEF IInv, TypeOK, NextInWindow
<1>3. RoundUp(next[a][w]) \in Nat /\ next[a][w] <= RoundUp(next[a][w])
    BY <1>2, RoundUpAbove
<1>4. RegionSize(s) \in Nat \ {0}
    BY SizePositive
<1>5. RoundUp(next[a][w]) + RegionSize(s) <= WinLimit[a][w]
    BY DEF Fits
<1> QED
    BY <1>1, <1>2, <1>3, <1>4, <1>5

\* What alloc is about to hand out lies apart from every region there is.
LEMMA FreshApart ==
    ASSUME IInv, NEW a \in Area, NEW w \in Win(a), NEW s \in Size, Fits(a, w, s),
           NEW p \in regions
    PROVE  \/ p.end <= RoundUp(next[a][w])
           \/ RoundUp(next[a][w]) + RegionSize(s) <= p.base
<1> DEFINE b == RoundUp(next[a][w])
           e == RoundUp(next[a][w]) + RegionSize(s)
<1>1. /\ next[a][w] \in Nat /\ next[a][w] >= WinBase[a][w]
      /\ b \in Nat /\ e \in Nat /\ next[a][w] <= b /\ e <= WinLimit[a][w]
    BY FreshTypes
<1>2. /\ p.area \in Area /\ p.win \in Win(p.area)
      /\ p.base \in Nat /\ p.end \in Nat
      /\ WinBase[p.area][p.win] <= p.base
      /\ p.end <= next[p.area][p.win]
      /\ next[p.area][p.win] \in Nat /\ next[p.area][p.win] <= WinLimit[p.area][p.win]
      /\ WinBase[p.area][p.win] \in Nat /\ WinLimit[p.area][p.win] \in Nat
    BY PlacedTypes
<1>3. CASE p.area = a /\ p.win = w
    BY <1>1, <1>2, <1>3
<1>4. CASE ~ (p.area = a /\ p.win = w)
    <2>1. <<p.area, p.win>> # <<a, w>>
        BY <1>4
    <2>2. \/ WinLimit[p.area][p.win] <= WinBase[a][w]
          \/ WinLimit[a][w] <= WinBase[p.area][p.win]
        <3>1. <<a, w>> \in Windows /\ <<p.area, p.win>> \in Windows
            BY <1>2, WindowTypes
        <3> QED
            BY <2>1, <3>1, WindowsApartAssumption
    <2>3. WinBase[a][w] \in Nat /\ WinLimit[a][w] \in Nat
        BY WindowTypes
    <2> QED
        BY <1>1, <1>2, <2>2, <2>3
<1> QED
    BY <1>3, <1>4

\* So neither neighbour test of _insert fires.
LEMMA NoOverlap ==
    ASSUME IInv, NEW a \in Area, NEW w \in Win(a), NEW s \in Size, Fits(a, w, s),
           NEW r, r.base = RoundUp(next[a][w]), r.end = RoundUp(next[a][w]) + RegionSize(s)
    PROVE  ~ Overlaps(r)
<1>1. r.base \in Nat /\ r.end \in Nat /\ r.base < r.end
    <2>1. next[a][w] \in Nat
        BY DEF IInv, TypeOK
    <2> QED
        BY <2>1, RoundUpAbove, SizePositive
<1>2. ASSUME NEW p \in regions PROVE p.base \in Nat /\ p.end \in Nat /\ p.base < p.end
                                     /\ (p.end <= r.base \/ r.end <= p.base)
    BY <1>2, FreshApart, PlacedTypes
<1>3. ASSUME NEW p \in regions, IsBelow(p, r.base), p.end > r.base PROVE FALSE
    BY <1>1, <1>2, <1>3 DEF IsBelow
<1>4. ASSUME NEW p \in regions, IsAbove(p, r.base), r.end > p.base PROVE FALSE
    BY <1>1, <1>2, <1>4 DEF IsAbove
<1> QED
    BY <1>3, <1>4 DEF Overlaps

\* The map is sound at the start.
LEMMA InitInv == Init => IInv
<1> SUFFICES ASSUME Init PROVE IInv
    OBVIOUS
<1>1. ASSUME NEW a \in Area, NEW w \in Win(a)
      PROVE next[a][w] = WinBase[a][w] /\ NextInWindow(a, w) /\ next[a][w] \in Nat
    <2>1. WinBase[a][w] \in Nat /\ WinLimit[a][w] \in Nat /\ WinBase[a][w] < WinLimit[a][w]
        BY WindowTypes
    <2>2. next[a][w] = WinBase[a][w]
        BY DEF Init
    <2> QED
        BY <2>1, <2>2 DEF NextInWindow
<1>2. \A a \in Area : rr[a] \in Win(a)
    BY LayoutAssumption DEF Init, Win
<1>3. NextType /\ rr \in [Area -> Int]
    BY DEF Init, NextType
<1> QED
    BY <1>1, <1>2, <1>3 DEF Init, IInv, TypeOK, InsertNeverRaises

\* Every allocation keeps it sound.
LEMMA AllocStep ==
    ASSUME IInv, NEW a \in Area, NEW w \in Win(a), NEW s \in Size, AllocIn(a, w, s)
    PROVE  IInv'
<1> DEFINE b == RoundUp(next[a][w])
           e == RoundUp(next[a][w]) + RegionSize(s)
           r == [base |-> b, end |-> e, area |-> a, win |-> w]
<1>1. /\ next[a][w] \in Nat /\ WinBase[a][w] <= next[a][w] /\ next[a][w] <= b
      /\ b \in Nat /\ e \in Nat /\ b < e /\ e <= WinLimit[a][w]
      /\ WinBase[a][w] \in Nat /\ WinLimit[a][w] \in Nat
    BY FreshTypes DEF AllocIn
<1>2. ~ Overlaps(r)
    BY NoOverlap DEF AllocIn
<1>3. /\ regions' = regions \cup {r}
      /\ next' = [next EXCEPT ![a][w] = e]
      /\ rr' = [rr EXCEPT ![a] = (w + 1) % NumWin[a]]
      /\ outcome' = outcome
    BY <1>2 DEF AllocIn
<1>4. /\ NextType'
      /\ next'[a][w] = e
      /\ \A c \in Area : \A v \in Win(c) :
            ~ (c = a /\ v = w) => next'[c][v] = next[c][v]
    BY <1>3 DEF IInv, NextType
<1>5. \A c \in Area : \A v \in Win(c) : NextInWindow(c, v)' /\ next'[c][v] \in Nat
    BY <1>1, <1>4 DEF IInv, TypeOK, NextInWindow
<1>6. \A c \in Area : \A v \in Win(c) : next[c][v] <= next'[c][v]
    BY <1>1, <1>4 DEF IInv, TypeOK
<1>7. rr' \in [Area -> Int] /\ \A c \in Area : rr'[c] \in Win(c)
    <2>1. NumWin[a] \in Nat \ {0} /\ w + 1 \in Nat
        <3>1. NumWin[a] \in Nat \ {0}
            BY LayoutAssumption
        <3>2. w \in Nat
            BY WindowTypes
        <3> QED
            BY <3>1, <3>2
    <2>2. (w + 1) % NumWin[a] \in Win(a)
        BY <2>1, DivMod DEF Win
    <2>3. (w + 1) % NumWin[a] \in Int
        BY <2>1, DivMod
    <2> QED
        BY <1>3, <2>2, <2>3 DEF IInv, TypeOK
<1>8. r \in Region /\ r.win \in Win(r.area)
    BY <1>1, WindowTypes DEF Region
<1>9. ASSUME NEW p \in regions' PROVE Placed(p)'
    <2>1. CASE p = r
        BY <1>1, <1>4, <2>1 DEF Placed
    <2>2. CASE p \in regions
        <3>1. /\ p.area \in Area /\ p.win \in Win(p.area) /\ p.end \in Nat
              /\ p.end <= next[p.area][p.win] /\ next[p.area][p.win] \in Nat
            BY <2>2 DEF IInv, TypeOK, Placed, Region
        <3>2. next'[p.area][p.win] \in Nat /\ next[p.area][p.win] <= next'[p.area][p.win]
            BY <1>5, <1>6, <3>1
        <3> QED
            BY <2>2, <3>1, <3>2 DEF IInv, Placed
    <2> QED
        BY <1>3, <2>1, <2>2
<1>10. ASSUME NEW p \in regions', NEW q \in regions', p # q PROVE Apart(p, q)
    <2>1. Fits(a, w, s)
        BY DEF AllocIn
    <2>2. \A t \in regions : Apart(t, r) /\ Apart(r, t)
        BY <2>1, FreshApart DEF Apart
    <2> QED
        BY <1>3, <1>10, <2>2 DEF IInv
<1> QED
    BY <1>3, <1>4, <1>5, <1>7, <1>8, <1>9, <1>10 DEF IInv, TypeOK, InsertNeverRaises

\* IInv is an invariant.
THEOREM Invariance == Spec => []IInv
<1>1. IInv /\ [Next]_vars => IInv'
    <2> SUFFICES ASSUME IInv, [Next]_vars PROVE IInv'
        OBVIOUS
    <2>1. CASE UNCHANGED vars
        BY <2>1 DEF IInv, TypeOK, NextType, NextInWindow, Placed, InsertNeverRaises, vars
    <2>2. ASSUME NEW a \in Area, NEW s \in Size, AllocFails(a, s) PROVE IInv'
        BY <2>2 DEF IInv, TypeOK, NextType, NextInWindow, Placed, InsertNeverRaises, AllocFails
    <2>3. ASSUME NEW a \in Area, NEW s \in Size, NEW w \in Win(a), AllocIn(a, w, s) PROVE IInv'
        BY <2>3, AllocStep
    <2> QED
        BY <2>1, <2>2, <2>3 DEF Next
<1> QED
    BY InitInv, <1>1, PTL DEF Spec

\* The exception of _insert is never raised: the "overlap proof" of the map
\* succeeds for every sequence of allocations.
THEOREM AllocNeverRaises == Spec => []InsertNeverRaises
<1>1. IInv => InsertNeverRaises
    BY DEF IInv
<1> QED
    BY <1>1, Invariance, PTL

\* Inside a window an address names its own byte of storage.
LEMMA StorageInWindow ==
    ASSUME NEW a \in Area, NEW w \in Win(a), NEW x \in Nat,
           WinBase[a][w] <= x, x < WinLimit[a][w]
    PROVE  Storage(x) = x
<1> DEFINE b == WinBase[a][w]
           l == WinLimit[a][w] - 1
<1>1. /\ ChSize \in Nat \ {0} /\ ChCap \in Nat \ {0}
      /\ b \in Nat /\ l \in Nat /\ b <= x /\ x <= l
      /\ b \div ChSize = l \div ChSize /\ l % ChSize < ChCap
    BY WindowTypes, LayoutAssumption, InsideChannelAssumption
<1> HIDE DEF b, l
<1>2. /\ x \div ChSize \in Nat /\ x % ChSize \in 0 .. ChSize - 1
      /\ x = ((x \div ChSize) * ChSize) + (x % ChSize)
      /\ l = ((l \div ChSize) * ChSize) + (l % ChSize)
      /\ b = ((b \div ChSize) * ChSize) + (b % ChSize)
      /\ l \div ChSize \in Nat /\ b % ChSize \in 0 .. ChSize - 1 /\ l % ChSize \in 0 .. ChSize - 1
    BY <1>1, DivMod
<1>3. x \div ChSize = l \div ChSize
    BY <1>1, <1>2
<1>4. x % ChSize < ChCap
    BY <1>1, <1>2, <1>3
<1>5. (x % ChSize) % ChCap = x % ChSize
    BY <1>1, <1>2, <1>4
<1> QED
    BY <1>2, <1>5 DEF Storage

\* No two regions share a byte of storage.
THEOREM StorageNotShared == Spec => []NoSharedStorage
<1>1. IInv => NoSharedStorage
    <2> SUFFICES ASSUME IInv, NEW p \in regions, NEW q \in regions, p # q,
                        NEW x \in p.base .. p.end - 1, NEW y \in q.base .. q.end - 1
                 PROVE  Storage(x) # Storage(y)
        BY DEF NoSharedStorage
    <2>1. ASSUME NEW r \in regions, NEW z \in r.base .. r.end - 1
          PROVE  Storage(z) = z /\ z \in Nat
        <3>1. /\ r.area \in Area /\ r.win \in Win(r.area) /\ r.base \in Nat /\ r.end \in Nat
              /\ WinBase[r.area][r.win] <= r.base /\ r.end <= next[r.area][r.win]
              /\ next[r.area][r.win] \in WinBase[r.area][r.win] .. WinLimit[r.area][r.win]
            BY DEF IInv, TypeOK, Region, Placed, NextInWindow
        <3>2. WinBase[r.area][r.win] <= z /\ z < WinLimit[r.area][r.win] /\ z \in Nat
            <4> HIDE DEF IInv
            <4>1. WinBase[r.area][r.win] \in Nat /\ WinLimit[r.area][r.win] \in Nat
                BY <3>1, WindowTypes
            <4> QED
                BY <3>1, <4>1
        <3> QED
            BY <3>1, <3>2, StorageInWindow
    <2>2. Apart(p, q) /\ p.base \in Nat /\ p.end \in Nat /\ q.base \in Nat /\ q.end \in Nat
        BY DEF IInv, TypeOK, Region
    <2>3. x # y
        BY <2>2 DEF Apart
    <2> QED
        BY <2>1, <2>3
<1> QED
    BY <1>1, Invariance, PTL

\* region_of finds the region of an address, if there is one.
THEOREM LookupIsExact == Spec => []LookupExact
<1>1. IInv => LookupExact
    <2> SUFFICES ASSUME IInv, NEW x \in Int
                 PROVE  RegionOf(x) = {p \in regions : p.base <= x /\ x < p.end}
        BY DEF LookupExact, IInv, TypeOK, Region
    <2>1. ASSUME NEW p \in regions, p.base <= x, x < p.end, NEW q \in regions, q.base <= x
          PROVE  q.base <= p.base
        <3>1. p.base \in Nat /\ p.end \in Nat /\ q.base \in Nat /\ q.end \in Nat /\ q.base < q.end
            BY DEF IInv, TypeOK, Region, Placed
        <3>2. p = q \/ Apart(p, q)
            BY DEF IInv
        <3> QED
            BY <2>1, <3>1, <3>2 DEF Apart
    <2> QED
        BY <2>1 DEF RegionOf
<1> QED
    BY <1>1, Invariance, PTL

\* The table holds regions of the map, the round robin of an area stays at one of
\* its windows (alloc wraps it), and the generator ends in no other way.
THEOREM TypeCorrect == Spec => []TypeOK
<1>1. IInv => TypeOK
    BY DEF IInv
<1> QED
    BY <1>1, Invariance, PTL
=============================================================================
