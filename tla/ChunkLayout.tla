----------------------------- MODULE ChunkLayout -----------------------------
(***************************************************************************)
(* The GDDR6 map of a chunk (paper/sw/pi0_chunk_layout.py, ChunkMem).      *)
(*                                                                         *)
(* Every region belongs to an area, an area is a list of windows, and a    *)
(* window lies inside the storage of one channel: channel k answers at the *)
(* addresses [k * ChSize, (k + 1) * ChSize) but has ChCap bytes only, so   *)
(* that an address above them names a byte further down once more.         *)
(*                                                                         *)
(* The striped map (flat addresses over all channels) is the case of one   *)
(* channel with ChCap = ChSize; its areas are under no assertion.  No      *)
(* caller gives alloc an alignment, so that it is always a beat.           *)
(*                                                                         *)
(* The table of regions is a list in address order; here it is the set of  *)
(* its members, the order being that of the bases.                         *)
(***************************************************************************)
EXTENDS Integers, FiniteSets

CONSTANTS
    Area,       \* the areas
    NumWin,     \* NumWin[a]: how many windows area a has
    WinBase,    \* WinBase[a][w]: first byte of window w, 0 <= w < NumWin[a]
    WinLimit,   \* WinLimit[a][w]: the byte after its last
    BEAT,       \* bytes of a beat
    ChSize,     \* address bytes of a channel
    ChCap,      \* bytes of storage of a channel
    Size        \* the sizes asked for

Win(a) == 0 .. NumWin[a] - 1
Windows == UNION {{a} \X Win(a) : a \in Area}

Aligned(x) == x % BEAT = 0

ASSUME LayoutAssumption ==
    /\ BEAT \in Nat \ {0} /\ ChSize \in Nat \ {0} /\ ChCap \in 1 .. ChSize
    /\ Size \subseteq Nat
    /\ NumWin \in [Area -> Nat \ {0}]
    /\ \A a \in Area : \A w \in Win(a) :
        /\ WinBase[a][w] \in Nat /\ WinLimit[a][w] \in Nat
        /\ Aligned(WinBase[a][w]) /\ Aligned(WinLimit[a][w])
        /\ WinBase[a][w] < WinLimit[a][w]

\* What the assertion under the tables of areas checks when the module loads.
ASSUME InsideChannelAssumption ==
    \A a \in Area : \A w \in Win(a) :
        /\ WinBase[a][w] \div ChSize = (WinLimit[a][w] - 1) \div ChSize
        /\ (WinLimit[a][w] - 1) % ChSize < ChCap

\* The windows of the tables do not overlap.
ASSUME WindowsApartAssumption ==
    \A u, v \in Windows : u # v =>
        \/ WinLimit[u[1]][u[2]] <= WinBase[v[1]][v[2]]
        \/ WinLimit[v[1]][v[2]] <= WinBase[u[1]][u[2]]

VARIABLES
    regions,    \* the table: records [base, end, area, win]
    next,       \* next[a][w]: first free byte of a window
    rr,         \* rr[a]: where the round robin of the area starts
    outcome     \* "ok", or the exception that ended the generator

vars == <<regions, next, rr, outcome>>

Region == [base : Nat, end : Nat, area : Area, win : Nat]

TypeOK ==
    /\ regions \subseteq Region
    /\ \A a \in Area : \A w \in Win(a) : next[a][w] \in Nat
    /\ \A a \in Area : rr[a] \in Win(a)
    /\ outcome \in {"ok", "overflow", "overlap"}

\* Rounding up to a multiple of BEAT.
RoundUp(x) == ((x + BEAT - 1) \div BEAT) * BEAT

RegionSize(s) == IF RoundUp(s) < BEAT THEN BEAT ELSE RoundUp(s)

(***************************************************************************)
(* The table.                                                              *)
(***************************************************************************)
\* bisect_left(_bases, base): the neighbours of a region to be inserted.
IsBelow(p, base) == p.base < base /\ \A q \in regions : q.base < base => q.base <= p.base
IsAbove(p, base) == p.base >= base /\ \A q \in regions : q.base >= base => q.base >= p.base

\* _insert raises when the region would overlap one of its neighbours.
Overlaps(r) ==
    \/ \E p \in regions : IsBelow(p, r.base) /\ p.end > r.base
    \/ \E p \in regions : IsAbove(p, r.base) /\ r.end > p.base

\* A plausible bug: the search stops before the region that starts at addr.
RegionOfLeft(addr) ==
    {p \in regions : /\ p.base < addr
                     /\ \A q \in regions : q.base < addr => q.base <= p.base
                     /\ addr < p.end}

\* region_of: the region with the highest base not above the address, if the
\* address is before its end.
RegionOf(addr) ==
    {p \in regions : /\ p.base <= addr
                     /\ \A q \in regions : q.base <= addr => q.base <= p.base
                     /\ addr < p.end}

(***************************************************************************)
(* alloc.                                                                  *)
(***************************************************************************)
\* A plausible bug: only the first byte has to fit.
FitsStart(a, w, s) == RoundUp(next[a][w]) < WinLimit[a][w]

Fits(a, w, s) == RoundUp(next[a][w]) + RegionSize(s) <= WinLimit[a][w]

\* How many windows after the start of the round robin window w comes.
Turn(a, w) == (w - rr[a]) % NumWin[a]

\* A plausible bug: the round robin does not wrap.
AllocInNoWrap(a, w, s) ==
    LET base == RoundUp(next[a][w])
        r == [base |-> base, end |-> base + RegionSize(s), area |-> a, win |-> w]
    IN  /\ outcome = "ok"
        /\ Fits(a, w, s)
        /\ \A v \in Win(a) : Turn(a, v) < Turn(a, w) => ~ Fits(a, v, s)
        /\ regions' = regions \cup {r}
        /\ next' = [next EXCEPT ![a][w] = r.end]
        /\ rr' = [rr EXCEPT ![a] = w + 1]
        /\ UNCHANGED outcome

\* The first window, round robin, with room for the region.
AllocIn(a, w, s) ==
    LET base == RoundUp(next[a][w])
        r == [base |-> base, end |-> base + RegionSize(s), area |-> a, win |-> w]
    IN  /\ outcome = "ok"
        /\ Fits(a, w, s)
        /\ \A v \in Win(a) : Turn(a, v) < Turn(a, w) => ~ Fits(a, v, s)
        /\ IF Overlaps(r)
           THEN /\ outcome' = "overlap"
                /\ UNCHANGED <<regions, next, rr>>
           ELSE /\ regions' = regions \cup {r}
                /\ next' = [next EXCEPT ![a][w] = r.end]
                /\ rr' = [rr EXCEPT ![a] = (w + 1) % NumWin[a]]
                /\ UNCHANGED outcome

\* No window has room: MemoryError, the generator ends.
AllocFails(a, s) ==
    /\ outcome = "ok"
    /\ \A w \in Win(a) : ~ Fits(a, w, s)
    /\ outcome' = "overflow"
    /\ UNCHANGED <<regions, next, rr>>

Init ==
    /\ regions = {}
    /\ next = [a \in Area |-> [w \in Win(a) |-> WinBase[a][w]]]
    /\ rr = [a \in Area |-> 0]
    /\ outcome = "ok"

Next ==
    \E a \in Area, s \in Size :
        AllocFails(a, s) \/ \E w \in Win(a) : AllocIn(a, w, s)

Spec == Init /\ [][Next]_vars

(***************************************************************************)
(* Properties.                                                             *)
(***************************************************************************)
\* The byte of storage an address names.
Storage(x) == ((x \div ChSize) * ChSize) + ((x % ChSize) % ChCap)

\* No two regions share a byte of storage, although an address too high in its
\* channel would name storage of another region: "a region never crosses a
\* window", and windows stay inside the storage.
NoSharedStorage ==
    \A p, q \in regions : p # q =>
        \A x \in p.base .. p.end - 1, y \in q.base .. q.end - 1 : Storage(x) # Storage(y)

\* The checks of _insert look at two neighbours only; for what alloc hands out
\* they never raise.
InsertNeverRaises == outcome # "overlap"

\* region_of, which looks at one region only, finds the one that contains the
\* address, and nothing when none does.
LookupExact ==
    \A r \in regions : \A x \in r.base .. r.end :
        RegionOf(x) = {p \in regions : p.base <= x /\ x < p.end}
=============================================================================
