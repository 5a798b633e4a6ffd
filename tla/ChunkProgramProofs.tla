------------------------- MODULE ChunkProgramProofs -------------------------
(***************************************************************************)
(* DepTracker finds exactly the conflicts there are, for every map, every  *)
(* set of bodies and every number of parts, and the parts wait for what    *)
(* ChunkSync says.                                                         *)
(***************************************************************************)
EXTENDS ChunkProgram, NumberLemmas

\* A larger number lies in the same beat or in a later one.
LEMMA DivMonotone ==
    ASSUME NEW x \in Nat, NEW y \in Nat, x <= y, NEW b \in Nat \ {0}
    PROVE  x \div b <= y \div b
    BY DivMod

\* A number is not before the beat it lies in, nor after its last byte.
LEMMA BeatStart ==
    ASSUME NEW y \in Nat, NEW b \in Nat \ {0}, NEW k \in Int, k <= y \div b
    PROVE  k * b <= y
<1>1. y \div b \in Nat /\ y % b \in 0 .. b - 1 /\ y = ((y \div b) * b) + (y % b)
    BY DivMod
<1>2. k * b <= (y \div b) * b
    BY <1>1, TimesMonotone
<1> DEFINE d == (y \div b) * b
           m == y % b
           e == k * b
<1>3. d \in Int /\ e \in Int /\ m \in Nat /\ y = d + m /\ e <= d
    BY <1>1, <1>2
<1> HIDE DEF d, m, e
<1>4. e <= y
    BY <1>3
<1> QED
    BY <1>4 DEF e

\* A number is not after the last byte of the beat it lies in, nor of a later one.
LEMMA BeatEnd ==
    ASSUME NEW x \in Nat, NEW b \in Nat \ {0}, NEW k \in Int, x \div b <= k
    PROVE  x <= (k * b) + b - 1
<1>1. x \div b \in Nat /\ x % b \in 0 .. b - 1 /\ x = ((x \div b) * b) + (x % b)
    BY DivMod
<1>2. (x \div b) * b <= k * b
    BY <1>1, TimesMonotone
<1> DEFINE d == (x \div b) * b
           m == x % b
           e == k * b
<1>3. d \in Int /\ e \in Int /\ m \in Nat /\ m <= b - 1 /\ x = d + m /\ d <= e
    BY <1>1, <1>2
<1> HIDE DEF d, m, e
<1>4. x <= e + b - 1
    BY <1>3
<1> QED
    BY <1>4 DEF e

\* What is made of whole beats ends and starts with one.
LEMMA WholeBeats ==
    ASSUME NEW x \in Nat, NEW b \in Nat \ {0}, x % b = 0, NEW k \in Int
    PROVE  /\ k * b <= x - 1 => (k * b) + b <= x
           /\ x <= (k * b) + b - 1 => x <= k * b
<1> DEFINE u == x \div b
<1>1. u \in Nat /\ x = u * b
    BY DivMod
<1> HIDE DEF u
<1>2. CASE k < u
    <2>1. (k + 1) * b <= u * b
        BY <1>1, <1>2, TimesMonotone
    <2>2. (k + 1) * b = (k * b) + b
        OBVIOUS
    <2> QED
        BY <1>1, <2>1, <2>2
<1>3. CASE u <= k
    <2>1. u * b <= k * b
        BY <1>1, <1>3, TimesMonotone
    <2> QED
        BY <1>1, <2>1
<1> QED
    BY <1>1, <1>2, <1>3

(***************************************************************************)
(* The buckets.                                                            *)
(***************************************************************************)
\* What bisect and the loop find are the regions the range overlaps, all of
\* them and no other.
THEOREM BucketsExact ==
    ASSUME NEW lo \in Nat, NEW hi \in Nat, lo < hi
    PROVE  Buckets(lo, hi) = {i \in Index : RegionBase[i] < hi /\ RegionEnd[i] > lo}
<1>1. \A i \in Index : i \in Nat /\ RegionBase[i] \in Nat /\ RegionEnd[i] \in Nat /\ RegionBase[i] < RegionEnd[i]
    BY MapAssumption DEF Index
<1>2. \A i, j \in Index : i < j => RegionEnd[i] <= RegionBase[j]
    BY MapAssumption
<1>3. ASSUME NEW i \in Buckets(lo, hi) PROVE RegionBase[i] < hi /\ RegionEnd[i] > lo
    BY <1>1, <1>3 DEF Buckets
<1>4. ASSUME NEW i \in Index, RegionBase[i] < hi, RegionEnd[i] > lo PROVE i \in Buckets(lo, hi)
    <2>1. Scanned(i, lo)
        <3>1. SUFFICES ASSUME NEW j \in Index, j > i PROVE RegionBase[j] > lo
            BY DEF Scanned
        <3> QED
            BY <1>1, <1>2, <1>4, <3>1
    <2>2. ASSUME NEW j \in Index, j <= i PROVE RegionBase[j] < hi
        BY <1>1, <1>2, <1>4, <2>2
    <2> QED
        BY <1>4, <2>1, <2>2 DEF Buckets
<1> QED
    BY <1>3, <1>4 DEF Buckets

\* Two ranges that have a byte in common, both in the map, share a bucket.
LEMMA ShareBucket ==
    ASSUME NEW r \in Span, NEW t \in Span, InMap(r), r[1] < t[2], t[1] < r[2]
    PROVE  \E i \in Index : i \in Buckets(r[1], r[2]) /\ i \in Buckets(t[1], t[2])
<1> DEFINE x == IF r[1] < t[1] THEN t[1] ELSE r[1]
<1>1. r[1] \in Nat /\ r[2] \in Nat /\ t[1] \in Nat /\ t[2] \in Nat /\ r[1] < r[2] /\ t[1] < t[2]
    BY DEF Span
<1>2. x \in r[1] .. r[2] - 1 /\ t[1] <= x /\ x < t[2]
    BY <1>1
<1>3. PICK i \in Index : RegionBase[i] <= x /\ x < RegionEnd[i]
    BY <1>2 DEF InMap
<1>4. RegionBase[i] \in Nat /\ RegionEnd[i] \in Nat
    BY MapAssumption
<1>5. RegionBase[i] < r[2] /\ RegionEnd[i] > r[1] /\ RegionBase[i] < t[2] /\ RegionEnd[i] > t[1]
    BY <1>1, <1>2, <1>3, <1>4
<1> QED
    BY <1>1, <1>5, BucketsExact

\* Byte ranges overlap exactly when they touch a common beat, if one of them is
\* made of whole beats.
LEMMA OverlapInBeats ==
    ASSUME NEW r \in Span, NEW t \in Span, t[1] % BEAT = 0, t[2] % BEAT = 0
    PROVE  (r[1] < t[2] /\ t[1] < r[2]) <=>
           (r[1] \div BEAT .. (r[2] - 1) \div BEAT) \cap (t[1] \div BEAT .. (t[2] - 1) \div BEAT) # {}
<1>1. /\ r[1] \in Nat /\ r[2] \in Nat /\ t[1] \in Nat /\ t[2] \in Nat
      /\ r[1] < r[2] /\ t[1] < t[2] /\ r[2] - 1 \in Nat /\ t[2] - 1 \in Nat
      /\ BEAT \in Nat \ {0}
    BY BodyAssumption DEF Span
<1>2. ASSUME r[1] < t[2], t[1] < r[2]
      PROVE \E x \in Nat : r[1] <= x /\ x <= r[2] - 1 /\ t[1] <= x /\ x <= t[2] - 1
    <2>1. CASE r[1] < t[1]
        BY <1>1, <1>2, <2>1
    <2>2. CASE ~ (r[1] < t[1])
        BY <1>1, <1>2, <2>2
    <2> QED
        BY <2>1, <2>2
<1>3. ASSUME NEW x \in Nat, r[1] <= x, x <= r[2] - 1, t[1] <= x, x <= t[2] - 1
      PROVE  x \div BEAT \in (r[1] \div BEAT .. (r[2] - 1) \div BEAT) \cap (t[1] \div BEAT .. (t[2] - 1) \div BEAT)
    <2>1. /\ r[1] \div BEAT <= x \div BEAT /\ x \div BEAT <= (r[2] - 1) \div BEAT
          /\ t[1] \div BEAT <= x \div BEAT /\ x \div BEAT <= (t[2] - 1) \div BEAT
        BY <1>1, <1>3, DivMonotone
    <2>2. /\ r[1] \div BEAT \in Nat /\ (r[2] - 1) \div BEAT \in Nat /\ x \div BEAT \in Nat
          /\ t[1] \div BEAT \in Nat /\ (t[2] - 1) \div BEAT \in Nat
        BY <1>1, DivMod
    <2> QED
        BY <2>1, <2>2
<1>4. ASSUME NEW b \in Int, r[1] \div BEAT <= b, b <= (r[2] - 1) \div BEAT,
                            t[1] \div BEAT <= b, b <= (t[2] - 1) \div BEAT
      PROVE  r[1] < t[2] /\ t[1] < r[2]
    <2>1. b * BEAT <= r[2] - 1 /\ b * BEAT <= t[2] - 1
        BY <1>1, <1>4, BeatStart
    <2>2. r[1] <= (b * BEAT) + BEAT - 1 /\ t[1] <= (b * BEAT) + BEAT - 1
        BY <1>1, <1>4, BeatEnd
    <2>3. (b * BEAT) + BEAT <= t[2]
        BY <1>1, <2>1, WholeBeats
    <2>4. t[1] <= b * BEAT
        BY <1>1, <2>2, WholeBeats
    <2>5. b * BEAT \in Int
        BY <1>1
    <2> QED
        BY <1>1, <2>1, <2>2, <2>3, <2>4, <2>5
<1>5. ASSUME (r[1] \div BEAT .. (r[2] - 1) \div BEAT) \cap (t[1] \div BEAT .. (t[2] - 1) \div BEAT) # {}
      PROVE  r[1] < t[2] /\ t[1] < r[2]
    BY <1>4, <1>5
<1> QED
    BY <1>2, <1>3, <1>5

(***************************************************************************)
(* The WAITs.                                                              *)
(***************************************************************************)
\* Two bodies meet, in bytes and in beats.
Clash(b, c) ==
    \/ \E r \in b.writes, t \in c.reads : r[1] < t[2] /\ t[1] < r[2]
    \/ \E r \in b.writes, t \in c.writes : r[1] < t[2] /\ t[1] < r[2]
    \/ \E r \in b.reads, t \in c.writes : r[1] < t[2] /\ t[1] < r[2]

ClashBeats(b, c) ==
    \/ BeatsOf(b.writes) \cap BeatsOf(c.reads) # {}
    \/ BeatsOf(b.writes) \cap BeatsOf(c.writes) # {}
    \/ BeatsOf(b.reads) \cap BeatsOf(c.writes) # {}

\* What ChunkSync says of the parts ps, one operator instead of an instance.
HitsOf(ps, q) ==
    {p \in 1 .. Len(ps) : /\ ps[p].node # ps[q].node
                          /\ ps[p].stage < ps[q].stage
                          /\ ClashBeats(ps[p].body, ps[q].body)}

DepsOf(ps, q) == {p \in HitsOf(ps, q) : \A r \in HitsOf(ps, q) : ps[r].node = ps[p].node => r <= p}

FlagsOf(ps, q) == {p \in 1 .. Len(ps) : ps[p].stage = ps[q].stage - 1}

\* The entries of a table: the accesses of the parts of closed stages.
Entries(ps, k, i) ==
    [w |-> {e \in Entry : /\ e.seq \in 1 .. Len(ps) /\ ps[e.seq].stage < k
                          /\ e.node = ps[e.seq].node
                          /\ <<e.lo, e.hi>> \in ps[e.seq].body.writes
                          /\ i \in Buckets(e.lo, e.hi)},
     r |-> {e \in Entry : /\ e.seq \in 1 .. Len(ps) /\ ps[e.seq].stage < k
                          /\ e.node = ps[e.seq].node
                          /\ <<e.lo, e.hi>> \in ps[e.seq].body.reads
                          /\ i \in Buckets(e.lo, e.hi)}]

TablesOK ==
    sync = "deps" => \A i \in Index :
        wtab[i] = Entries(parts, stage, i).w /\ rtab[i] = Entries(parts, stage, i).r

StagesOK ==
    /\ stage \in Nat \ {0}
    /\ \A q \in 1 .. fi : parts[q].stage \in 1 .. stage
    /\ \A p, q \in 1 .. fi : p < q => parts[p].stage <= parts[q].stage
    /\ \A k \in 1 .. stage - 1 : \E q \in 1 .. fi : parts[q].stage = k
    /\ prev = {q \in 1 .. fi : parts[q].stage = stage - 1}

WaitsOK ==
    \A q \in 1 .. fi :
        parts[q].waits = IF sync = "barrier" THEN FlagsOf(parts, q) ELSE DepsOf(parts, q)

IInv ==
    /\ sync \in {"barrier", "deps"}
    /\ parts \in Seq(PartRec)
    /\ StagesOK /\ TablesOK /\ WaitsOK

\* A body's ranges.
LEMMA BodyRanges ==
    ASSUME NEW b \in Body
    PROVE  /\ \A r \in b.writes \cup b.reads : r \in Span /\ InMap(r)
           /\ \A r \in b.writes : r[1] % BEAT = 0 /\ r[2] % BEAT = 0
    BY BodyAssumption

\* Two sets of ranges, one of whole beats, meet in a byte just when they meet
\* in a beat.
LEMMA MeetInBeats ==
    ASSUME NEW S \in SUBSET Span, NEW T \in SUBSET Span,
           \A t \in T : t[1] % BEAT = 0 /\ t[2] % BEAT = 0
    PROVE  (\E r \in S, t \in T : r[1] < t[2] /\ t[1] < r[2]) <=> BeatsOf(S) \cap BeatsOf(T) # {}
<1> DEFINE B(r) == r[1] \div BEAT .. (r[2] - 1) \div BEAT
<1>1. \A r \in S, t \in T : (r[1] < t[2] /\ t[1] < r[2]) <=> B(r) \cap B(t) # {}
    BY OverlapInBeats
<1>2. BeatsOf(S) = UNION {B(r) : r \in S} /\ BeatsOf(T) = UNION {B(r) : r \in T}
    BY DEF BeatsOf
<1> HIDE DEF B
<1>3. BeatsOf(S) \cap BeatsOf(T) # {} <=> \E r \in S, t \in T : B(r) \cap B(t) # {}
    BY <1>2
<1> QED
    BY <1>1, <1>3

\* Two bodies conflict byte for byte exactly if they conflict beat for beat.
LEMMA ClashInBeats ==
    ASSUME NEW b \in Body, NEW c \in Body
    PROVE  Clash(b, c) <=> ClashBeats(b, c)
<1>1. /\ b.writes \in SUBSET Span /\ b.reads \in SUBSET Span
      /\ c.writes \in SUBSET Span /\ c.reads \in SUBSET Span
      /\ \A t \in b.writes \cup c.writes : t[1] % BEAT = 0 /\ t[2] % BEAT = 0
    BY BodyAssumption
<1>2. (\E r \in c.reads, t \in b.writes : r[1] < t[2] /\ t[1] < r[2])
          <=> BeatsOf(c.reads) \cap BeatsOf(b.writes) # {}
    BY <1>1, MeetInBeats
<1>3. (\E r \in b.writes, t \in c.writes : r[1] < t[2] /\ t[1] < r[2])
          <=> BeatsOf(b.writes) \cap BeatsOf(c.writes) # {}
    BY <1>1, MeetInBeats
<1>4. (\E r \in b.reads, t \in c.writes : r[1] < t[2] /\ t[1] < r[2])
          <=> BeatsOf(b.reads) \cap BeatsOf(c.writes) # {}
    BY <1>1, MeetInBeats
<1>5. BeatsOf(c.reads) \cap BeatsOf(b.writes) = BeatsOf(b.writes) \cap BeatsOf(c.reads)
    OBVIOUS
<1> QED
    BY <1>2, <1>3, <1>4, <1>5 DEF Clash, ClashBeats

\* A part of the chunk so far.
LEMMA PartTypes ==
    ASSUME IInv, NEW q \in 1 .. fi
    PROVE  /\ parts[q] \in PartRec /\ parts[q].body \in Body /\ parts[q].node \in Node
           /\ parts[q].stage \in Nat /\ q \in Nat
<1>1. parts \in Seq(PartRec)
    BY DEF IInv
<1>2. parts[q] \in PartRec /\ q \in Nat
    BY <1>1 DEF fi
<1> QED
    BY <1>2 DEF PartRec

\* What the scans find are accesses of parts that clash with the new one, and
\* every such part is found.
LEMMA ScanFinds ==
    ASSUME IInv, sync = "deps", NEW n \in Node, NEW body \in Body,
           NEW e \in Found(n, body)
    PROVE  /\ e.seq \in 1 .. fi /\ parts[e.seq].stage < stage
           /\ e.node = parts[e.seq].node /\ e.node # n
           /\ Clash(parts[e.seq].body, body)
<1> DEFINE P == parts[e.seq]
<1>1. \A i \in Index : wtab[i] = Entries(parts, stage, i).w /\ rtab[i] = Entries(parts, stage, i).r
    BY DEF IInv, TablesOK
<1>2. ASSUME NEW ranges, e \in Scan(n, ranges, wtab)
      PROVE  /\ e.seq \in 1 .. fi /\ P.stage < stage /\ e.node = P.node /\ e.node # n
             /\ \E r \in P.body.writes, t \in ranges : r[1] < t[2] /\ t[1] < r[2]
    <2>1. PICK i \in Index : e \in wtab[i] /\ e.node # n /\ \E t \in ranges : e.lo < t[2] /\ t[1] < e.hi
        BY <1>2 DEF Scan
    <2>2. PICK t \in ranges : e.lo < t[2] /\ t[1] < e.hi
        BY <2>1
    <2>3. /\ e.seq \in 1 .. fi /\ P.stage < stage /\ e.node = P.node
          /\ <<e.lo, e.hi>> \in P.body.writes
        BY <1>1, <2>1 DEF Entries, fi
    <2> QED
        BY <2>1, <2>2, <2>3
<1>3. ASSUME NEW ranges, e \in Scan(n, ranges, rtab)
      PROVE  /\ e.seq \in 1 .. fi /\ P.stage < stage /\ e.node = P.node /\ e.node # n
             /\ \E r \in P.body.reads, t \in ranges : r[1] < t[2] /\ t[1] < r[2]
    <2>1. PICK i \in Index : e \in rtab[i] /\ e.node # n /\ \E t \in ranges : e.lo < t[2] /\ t[1] < e.hi
        BY <1>3 DEF Scan
    <2>2. PICK t \in ranges : e.lo < t[2] /\ t[1] < e.hi
        BY <2>1
    <2>3. /\ e.seq \in 1 .. fi /\ P.stage < stage /\ e.node = P.node
          /\ <<e.lo, e.hi>> \in P.body.reads
        BY <1>1, <2>1 DEF Entries, fi
    <2> QED
        BY <2>1, <2>2, <2>3
<1> HIDE DEF P
<1>4. \/ e \in Scan(n, body.reads, wtab)
      \/ e \in Scan(n, body.writes, wtab)
      \/ e \in Scan(n, body.writes, rtab)
    BY DEF Found
<1>5. CASE e \in Scan(n, body.reads, wtab)
    BY <1>2, <1>5 DEF Clash, P
<1>6. CASE e \in Scan(n, body.writes, wtab)
    BY <1>2, <1>6 DEF Clash, P
<1>7. CASE e \in Scan(n, body.writes, rtab)
    BY <1>3, <1>7 DEF Clash, P
<1> QED
    BY <1>4, <1>5, <1>6, <1>7

\* The scan misses nothing: a conflicting part of an earlier stage on another
\* node has an entry that deps finds.
LEMMA ScanMisses ==
    ASSUME IInv, sync = "deps", NEW n \in Node, NEW body \in Body,
           NEW p \in 1 .. fi, parts[p].stage < stage, parts[p].node # n,
           Clash(parts[p].body, body)
    PROVE  \E e \in Found(n, body) : e.seq = p /\ e.node = parts[p].node
<1> DEFINE P == parts[p]
           E(r) == [lo |-> r[1], hi |-> r[2], node |-> P.node, seq |-> p]
<1>1. /\ P.body \in Body /\ P.node \in Node /\ p \in Nat
      /\ \A r \in P.body.writes \cup P.body.reads : r \in Span /\ InMap(r)
      /\ \A r \in body.writes \cup body.reads : r \in Span /\ InMap(r)
    BY PartTypes, BodyRanges
<1>2. \A r \in Span : /\ E(r) \in Entry /\ r = <<E(r).lo, E(r).hi>>
                        /\ E(r).seq = p /\ E(r).node = P.node
    BY <1>1 DEF Span, Entry
<1>3. \A i \in Index : wtab[i] = Entries(parts, stage, i).w /\ rtab[i] = Entries(parts, stage, i).r
    BY DEF IInv, TablesOK
<1>4. ASSUME NEW ranges, NEW r \in P.body.writes, NEW t \in ranges, t \in Span,
             r[1] < t[2], t[1] < r[2]
      PROVE  E(r) \in Scan(n, ranges, wtab)
    <2>1. r \in Span /\ InMap(r)
        BY <1>1
    <2>2. PICK i \in Index : i \in Buckets(r[1], r[2]) /\ i \in Buckets(t[1], t[2])
        BY <1>4, <2>1, ShareBucket
    <2>3. E(r) \in wtab[i]
        BY <1>1, <1>2, <1>3, <2>1, <2>2 DEF Entries, fi
    <2>4. E(r).lo < t[2] /\ t[1] < E(r).hi /\ E(r).node # n
        BY <1>4
    <2> HIDE DEF E
    <2> QED
        BY <2>2, <2>3, <2>4 DEF Scan
<1>5. ASSUME NEW ranges, NEW r \in P.body.reads, NEW t \in ranges, t \in Span,
             r[1] < t[2], t[1] < r[2]
      PROVE  E(r) \in Scan(n, ranges, rtab)
    <2>1. r \in Span /\ InMap(r)
        BY <1>1
    <2>2. PICK i \in Index : i \in Buckets(r[1], r[2]) /\ i \in Buckets(t[1], t[2])
        BY <1>5, <2>1, ShareBucket
    <2>3. E(r) \in rtab[i]
        BY <1>1, <1>2, <1>3, <2>1, <2>2 DEF Entries, fi
    <2>4. E(r).lo < t[2] /\ t[1] < E(r).hi /\ E(r).node # n
        BY <1>5
    <2> HIDE DEF E
    <2> QED
        BY <2>2, <2>3, <2>4 DEF Scan
<1> HIDE DEF E
<1>6. \E r \in Span : E(r) \in Found(n, body)
    <2>1. CASE \E r \in P.body.writes, t \in body.reads : r[1] < t[2] /\ t[1] < r[2]
        BY <1>1, <1>4, <2>1 DEF Found
    <2>2. CASE \E r \in P.body.writes, t \in body.writes : r[1] < t[2] /\ t[1] < r[2]
        BY <1>1, <1>4, <2>2 DEF Found
    <2>3. CASE \E r \in P.body.reads, t \in body.writes : r[1] < t[2] /\ t[1] < r[2]
        BY <1>1, <1>5, <2>3 DEF Found
    <2> QED
        BY <2>1, <2>2, <2>3 DEF Clash
<1> QED
    BY <1>2, <1>6

\* So deps returns what ChunkSync asks for, for the part about to be emitted.
LEMMA DepsRight ==
    ASSUME IInv, sync = "deps", NEW n \in Node, NEW body \in Body, NEW ps,
           Len(ps) = fi + 1, \A q \in 1 .. fi : ps[q] = parts[q],
           ps[fi + 1].node = n, ps[fi + 1].body = body, ps[fi + 1].stage = stage
    PROVE  Deps(n, body) = DepsOf(ps, fi + 1)
<1>1. fi \in Nat /\ stage \in Nat
    BY DEF IInv, StagesOK, fi
<1>2. \A p \in 1 .. fi : p \in HitsOf(ps, fi + 1) <=>
          parts[p].node # n /\ parts[p].stage < stage /\ Clash(parts[p].body, body)
    <2>1. SUFFICES ASSUME NEW p \in 1 .. fi
                   PROVE  p \in HitsOf(ps, fi + 1) <=>
                     parts[p].node # n /\ parts[p].stage < stage /\ Clash(parts[p].body, body)
        OBVIOUS
    <2>2. ps[p] = parts[p] /\ p \in 1 .. Len(ps) /\ parts[p].body \in Body
        BY <1>1, PartTypes
    <2>3. Clash(parts[p].body, body) <=> ClashBeats(parts[p].body, body)
        BY <2>2, ClashInBeats
    <2> QED
        BY <2>2, <2>3 DEF HitsOf
<1>3. HitsOf(ps, fi + 1) \subseteq 1 .. fi
    <2>1. SUFFICES ASSUME NEW p \in HitsOf(ps, fi + 1) PROVE p # fi + 1
        BY <1>1 DEF HitsOf
    <2> QED
        BY DEF HitsOf
<1> DEFINE H == HitsOf(ps, fi + 1)
           F == Found(n, body)
<1>4. \A e \in F : e.seq \in H /\ e.node = parts[e.seq].node
    BY <1>2, ScanFinds
<1>5. \A p \in H : \E e \in F : e.seq = p /\ e.node = parts[p].node
    BY <1>2, <1>3, ScanMisses
<1>6. DepsOf(ps, fi + 1) = {p \in H : \A r \in H : parts[r].node = parts[p].node => r <= p}
    BY <1>3 DEF DepsOf
<1>7. Deps(n, body) = {e.seq : e \in {f \in F : \A g \in F : g.node = f.node => g.seq <= f.seq}}
    BY DEF Deps
<1> HIDE DEF H, F
<1>8. ASSUME NEW p \in Deps(n, body) PROVE p \in DepsOf(ps, fi + 1)
    <2>1. PICK e \in F : e.seq = p /\ \A g \in F : g.node = e.node => g.seq <= e.seq
        BY <1>7, <1>8
    <2>2. p \in H /\ e.node = parts[p].node
        BY <1>4, <2>1
    <2>3. ASSUME NEW r \in H, parts[r].node = parts[p].node PROVE r <= p
        <3>1. PICK g \in F : g.seq = r /\ g.node = parts[r].node
            BY <1>5
        <3> QED
            BY <2>1, <2>2, <2>3, <3>1
    <2> QED
        BY <1>6, <2>2, <2>3
<1>9. ASSUME NEW p \in DepsOf(ps, fi + 1) PROVE p \in Deps(n, body)
    <2>1. p \in H /\ \A r \in H : parts[r].node = parts[p].node => r <= p
        BY <1>6, <1>9
    <2>2. PICK e \in F : e.seq = p /\ e.node = parts[p].node
        BY <1>5, <2>1
    <2>3. \A g \in F : g.node = e.node => g.seq <= e.seq
        BY <1>4, <2>1, <2>2
    <2> QED
        BY <1>7, <2>2, <2>3
<1> QED
    BY <1>8, <1>9

(***************************************************************************)
(* The inductive invariant.                                                *)
(***************************************************************************)
\* The parts of the stage being emitted.
LEMMA StageSets ==
    ASSUME IInv
    PROVE  /\ fi \in Nat /\ stage \in Nat \ {0}
           /\ \A q \in 1 .. fi : parts[q].stage \in Nat \ {0} /\ parts[q].stage <= stage
           /\ {q \in 1 .. fi : InStage(q)} = {q \in 1 .. fi : parts[q].stage = stage}
<1>1. fi \in Nat /\ stage \in Nat \ {0}
    BY DEF IInv, StagesOK, fi
<1> QED
    BY <1>1 DEF IInv, StagesOK, InStage

\* Emitting a part keeps the invariant: its WAITs are those of the plan, and it
\* changes the plan of no part before it.
LEMMA EmitStep ==
    ASSUME IInv, NEW n \in Node, NEW body \in Body, EmitPart(n, body)
    PROVE  IInv'
<1> DEFINE w == IF sync = "deps" THEN Deps(n, body) ELSE prev
           x == [stage |-> stage, node |-> n, body |-> body, waits |-> w]
<1>1. fi \in Nat /\ stage \in Nat \ {0} /\ parts \in Seq(PartRec)
    BY StageSets DEF IInv
<1>2. parts' = Append(parts, x) /\ UNCHANGED <<sync, stage, wtab, rtab, prev>>
    BY DEF EmitPart
<1>3. x.stage = stage /\ x.node = n /\ x.body = body /\ x.waits = w
    OBVIOUS
<1>4. w \in SUBSET Nat
    <2>1. CASE sync = "deps"
        <3>1. \A e \in Found(n, body) : e.seq \in Nat
            BY <1>1, <2>1, ScanFinds
        <3> QED
            BY <2>1, <3>1 DEF Deps
    <2>2. CASE sync # "deps"
        BY <1>1, <2>2 DEF IInv, StagesOK
    <2> QED
        BY <2>1, <2>2
<1>5. x \in PartRec
    BY <1>1, <1>4 DEF PartRec
<1> HIDE DEF x, w
<1>6. /\ parts' \in Seq(PartRec) /\ fi' = fi + 1 /\ Len(parts') = fi + 1
      /\ parts'[fi + 1] = x /\ \A q \in 1 .. fi : parts'[q] = parts[q]
    BY <1>1, <1>2, <1>5 DEF fi
<1>7. \A q \in 1 .. fi : parts[q].stage \in Nat \ {0} /\ parts[q].stage <= stage
    BY StageSets
<1>8. StagesOK'
    <2>1. \A q \in 1 .. fi + 1 : parts'[q].stage \in 1 .. stage
        BY <1>1, <1>3, <1>6, <1>7
    <2>2. \A p, q \in 1 .. fi + 1 : p < q => parts'[p].stage <= parts'[q].stage
        <3>1. SUFFICES ASSUME NEW p \in 1 .. fi + 1, NEW q \in 1 .. fi + 1, p < q
                       PROVE  parts'[p].stage <= parts'[q].stage
            OBVIOUS
        <3>2. p \in 1 .. fi
            BY <1>1, <3>1
        <3>3. CASE q = fi + 1
            BY <1>3, <1>6, <1>7, <3>2, <3>3
        <3>4. CASE q # fi + 1
            <4>1. q \in 1 .. fi
                BY <1>1, <3>4
            <4> QED
                BY <1>6, <3>1, <3>2, <4>1 DEF IInv, StagesOK
        <3> QED
            BY <3>3, <3>4
    <2>3. \A k \in 1 .. stage - 1 : \E q \in 1 .. fi + 1 : parts'[q].stage = k
        <3>1. \A k \in 1 .. stage - 1 : \E q \in 1 .. fi : parts[q].stage = k
            BY DEF IInv, StagesOK
        <3>2. \A q \in 1 .. fi : q \in 1 .. fi + 1
            BY <1>1
        <3> QED
            BY <1>6, <3>1, <3>2
    <2>4. prev = {q \in 1 .. fi + 1 : parts'[q].stage = stage - 1}
        <3>1. prev = {q \in 1 .. fi : parts[q].stage = stage - 1}
            BY DEF IInv, StagesOK
        <3>2. x.stage # stage - 1
            BY <1>1, <1>3
        <3>3. \A q \in 1 .. fi + 1 : q \in 1 .. fi \/ q = fi + 1
            BY <1>1
        <3>4. \A q \in 1 .. fi : q \in 1 .. fi + 1
            BY <1>1
        <3> QED
            BY <1>6, <3>1, <3>2, <3>3, <3>4
    <2> QED
        BY <1>1, <1>2, <1>6, <2>1, <2>2, <2>3, <2>4 DEF StagesOK
<1>9. \A i \in Index : /\ Entries(parts', stage, i).w = Entries(parts, stage, i).w
                        /\ Entries(parts', stage, i).r = Entries(parts, stage, i).r
    <2>1. ASSUME NEW k \in Nat
          PROVE  /\ (k \in 1 .. Len(parts') /\ parts'[k].stage < stage)
                        <=> (k \in 1 .. Len(parts) /\ parts[k].stage < stage)
                 /\ k \in 1 .. Len(parts) => parts'[k] = parts[k]
        <3>1. Len(parts) = fi /\ (k \in 1 .. fi + 1 <=> k \in 1 .. fi \/ k = fi + 1)
            BY <1>1 DEF fi
        <3>2. ~ (x.stage < stage) /\ fi + 1 \notin 1 .. fi
            BY <1>1, <1>3
        <3>3. CASE k = fi + 1
            BY <1>6, <3>1, <3>2, <3>3
        <3>4. CASE k # fi + 1
            BY <1>6, <3>1, <3>4
        <3> QED
            BY <3>3, <3>4
    <2>2. \A e \in Entry : e.seq \in Nat
        BY DEF Entry
    <2>3. SUFFICES ASSUME NEW i \in Index
                   PROVE  /\ Entries(parts', stage, i).w = Entries(parts, stage, i).w
                          /\ Entries(parts', stage, i).r = Entries(parts, stage, i).r
        OBVIOUS
    <2>4. \A e \in Entry : e \in Entries(parts', stage, i).w <=> e \in Entries(parts, stage, i).w
        BY <2>1, <2>2 DEF Entries
    <2>5. \A e \in Entry : e \in Entries(parts', stage, i).r <=> e \in Entries(parts, stage, i).r
        BY <2>1, <2>2 DEF Entries
    <2>6. /\ Entries(parts', stage, i).w \subseteq Entry /\ Entries(parts, stage, i).w \subseteq Entry
          /\ Entries(parts', stage, i).r \subseteq Entry /\ Entries(parts, stage, i).r \subseteq Entry
        BY DEF Entries
    <2> QED
        BY <2>4, <2>5, <2>6
<1>10. TablesOK'
    BY <1>2, <1>9 DEF IInv, TablesOK
<1>11. WaitsOK'
    <2>1. ASSUME NEW q \in 1 .. fi
          PROVE  FlagsOf(parts', q) = FlagsOf(parts, q) /\ HitsOf(parts', q) = HitsOf(parts, q)
        <3>1. parts'[q] = parts[q] /\ parts[q].stage \in Nat /\ parts[q].stage <= stage
            BY <1>6, <1>7
        <3>2. x.stage # parts[q].stage - 1 /\ ~ (x.stage < parts[q].stage)
            BY <1>1, <1>3, <3>1
        <3>3. \A k : k \in 1 .. fi + 1 <=> k \in 1 .. fi \/ k = fi + 1
            BY <1>1
        <3>4. Len(parts) = fi
            BY DEF fi
        <3>5. FlagsOf(parts', q) = FlagsOf(parts, q)
            BY <1>6, <3>1, <3>2, <3>3, <3>4 DEF FlagsOf
        <3>6. HitsOf(parts', q) = HitsOf(parts, q)
            BY <1>6, <3>1, <3>2, <3>3, <3>4 DEF HitsOf
        <3> QED
            BY <3>5, <3>6
    <2>2. ASSUME NEW q \in 1 .. fi PROVE DepsOf(parts', q) = DepsOf(parts, q)
        <3>1. HitsOf(parts, q) \subseteq 1 .. fi
            BY DEF HitsOf, fi
        <3> QED
            BY <1>6, <2>1, <3>1 DEF DepsOf
    <2>3. parts'[fi + 1].waits = IF sync = "barrier" THEN FlagsOf(parts', fi + 1) ELSE DepsOf(parts', fi + 1)
        <3>1. CASE sync = "deps"
            <4>1. w = Deps(n, body)
                BY <3>1 DEF w
            <4>2. Deps(n, body) = DepsOf(parts', fi + 1)
                BY <1>3, <1>6, <3>1, DepsRight
            <4> QED
                BY <1>3, <1>6, <3>1, <4>1, <4>2
        <3>2. CASE sync = "barrier"
            <4>1. w = prev
                BY <3>2 DEF w
            <4>2. prev' = FlagsOf(parts', fi + 1)
                BY <1>2, <1>3, <1>6, <1>8 DEF StagesOK, FlagsOf
            <4> QED
                BY <1>2, <1>3, <1>6, <3>2, <4>1, <4>2
        <3> QED
            BY <3>1, <3>2 DEF IInv
    <2>4. \A q \in 1 .. fi + 1 : q \in 1 .. fi \/ q = fi + 1
        BY <1>1
    <2>5. \A q \in 1 .. fi : parts'[q].waits =
                IF sync = "barrier" THEN FlagsOf(parts', q) ELSE DepsOf(parts', q)
        BY <1>6, <2>1, <2>2 DEF IInv, WaitsOK
    <2> QED
        BY <1>2, <1>6, <2>3, <2>4, <2>5 DEF WaitsOK
<1> QED
    BY <1>2, <1>6, <1>8, <1>10, <1>11 DEF IInv

\* Closing a stage keeps the invariant: the tables now hold all its accesses.
LEMMA CloseStep ==
    ASSUME IInv, CloseStage
    PROVE  IInv'
<1> DEFINE H == {q \in 1 .. fi : InStage(q)}
<1>1. /\ fi \in Nat /\ stage \in Nat \ {0} /\ parts' = parts /\ sync' = sync /\ fi' = fi
      /\ stage' = stage + 1 /\ prev' = H
      /\ H = {q \in 1 .. fi : parts[q].stage = stage} /\ H # {}
    BY StageSets DEF CloseStage, fi
<1>2. \A q \in 1 .. fi : parts[q].stage \in Nat \ {0} /\ parts[q].stage <= stage
    BY StageSets
<1>3. StagesOK'
    <2>1. \A k \in 1 .. stage : k \in 1 .. stage - 1 \/ k = stage
        BY <1>1
    <2>2. \A k \in 1 .. stage : \E q \in 1 .. fi : parts[q].stage = k
        BY <1>1, <2>1 DEF IInv, StagesOK
    <2>3. \A q \in 1 .. fi : parts[q].stage \in 1 .. stage + 1
        BY <1>1, <1>2
    <2>4. stage + 1 - 1 = stage /\ stage + 1 \in Nat \ {0}
        BY <1>1
    <2>5. \A p, q \in 1 .. fi : p < q => parts[p].stage <= parts[q].stage
        BY DEF IInv, StagesOK
    <2> QED
        BY <1>1, <2>2, <2>3, <2>4, <2>5 DEF StagesOK
<1>4. WaitsOK'
    BY <1>1 DEF IInv, WaitsOK
<1>5. TablesOK'
    <2>1. SUFFICES ASSUME sync = "deps", NEW i \in Index
                   PROVE  /\ wtab'[i] = Entries(parts, stage + 1, i).w
                          /\ rtab'[i] = Entries(parts, stage + 1, i).r
        BY <1>1 DEF TablesOK
    <2>2. /\ wtab'[i] = wtab[i] \cup UNION {Added(q, parts[q].body.writes, i) : q \in H}
          /\ rtab'[i] = rtab[i] \cup UNION {Added(q, parts[q].body.reads, i) : q \in H}
        BY <2>1 DEF CloseStage
    <2>3. wtab[i] = Entries(parts, stage, i).w /\ rtab[i] = Entries(parts, stage, i).r
        BY <2>1 DEF IInv, TablesOK
    <2>4. ASSUME NEW q \in H, NEW ranges \in SUBSET Span, NEW e
          PROVE  e \in Added(q, ranges, i) <=>
                    /\ e \in Entry /\ e.seq = q /\ e.node = parts[q].node
                    /\ <<e.lo, e.hi>> \in ranges /\ i \in Buckets(e.lo, e.hi)
        <3>1. parts[q].node \in Node /\ q \in Nat
            BY <1>1, PartTypes
        <3>2. ASSUME e \in Added(q, ranges, i)
              PROVE  /\ e \in Entry /\ e.seq = q /\ e.node = parts[q].node
                     /\ <<e.lo, e.hi>> \in ranges /\ i \in Buckets(e.lo, e.hi)
            <4>1. PICK r \in ranges : /\ i \in Buckets(r[1], r[2])
                                      /\ e = [lo |-> r[1], hi |-> r[2], node |-> parts[q].node, seq |-> q]
                BY <3>2 DEF Added
            <4>2. r[1] \in Nat /\ r[2] \in Nat /\ r = <<r[1], r[2]>>
                BY DEF Span
            <4> QED
                BY <3>1, <4>1, <4>2 DEF Entry
        <3>3. ASSUME /\ e \in Entry /\ e.seq = q /\ e.node = parts[q].node
                     /\ <<e.lo, e.hi>> \in ranges /\ i \in Buckets(e.lo, e.hi)
              PROVE  e \in Added(q, ranges, i)
            <4>1. e = [lo |-> e.lo, hi |-> e.hi, node |-> parts[q].node, seq |-> q]
                BY <3>3 DEF Entry
            <4> DEFINE r == <<e.lo, e.hi>>
            <4>2. r \in ranges /\ r[1] = e.lo /\ r[2] = e.hi
                BY <3>3
            <4> QED
                BY <3>3, <4>1, <4>2 DEF Added
        <3> QED
            BY <3>2, <3>3
    <2>5. \A q \in H : parts[q].body.writes \subseteq Span /\ parts[q].body.reads \subseteq Span
        BY <1>1, PartTypes, BodyAssumption
    <2>6. \A k \in Nat : k \in 1 .. fi /\ parts[k].stage < stage + 1
                            <=> (k \in 1 .. fi /\ parts[k].stage < stage) \/ k \in H
        BY <1>1, <1>2
    <2>7. Len(parts) = fi /\ \A e \in Entry : e.seq \in Nat
        BY DEF fi, Entry
    <2> HIDE DEF H
    <2>8. ASSUME NEW e PROVE e \in wtab'[i] <=> e \in Entries(parts, stage + 1, i).w
        <3>1. e \in wtab'[i] <=> \/ e \in Entries(parts, stage, i).w
                                 \/ \E q \in H : e \in Added(q, parts[q].body.writes, i)
            BY <2>2, <2>3
        <3>2. (\E q \in H : e \in Added(q, parts[q].body.writes, i)) <=>
                /\ e \in Entry /\ e.seq \in H /\ e.node = parts[e.seq].node
                /\ <<e.lo, e.hi>> \in parts[e.seq].body.writes /\ i \in Buckets(e.lo, e.hi)
            BY <2>4, <2>5
        <3>3. e \in Entries(parts, stage, i).w <=>
                /\ e \in Entry /\ e.seq \in 1 .. fi /\ parts[e.seq].stage < stage
                /\ e.node = parts[e.seq].node
                /\ <<e.lo, e.hi>> \in parts[e.seq].body.writes /\ i \in Buckets(e.lo, e.hi)
            BY <2>7 DEF Entries
        <3>4. e \in Entries(parts, stage + 1, i).w <=>
                /\ e \in Entry /\ e.seq \in 1 .. fi /\ parts[e.seq].stage < stage + 1
                /\ e.node = parts[e.seq].node
                /\ <<e.lo, e.hi>> \in parts[e.seq].body.writes /\ i \in Buckets(e.lo, e.hi)
            BY <2>7 DEF Entries
        <3> QED
            BY <2>6, <2>7, <3>1, <3>2, <3>3, <3>4
    <2>9. ASSUME NEW e PROVE e \in rtab'[i] <=> e \in Entries(parts, stage + 1, i).r
        <3>1. e \in rtab'[i] <=> \/ e \in Entries(parts, stage, i).r
                                 \/ \E q \in H : e \in Added(q, parts[q].body.reads, i)
            BY <2>2, <2>3
        <3>2. (\E q \in H : e \in Added(q, parts[q].body.reads, i)) <=>
                /\ e \in Entry /\ e.seq \in H /\ e.node = parts[e.seq].node
                /\ <<e.lo, e.hi>> \in parts[e.seq].body.reads /\ i \in Buckets(e.lo, e.hi)
            BY <2>4, <2>5
        <3>3. e \in Entries(parts, stage, i).r <=>
                /\ e \in Entry /\ e.seq \in 1 .. fi /\ parts[e.seq].stage < stage
                /\ e.node = parts[e.seq].node
                /\ <<e.lo, e.hi>> \in parts[e.seq].body.reads /\ i \in Buckets(e.lo, e.hi)
            BY <2>7 DEF Entries
        <3>4. e \in Entries(parts, stage + 1, i).r <=>
                /\ e \in Entry /\ e.seq \in 1 .. fi /\ parts[e.seq].stage < stage + 1
                /\ e.node = parts[e.seq].node
                /\ <<e.lo, e.hi>> \in parts[e.seq].body.reads /\ i \in Buckets(e.lo, e.hi)
            BY <2>7 DEF Entries
        <3> QED
            BY <2>6, <2>7, <3>1, <3>2, <3>3, <3>4
    <2> QED
        BY <2>8, <2>9
<1> QED
    BY <1>1, <1>3, <1>4, <1>5 DEF IInv

\* The invariant holds before the first part.
LEMMA InitInv == Init => IInv
<1> SUFFICES ASSUME Init PROVE IInv
    OBVIOUS
<1>1. parts = <<>> /\ fi = 0 /\ stage = 1 /\ prev = {} /\ 1 .. 0 = {}
    BY DEF Init, fi
<1>2. parts \in Seq(PartRec) /\ sync \in {"barrier", "deps"}
    BY <1>1 DEF Init
<1>3. StagesOK
    BY <1>1 DEF StagesOK
<1>4. WaitsOK
    BY <1>1 DEF WaitsOK
<1>5. TablesOK
    <2>1. \A i \in Index : Entries(parts, stage, i).w = {} /\ Entries(parts, stage, i).r = {}
        BY <1>1 DEF Entries, fi
    <2> QED
        BY <2>1 DEF TablesOK, Init
<1> QED
    BY <1>2, <1>3, <1>4, <1>5 DEF IInv

\* IInv is an invariant.
THEOREM Invariance == Spec => []IInv
<1>1. IInv /\ [Next]_vars => IInv'
    <2> SUFFICES ASSUME IInv, [Next]_vars PROVE IInv'
        OBVIOUS
    <2>1. CASE CloseStage
        BY <2>1, CloseStep
    <2>2. ASSUME NEW n \in Node, NEW body \in Body, EmitPart(n, body) PROVE IInv'
        BY <2>2, EmitStep
    <2>3. CASE UNCHANGED vars
        BY <2>3 DEF vars, IInv, StagesOK, TablesOK, WaitsOK, fi
    <2> QED
        BY <2>1, <2>2, <2>3 DEF Next
<1> QED
    BY InitInv, <1>1, PTL DEF Spec

\* In every chunk, at every moment of the generator, every part emitted waits
\* for exactly the flags that ChunkSync names.
THEOREM WaitsArePlanned == Spec => []WaitsAsPlanned
<1>1. IInv => WaitsAsPlanned
    <2> SUFFICES ASSUME IInv PROVE WaitsAsPlanned
        OBVIOUS
    <2>1. fi \in Nat /\ stage \in Nat \ {0} /\ Len(parts) = fi
        BY StageSets DEF fi
    <2>2. ASSUME NEW q \in 1 .. fi PROVE parts[q].waits = Plan!Waits(q)
        <3>1. CASE sync = "barrier"
            <4>1. Plan!Waits(q) = FlagsOf(parts, q)
                BY <2>1, <3>1 DEF Plan!Waits, Plan!BarrierWaits, Plan!Part, FlagsOf
            <4> QED
                BY <3>1, <4>1 DEF IInv, WaitsOK
        <3>2. CASE sync # "barrier"
            <4>1. Plan!Hits(q) = HitsOf(parts, q)
                BY <2>1 DEF Plan!Hits, Plan!SpanConflict, Plan!Part, HitsOf, ClashBeats, WriteBeats, ReadBeats
            <4>2. HitsOf(parts, q) \subseteq 1 .. fi
                BY <2>1 DEF HitsOf
            <4>3. Plan!Waits(q) = DepsOf(parts, q)
                BY <3>2, <4>1, <4>2 DEF Plan!Waits, Plan!DepsWaits, DepsOf
            <4> QED
                BY <3>2, <4>3 DEF IInv, WaitsOK
        <3> QED
            BY <3>1, <3>2
    <2>3. Plan!StageOrder
        BY DEF Plan!StageOrder, Plan!Part, IInv, StagesOK
    <2>4. Plan!NoEmptyStage
        <3>1. SUFFICES ASSUME NEW q \in 1 .. fi, parts[q].stage > 1
                       PROVE  \E p \in 1 .. fi : parts[p].stage = parts[q].stage - 1
            BY DEF Plan!NoEmptyStage, Plan!Part
        <3>2. parts[q].stage - 1 \in 1 .. stage - 1
            BY <2>1, <3>1, StageSets
        <3> QED
            BY <3>2 DEF IInv, StagesOK
    <2> QED
        BY <2>2, <2>3, <2>4 DEF WaitsAsPlanned
<1> QED
    BY <1>1, Invariance, PTL

(***************************************************************************)
(* What is posted before a part starts.                                    *)
(***************************************************************************)
\* What holds part q back directly, and the recursive function of Earlier on
\* the first m parts.
Direct(q) == parts[q].waits \cup {p \in 1 .. q - 1 : parts[p].node = parts[q].node}

EarlierOf(f, m) == f = [q \in 1 .. m |-> Direct(q) \cup UNION {f[p] : p \in Direct(q)}]

\* Nothing waits for a later part, nor for itself.
LEMMA DirectIsBefore ==
    ASSUME IInv, NEW q \in 1 .. fi
    PROVE  Direct(q) \subseteq 1 .. q - 1
<1>1. \A p, r \in 1 .. fi : p < r => parts[p].stage <= parts[r].stage
    BY DEF IInv, StagesOK
<1>2. fi \in Nat /\ \A p \in 1 .. fi : parts[p].stage \in Nat
    BY StageSets, PartTypes
<1>3. \A p \in parts[q].waits : p \in 1 .. fi /\ parts[p].stage < parts[q].stage
    <2>1. CASE sync = "barrier"
        <3>1. parts[q].waits = FlagsOf(parts, q)
            BY <2>1 DEF IInv, WaitsOK
        <3> QED
            BY <1>2, <3>1 DEF FlagsOf, fi
    <2>2. CASE sync = "deps"
        <3>1. parts[q].waits = DepsOf(parts, q)
            BY <2>2 DEF IInv, WaitsOK
        <3>2. DepsOf(parts, q) \subseteq HitsOf(parts, q)
            BY DEF DepsOf
        <3> QED
            BY <3>1, <3>2 DEF HitsOf, fi
    <2> QED
        BY <2>1, <2>2 DEF IInv
<1>4. ASSUME NEW p \in parts[q].waits PROVE p \in 1 .. q - 1
    BY <1>1, <1>2, <1>3
<1> QED
    BY <1>4 DEF Direct

\* The recursion of Earlier is well founded: a function that obeys it exists.
LEMMA EarlierExists ==
    ASSUME IInv
    PROVE  \E f : EarlierOf(f, fi)
<1>1. fi \in Nat
    BY StageSets
<1> DEFINE S == {m \in 0 .. fi : ~ \E f : EarlierOf(f, m)}
<1>2. SUFFICES ASSUME S # {} PROVE FALSE
    BY <1>1
<1>3. PICK m \in S : \A p \in S : m <= p
    <2>1. S \in SUBSET (0 .. fi) /\ 0 \in Int /\ fi \in Int
        BY <1>1
    <2> HIDE DEF S
    <2> QED
        BY <1>2, <2>1, LeastNumber
<1>4. CASE m = 0
    <2> DEFINE g == [q \in 1 .. 0 |-> {}]
    <2>1. g = [q \in 1 .. m |-> Direct(q) \cup UNION {g[p] : p \in Direct(q)}]
        BY <1>4
    <2> HIDE DEF g
    <2>2. EarlierOf(g, m)
        BY <2>1 DEF EarlierOf
    <2> QED
        BY <2>2
<1>5. CASE m # 0
    <2>1. m - 1 \in 0 .. fi /\ m - 1 < m /\ m \in 1 .. fi
        BY <1>1, <1>5
    <2>2. m - 1 \notin S
        BY <1>3, <2>1
    <2>3. PICK f : EarlierOf(f, m - 1)
        BY <2>1, <2>2
    <2>4. \A q \in 1 .. m - 1 : f[q] = Direct(q) \cup UNION {f[p] : p \in Direct(q)}
        BY <2>3 DEF EarlierOf
    <2> DEFINE last == Direct(m) \cup UNION {f[p] : p \in Direct(m)}
               g == [q \in 1 .. m |-> IF q = m THEN last ELSE f[q]]
    <2>5. \A q \in 1 .. m - 1 : g[q] = f[q]
        BY <2>1
    <2>6. g[m] = last
        BY <2>1
    <2>7. ASSUME NEW q \in 1 .. m
          PROVE  g[q] = Direct(q) \cup UNION {g[p] : p \in Direct(q)}
        <3>1. Direct(q) \subseteq 1 .. q - 1 /\ 1 .. q - 1 \subseteq 1 .. m - 1
            BY <2>1, <1>1, DirectIsBefore
        <3>2. {g[p] : p \in Direct(q)} = {f[p] : p \in Direct(q)}
            <4> HIDE DEF g
            <4> QED
                BY <2>5, <3>1
        <3>3. CASE q = m
            <4> HIDE DEF g
            <4> QED
                BY <2>6, <3>2, <3>3
        <3>4. CASE q # m
            <4>1. q \in 1 .. m - 1
                BY <2>1, <3>4
            <4> HIDE DEF g, last
            <4> QED
                BY <2>4, <2>5, <3>2, <4>1
        <3> QED
            BY <3>3, <3>4
    <2>8. g = [q \in 1 .. m |-> g[q]]
        OBVIOUS
    <2> HIDE DEF g
    <2>9. EarlierOf(g, m)
        BY <2>7, <2>8 DEF EarlierOf
    <2> QED
        BY <2>9
<1> QED
    BY <1>4, <1>5

\* So Earlier holds what holds a part back directly and what is earlier than that.
LEMMA EarlierIs ==
    ASSUME IInv, NEW q \in 1 .. fi
    PROVE  Earlier[q] = Direct(q) \cup UNION {Earlier[p] : p \in Direct(q)}
<1> DEFINE f == CHOOSE g : EarlierOf(g, fi)
<1>1. EarlierOf(f, fi)
    BY EarlierExists
<1>2. Earlier = f
    BY DEF Earlier, EarlierOf, Direct
<1> HIDE DEF f
<1> QED
    BY <1>1, <1>2 DEF EarlierOf

\* What a part waits for, and what its node's program has before it, is earlier.
LEMMA DirectIsEarlier ==
    ASSUME IInv, NEW q \in 1 .. fi, NEW p \in 1 .. fi
    PROVE  /\ p \in parts[q].waits => p \in Earlier[q] /\ Earlier[p] \subseteq Earlier[q]
           /\ p < q /\ parts[p].node = parts[q].node => p \in Earlier[q]
<1>1. Earlier[q] = Direct(q) \cup UNION {Earlier[r] : r \in Direct(q)}
    BY EarlierIs
<1>2. p < q /\ parts[p].node = parts[q].node => p \in Direct(q)
    BY StageSets DEF Direct
<1>3. p \in parts[q].waits => p \in Direct(q)
    BY DEF Direct
<1> QED
    BY <1>1, <1>2, <1>3

\* Barrier mode: the flags of the stage before stand for all stages before.
LEMMA BarrierOrders ==
    ASSUME IInv, sync = "barrier", NEW q \in 1 .. fi, NEW p \in 1 .. fi,
           parts[p].stage < parts[q].stage
    PROVE  p \in Earlier[q]
<1>1. /\ fi \in Nat /\ stage \in Nat \ {0}
      /\ \A r \in 1 .. fi : parts[r].stage \in Nat \ {0} /\ parts[r].stage <= stage
    BY StageSets
<1> DEFINE Late(r) == parts[p].stage < parts[r].stage /\ p \notin Earlier[r]
           S == {r \in 1 .. fi : Late(r)}
<1>2. SUFFICES ASSUME S # {} PROVE FALSE
    OBVIOUS
<1>3. PICK m \in S : \A r \in S : m <= r
    <2>1. S \in SUBSET (1 .. fi) /\ 1 \in Int /\ fi \in Int
        BY <1>1
    <2> HIDE DEF S
    <2> QED
        BY <1>2, <2>1, LeastNumber
<1>4. m \in 1 .. fi /\ parts[p].stage < parts[m].stage /\ p \notin Earlier[m]
    OBVIOUS
<1>5. PICK r \in 1 .. fi : parts[r].stage = parts[m].stage - 1
    <2>1. parts[m].stage - 1 \in 1 .. stage - 1
        BY <1>1, <1>4
    <2> QED
        BY <2>1 DEF IInv, StagesOK
<1>6. r \in parts[m].waits
    BY <1>4, <1>5 DEF IInv, WaitsOK, FlagsOf, fi
<1>7. r \in Earlier[m] /\ Earlier[r] \subseteq Earlier[m]
    BY <1>4, <1>6, DirectIsEarlier
<1>8. CASE parts[r].stage = parts[p].stage
    <2>1. p \in parts[m].waits
        BY <1>4, <1>5, <1>8 DEF IInv, WaitsOK, FlagsOf, fi
    <2> QED
        BY <1>4, <2>1, DirectIsEarlier
<1>9. CASE parts[r].stage # parts[p].stage
    <2>1. parts[p].stage < parts[r].stage
        BY <1>1, <1>4, <1>5, <1>9
    <2>2. r < m
        <3>1. r \in 1 .. m - 1
            BY <1>4, <1>6, DirectIsBefore DEF Direct
        <3> QED
            BY <3>1
    <2>3. r \notin S
        BY <1>3, <2>2
    <2> QED
        BY <1>4, <1>7, <2>1, <2>3
<1> QED
    BY <1>8, <1>9

\* Deps mode: the latest conflicting part of the same node stands for the others.
LEMMA DepsOrder ==
    ASSUME IInv, sync = "deps", NEW q \in 1 .. fi, NEW p \in HitsOf(parts, q)
    PROVE  p \in Earlier[q]
<1>1. fi \in Nat /\ p \in 1 .. fi
    BY StageSets DEF HitsOf, fi
<1> DEFINE S == {r \in HitsOf(parts, q) : parts[r].node = parts[p].node}
<1>2. PICK m \in S : \A r \in S : r <= m
    <2>1. S \in SUBSET (1 .. fi) /\ 1 \in Int /\ fi \in Int /\ S # {}
        BY <1>1 DEF HitsOf, fi
    <2>2. \A lo, hi \in Int : \A T \in SUBSET (lo .. hi) : T # {} => \E u \in T : \A v \in T : v <= u
        BY GreatestNumber
    <2> HIDE DEF S
    <2> QED
        BY <2>1, <2>2
<1>3. m \in 1 .. fi /\ parts[m].node = parts[p].node /\ p <= m
    BY <1>2 DEF HitsOf, fi
<1>4. m \in parts[q].waits
    <2>1. m \in DepsOf(parts, q)
        BY <1>2 DEF DepsOf
    <2> QED
        BY <2>1 DEF IInv, WaitsOK
<1>5. m \in Earlier[q] /\ Earlier[m] \subseteq Earlier[q]
    BY <1>3, <1>4, DirectIsEarlier
<1>6. CASE p = m
    BY <1>5, <1>6
<1>7. CASE p # m
    <2>1. p < m
        BY <1>1, <1>3, <1>7
    <2> QED
        BY <1>1, <1>3, <1>5, <2>1, DirectIsEarlier
<1> QED
    BY <1>6, <1>7

\* The invariant orders every conflict.
LEMMA Chained == IInv => ConflictsChained
<1> SUFFICES ASSUME IInv, NEW q \in 1 .. fi, NEW p \in 1 .. q - 1,
                    parts[p].stage < parts[q].stage,
                    \/ Meet(parts[p].body.writes, parts[q].body.reads \cup parts[q].body.writes)
                    \/ Meet(parts[p].body.reads, parts[q].body.writes)
             PROVE  p \in Earlier[q]
    BY DEF ConflictsChained
<1>1. p \in 1 .. fi /\ p < q
    BY StageSets
<1>2. parts[p].body \in Body /\ parts[q].body \in Body
    BY <1>1, PartTypes
<1>3. Clash(parts[p].body, parts[q].body)
    BY DEF Meet, Clash
<1>4. CASE sync = "barrier"
    BY <1>1, <1>4, BarrierOrders
<1>5. CASE sync = "deps" /\ parts[p].node = parts[q].node
    BY <1>1, <1>5, DirectIsEarlier
<1>6. CASE sync = "deps" /\ parts[p].node # parts[q].node
    <2>1. ClashBeats(parts[p].body, parts[q].body)
        BY <1>2, <1>3, ClashInBeats
    <2>2. p \in HitsOf(parts, q)
        BY <1>1, <1>6, <2>1 DEF HitsOf, fi
    <2> QED
        BY <1>6, <2>2, DepsOrder
<1> QED
    BY <1>4, <1>5, <1>6 DEF IInv

\* Two parts of different stages that touch a common byte, one of them writing
\* it, are ordered by a chain of flags and programs: for every memory map, every
\* set of bodies and any number of parts, in both modes of --sync.
THEOREM ChunkIsChained == Spec => []ConflictsChained
    BY Invariance, Chained, PTL

(***************************************************************************)
(* Types.                                                                  *)
(***************************************************************************)
\* TypeOK with what makes it inductive: there are no more stages than parts.
TypeInv ==
    /\ TypeOK
    /\ stage <= fi + 1
    /\ \A q \in 1 .. fi : parts[q].stage <= q

\* The parts are records.
LEMMA PartFields ==
    ASSUME parts \in Seq(PartRec), NEW q \in 1 .. fi
    PROVE  parts[q].body \in Body /\ parts[q].node \in Node /\ q \in Nat
<1>1. parts[q] \in PartRec /\ q \in Nat
    BY DEF fi
<1> QED
    BY <1>1 DEF PartRec

\* The tables only ever get entries.
LEMMA AddedAreEntries ==
    ASSUME TypeOK, NEW q \in 1 .. fi, NEW ranges \in SUBSET Span, NEW i \in Index
    PROVE  Added(q, ranges, i) \subseteq Entry
<1>1. parts[q].node \in Node /\ q \in Nat
    BY PartFields DEF TypeOK
<1>2. \A r \in ranges : r[1] \in Nat /\ r[2] \in Nat
    BY DEF Span
<1> QED
    BY <1>1, <1>2 DEF Added, Entry

LEMMA TypeStep == TypeInv /\ [Next]_vars => TypeInv'
<1> SUFFICES ASSUME TypeInv, [Next]_vars PROVE TypeInv'
    OBVIOUS
<1>1. /\ sync \in {"barrier", "deps"} /\ parts \in Seq(PartRec) /\ fi <= MaxPart /\ fi \in Nat
      /\ stage \in 1 .. MaxPart + 1 /\ stage <= fi + 1
      /\ wtab \in [Index -> SUBSET Entry] /\ rtab \in [Index -> SUBSET Entry]
      /\ prev \subseteq 1 .. fi /\ \A q \in 1 .. fi : parts[q].stage <= q
      /\ MaxPart \in Nat
    BY BodyAssumption DEF TypeInv, TypeOK, fi
<1>2. ASSUME NEW n \in Node, NEW body \in Body, EmitPart(n, body) PROVE TypeInv'
    <2> DEFINE w == IF sync = "deps" THEN Deps(n, body) ELSE prev
               x == [stage |-> stage, node |-> n, body |-> body, waits |-> w]
    <2>1. fi < MaxPart /\ parts' = Append(parts, x) /\ UNCHANGED <<sync, stage, wtab, rtab, prev>>
        BY <1>2 DEF EmitPart
    <2>2. w \in SUBSET Nat
        <3>1. \A i \in Index : wtab[i] \subseteq Entry /\ rtab[i] \subseteq Entry
            BY <1>1
        <3>2. Found(n, body) \subseteq Entry
            BY <3>1 DEF Found, Scan
        <3>3. Deps(n, body) \subseteq Nat
            BY <3>2 DEF Deps, Entry
        <3> QED
            BY <1>1, <3>3
    <2>3. x \in PartRec /\ x.stage = stage
        BY <1>1, <2>2 DEF PartRec
    <2> HIDE DEF x, w
    <2>4. /\ parts' \in Seq(PartRec) /\ fi' = fi + 1 /\ parts'[fi + 1] = x
          /\ \A q \in 1 .. fi : parts'[q] = parts[q]
        BY <1>1, <2>1, <2>3 DEF fi
    <2>5. \A q \in 1 .. fi + 1 : parts'[q].stage <= q
        <3>1. \A q \in 1 .. fi + 1 : q \in 1 .. fi \/ q = fi + 1
            BY <1>1
        <3> QED
            BY <1>1, <2>3, <2>4, <3>1
    <2>6. prev' \subseteq 1 .. fi + 1 /\ fi + 1 <= MaxPart /\ stage' <= fi + 1 + 1
        BY <1>1, <2>1
    <2> QED
        BY <1>1, <2>1, <2>4, <2>5, <2>6 DEF TypeInv, TypeOK
<1>3. CASE CloseStage
    <2>1. PICK q \in 1 .. fi : parts[q].stage = stage
        BY <1>3 DEF CloseStage, InStage
    <2>2. /\ stage' = stage + 1 /\ parts' = parts /\ sync' = sync /\ fi' = fi
          /\ prev' = {p \in 1 .. fi : InStage(p)}
        BY <1>3 DEF CloseStage, fi
    <2>3. stage' \in 1 .. MaxPart + 1 /\ stage' <= fi' + 1
        BY <1>1, <2>1, <2>2
    <2>4. wtab' \in [Index -> SUBSET Entry] /\ rtab' \in [Index -> SUBSET Entry]
        <3>1. CASE sync = "deps"
            <4> DEFINE H == {p \in 1 .. fi : InStage(p)}
                       W(i) == UNION {Added(p, parts[p].body.writes, i) : p \in H}
                       R(i) == UNION {Added(p, parts[p].body.reads, i) : p \in H}
            <4>1. /\ wtab' = [i \in Index |-> wtab[i] \cup W(i)]
                  /\ rtab' = [i \in Index |-> rtab[i] \cup R(i)]
                BY <1>3, <3>1 DEF CloseStage
            <4>2. \A p \in H : /\ parts[p].body.writes \in SUBSET Span
                               /\ parts[p].body.reads \in SUBSET Span
                <5>1. \A p \in H : parts[p].body \in Body
                    BY <1>1, PartFields
                <5> QED
                    BY <5>1, BodyAssumption
            <4>3. \A i \in Index : W(i) \subseteq Entry /\ R(i) \subseteq Entry
                <5>1. \A i \in Index : \A p \in H : /\ Added(p, parts[p].body.writes, i) \subseteq Entry
                                                    /\ Added(p, parts[p].body.reads, i) \subseteq Entry
                    BY <4>2, AddedAreEntries DEF TypeInv
                <5> HIDE DEF H
                <5> QED
                    BY <5>1
            <4> HIDE DEF W, R
            <4> QED
                BY <1>1, <4>1, <4>3
        <3>2. CASE sync # "deps"
            BY <1>1, <1>3, <3>2 DEF CloseStage
        <3> QED
            BY <3>1, <3>2
    <2> QED
        BY <1>1, <2>2, <2>3, <2>4 DEF TypeInv, TypeOK
<1>4. CASE UNCHANGED vars
    BY <1>4 DEF vars, TypeInv, TypeOK, fi
<1> QED
    BY <1>2, <1>3, <1>4 DEF Next

\* The types hold, and there are at most as many stages as parts.
THEOREM TypeCorrect == Spec => []TypeOK
<1>1. Init => TypeInv
    <2> SUFFICES ASSUME Init PROVE TypeInv
        OBVIOUS
    <2>1. parts = <<>> /\ fi = 0 /\ stage = 1 /\ prev = {} /\ MaxPart \in Nat
        BY BodyAssumption DEF Init, fi
    <2>2. \A i \in Index : {} \in SUBSET Entry
        OBVIOUS
    <2>3. wtab \in [Index -> SUBSET Entry] /\ rtab \in [Index -> SUBSET Entry]
        BY <2>2 DEF Init
    <2>4. parts \in Seq(PartRec)
        BY <2>1
    <2> QED
        BY <2>1, <2>3, <2>4 DEF Init, TypeInv, TypeOK
<1>2. TypeInv => TypeOK
    BY DEF TypeInv
<1> QED
    BY <1>1, <1>2, TypeStep, PTL DEF Spec
=============================================================================
