-------------------------- MODULE StageSplitProofs --------------------------
(***************************************************************************)
(* The cut of a vector stage is sound for any stage, any number of nodes   *)
(* and any records that meet the assumptions: parts of a sub-stage are     *)
(* independent, every row is computed once, and every slice is aligned.    *)
(***************************************************************************)
EXTENDS StageSplit, NumberLemmas

(***************************************************************************)
(* Alignment.                                                              *)
(***************************************************************************)
\* Aligned addresses are the multiples of BEAT.
LEMMA AlignedIsMultiple ==
    ASSUME NEW x \in Nat
    PROVE  Aligned(x) <=> \E m \in Nat : x = m * BEAT
<1>1. BEAT \in Nat \ {0}
    BY RecordAssumption
<1>2. x \div BEAT \in Nat /\ x % BEAT \in 0 .. BEAT - 1 /\ x = ((x \div BEAT) * BEAT) + (x % BEAT)
    BY <1>1, DivMod
<1>3. ASSUME Aligned(x) PROVE \E m \in Nat : x = m * BEAT
    <2> DEFINE q == x \div BEAT
               u == q * BEAT
               r == x % BEAT
    <2>1. q \in Nat /\ u \in Int /\ r = 0 /\ x = u + r
        BY <1>1, <1>2, <1>3 DEF Aligned
    <2> HIDE DEF u, q, r
    <2>2. x = u
        BY <2>1
    <2> QED
        BY <2>1, <2>2 DEF u
<1>4. ASSUME NEW m \in Nat, x = m * BEAT PROVE Aligned(x)
    <2> DEFINE q == x \div BEAT
               r == x % BEAT
    <2>1. q \in Nat /\ r \in 0 .. BEAT - 1 /\ m * BEAT = (q * BEAT) + r
        BY <1>2, <1>4
    <2>2. m = q
        <3> HIDE DEF q, r
        <3> QED
            BY <1>1, <2>1, SameMultiple
    <2>3. r = 0
        <3> DEFINE u == m * BEAT
        <3>1. u = u + r /\ u \in Int /\ r \in Int
            BY <1>1, <2>1, <2>2
        <3> HIDE DEF u, q, r
        <3> QED
            BY <3>1
    <2> QED
        BY <2>3 DEF Aligned
<1> QED
    BY <1>3, <1>4

\* Sums, differences and multiples of aligned numbers are aligned.
LEMMA AlignedSum ==
    ASSUME NEW x \in Nat, NEW y \in Nat, Aligned(x)
    PROVE  Aligned(y) <=> Aligned(x + y)
<1>1. BEAT \in Nat \ {0} /\ x + y \in Nat
    BY RecordAssumption
<1>2. PICK m \in Nat : x = m * BEAT
    BY AlignedIsMultiple
<1>3. ASSUME Aligned(y) PROVE Aligned(x + y)
    <2>1. PICK n \in Nat : y = n * BEAT
        BY <1>3, AlignedIsMultiple
    <2>2. x + y = (m + n) * BEAT /\ m + n \in Nat
        BY <1>1, <1>2, <2>1, Distribute
    <2> QED
        BY <1>1, <2>2, AlignedIsMultiple
<1>4. ASSUME Aligned(x + y) PROVE Aligned(y)
    <2>1. PICK n \in Nat : x + y = n * BEAT
        BY <1>1, <1>4, AlignedIsMultiple
    <2>2. m <= n
        <3>1. CASE n < m
            <4>1. (n + 1) * BEAT <= m * BEAT /\ (n + 1) * BEAT = (n * BEAT) + BEAT
                BY <1>1, <3>1, TimesMonotone, Distribute
            <4> DEFINE u == n * BEAT
                       v == m * BEAT
            <4>2. u + BEAT <= v /\ v + y = u /\ u \in Int /\ v \in Int
                BY <1>1, <1>2, <2>1, <4>1
            <4> HIDE DEF u, v
            <4> QED
                BY <1>1, <4>2
        <3> QED
            BY <3>1
    <2>3. n - m \in Nat /\ n = (n - m) + m
        BY <2>2
    <2>4. n * BEAT = ((n - m) * BEAT) + (m * BEAT)
        BY <1>1, <2>3, Distribute
    <2>5. y = (n - m) * BEAT
        <3> DEFINE u == n * BEAT
                   v == m * BEAT
                   w == (n - m) * BEAT
        <3>1. u = w + v /\ v + y = u /\ u \in Int /\ v \in Int /\ w \in Int
            BY <1>1, <1>2, <2>1, <2>4
        <3> HIDE DEF u, v, w
        <3>2. y = w
            BY <3>1
        <3> QED
            BY <3>2 DEF w
    <2> QED
        BY <2>3, <2>5, AlignedIsMultiple
<1> QED
    BY <1>3, <1>4

\* A multiple of an aligned number is aligned.
LEMMA AlignedTimes ==
    ASSUME NEW n \in Nat, NEW x \in Nat, Aligned(x)
    PROVE  n * x \in Nat /\ Aligned(n * x)
<1>1. BEAT \in Nat \ {0}
    BY RecordAssumption
<1>2. PICK m \in Nat : x = m * BEAT
    BY AlignedIsMultiple
<1>3. n * m \in Nat /\ (n * m) * BEAT = n * (m * BEAT)
    BY <1>1, TimesAssoc
<1>4. n * x \in Nat
    BY TimesAssoc
<1> QED
    BY <1>2, <1>3, <1>4, AlignedIsMultiple

\* RoundUp gives the least aligned number that is not lower.
LEMMA RoundUpLeast ==
    ASSUME NEW x \in Nat
    PROVE  /\ RoundUp(x) \in Nat /\ Aligned(RoundUp(x)) /\ x <= RoundUp(x)
           /\ \A y \in Nat : Aligned(y) /\ x <= y => RoundUp(x) <= y
<1> DEFINE z == x + BEAT - 1
           q == z \div BEAT
<1>1. BEAT \in Nat \ {0} /\ z \in Nat
    BY RecordAssumption
<1>2. q \in Nat /\ z % BEAT \in 0 .. BEAT - 1 /\ z = (q * BEAT) + (z % BEAT)
    <2> HIDE DEF z
    <2> QED
        BY <1>1, DivMod
<1>3. RoundUp(x) = q * BEAT
    BY DEF RoundUp
<1>4. RoundUp(x) \in Nat /\ Aligned(RoundUp(x))
    <2>1. q * BEAT \in Nat
        BY <1>1, <1>2, TimesAssoc
    <2> HIDE DEF q
    <2> QED
        BY <1>2, <1>3, <2>1, AlignedIsMultiple
<1>5. x <= RoundUp(x)
    <2> DEFINE u == q * BEAT
               r == z % BEAT
    <2>1. u \in Nat /\ r \in 0 .. BEAT - 1 /\ x + BEAT - 1 = u + r
        BY <1>2, <1>3, <1>4
    <2> HIDE DEF u, r
    <2>2. x <= u
        BY <1>1, <2>1
    <2> QED
        BY <1>3, <2>2 DEF u
<1>6. ASSUME NEW y \in Nat, Aligned(y), x <= y PROVE RoundUp(x) <= y
    <2>1. PICK n \in Nat : y = n * BEAT
        BY <1>6, AlignedIsMultiple
    <2>2. CASE q <= n
        <3>1. q * BEAT <= n * BEAT
            BY <1>1, <1>2, <2>2, TimesMonotone
        <3> QED
            BY <1>3, <2>1, <3>1
    <2>3. CASE n < q
        <3>1. (n + 1) * BEAT <= q * BEAT /\ (n + 1) * BEAT = (n * BEAT) + BEAT
            BY <1>1, <1>2, <2>3, TimesMonotone, Distribute
        <3> DEFINE u == q * BEAT
                   v == n * BEAT
                   r == z % BEAT
        <3>2. v + BEAT <= u /\ x <= v /\ x + BEAT - 1 = u + r /\ u \in Int /\ v \in Int /\ r \in Nat
            BY <1>1, <1>2, <1>6, <2>1, <3>1
        <3> HIDE DEF u, v, r
        <3> QED
            BY <1>1, <3>2
    <2> QED
        BY <1>2, <2>2, <2>3
<1> QED
    BY <1>4, <1>5, <1>6

\* DivUp gives enough.
LEMMA DivUpEnough ==
    ASSUME NEW x \in Nat, NEW y \in Nat \ {0}
    PROVE  DivUp(x, y) \in Nat /\ x <= DivUp(x, y) * y
<1> DEFINE z == x + y - 1
           q == z \div y
<1>1. z \in Nat
    OBVIOUS
<1>2. q \in Nat /\ z % y \in 0 .. y - 1 /\ z = (q * y) + (z % y)
    <2> HIDE DEF z
    <2> QED
        BY <1>1, DivMod
<1> DEFINE u == q * y
           r == z % y
<1>3. u \in Int /\ r \in 0 .. y - 1 /\ x + y - 1 = u + r
    BY <1>2
<1> HIDE DEF u, r
<1>4. x <= u
    BY <1>3
<1> QED
    BY <1>2, <1>4 DEF u, DivUp

(***************************************************************************)
(* Granularity and cuts.                                                   *)
(***************************************************************************)
\* The types of a record, and what the assumptions say of its areas.
LEMMA RecordFacts ==
    ASSUME NEW rec \in Record
    PROVE  /\ rec.rows \in Nat \ {0}
           /\ rec.writes \subseteq Area /\ rec.reads \subseteq Area
           /\ rec.common \subseteq Nat \X Nat
           /\ \A a \in rec.writes \cup rec.reads :
                /\ a.base \in Nat /\ a.step \in Nat \ {0} /\ a.width \in Nat \ {0}
                /\ Aligned(a.base) /\ a.width <= a.step
<1>1. rec \in RecordType
    BY RecordAssumption
<1>2. /\ rec.rows \in Nat \ {0}
      /\ rec.writes \subseteq Area /\ rec.reads \subseteq Area
      /\ rec.common \subseteq Nat \X Nat
    BY <1>1 DEF RecordType
<1>3. \A a \in Area : a.base \in Nat /\ a.step \in Nat \ {0} /\ a.width \in Nat \ {0}
    BY DEF Area
<1> QED
    BY <1>2, <1>3, RecordAssumption

\* A record that can be sliced at row h can be sliced at every multiple of h.
LEMMA SliceMultiple ==
    ASSUME NEW rec \in Record, NEW h \in Nat, SliceAligned(rec, h), NEW m \in Nat
    PROVE  /\ m * h \in Nat /\ SliceAligned(rec, m * h)
           /\ \A a \in rec.writes \cup rec.reads :
                (m * h) * a.step \in Nat /\ Aligned((m * h) * a.step)
<1>1. m * h \in Nat
    BY TimesAssoc
<1>2. ASSUME NEW a \in rec.writes \cup rec.reads
      PROVE  /\ (m * h) * a.step \in Nat /\ Aligned((m * h) * a.step)
             /\ Aligned(a.base + ((m * h) * a.step))
    <2>1. a.base \in Nat /\ a.step \in Nat /\ Aligned(a.base)
        BY RecordFacts
    <2>2. h * a.step \in Nat
        BY <2>1, TimesAssoc
    <2>3. Aligned(a.base + (h * a.step))
        BY DEF SliceAligned
    <2>4. Aligned(h * a.step)
        <3> DEFINE u == h * a.step
        <3>1. u \in Nat /\ Aligned(a.base + u)
            BY <2>2, <2>3
        <3> HIDE DEF u
        <3>2. Aligned(u)
            BY <2>1, <3>1, AlignedSum
        <3> QED
            BY <3>2 DEF u
    <2>5. m * (h * a.step) \in Nat /\ Aligned(m * (h * a.step))
        BY <2>2, <2>4, AlignedTimes
    <2>6. (m * h) * a.step = m * (h * a.step)
        BY <2>1, TimesAssoc
    <2> DEFINE v == (m * h) * a.step
    <2>7. v \in Nat /\ Aligned(v)
        BY <2>5, <2>6
    <2> HIDE DEF v
    <2>8. Aligned(a.base + v)
        BY <2>1, <2>7, AlignedSum
    <2> QED
        BY <2>7, <2>8 DEF v
<1> QED
    BY <1>1, <1>2 DEF SliceAligned

\* The granularity of a record that is cut fits it, whatever it shares it with.
LEMMA GranFits ==
    ASSUME recs \in Seq(Record), NEW i \in Nat \ {0}, NEW j \in Nat, j <= Len(recs),
           NEW k \in i .. j, ~ Whole(recs, i, j, k)
    PROVE  /\ recs[k] \in Record
           /\ Gran(recs, i, j, k) \in {4, 8, 16}
           /\ \E c \in Nat, h \in Nat : Gran(recs, i, j, k) = c * h /\ SliceAligned(recs[k], h)
<1> DEFINE S == SameRows(recs, i, j, k)
           G(g) == /\ \E m \in S : SliceGran(recs[m]) = g
                   /\ g = 0 <=> \E m \in S : SliceGran(recs[m]) = 0
                   /\ g # 0 => \A m \in S : SliceGran(recs[m]) <= g
<1>1. k \in S /\ \A m \in S : SliceGran(recs[m]) \in {0, 4, 8, 16}
    BY DEF SameRows, SliceGran
<1>2. \E g \in {0, 4, 8, 16} : G(g)
    <2> HIDE DEF S
    <2>1. CASE \E m \in S : SliceGran(recs[m]) = 0
        <3>1. G(0)
            BY <2>1
        <3> QED
            BY <3>1
    <2>2. CASE (\A m \in S : SliceGran(recs[m]) # 0) /\ \E m \in S : SliceGran(recs[m]) = 16
        <3>1. G(16)
            BY <1>1, <2>2
        <3> QED
            BY <3>1
    <2>3. CASE (\A m \in S : SliceGran(recs[m]) \notin {0, 16}) /\ \E m \in S : SliceGran(recs[m]) = 8
        <3>1. G(8)
            BY <1>1, <2>3
        <3> QED
            BY <3>1
    <2>4. CASE \A m \in S : SliceGran(recs[m]) \notin {0, 8, 16}
        <3>1. G(4)
            BY <1>1, <2>4
        <3> QED
            BY <3>1
    <2> QED
        BY <2>1, <2>2, <2>3, <2>4
<1>3. G(Gran(recs, i, j, k)) /\ Gran(recs, i, j, k) \in {0, 4, 8, 16}
    BY <1>2 DEF Gran
<1>4. recs[k] \in Record
    <2>1. k \in 1 .. Len(recs)
        OBVIOUS
    <2> QED
        BY <2>1
<1>5. Gran(recs, i, j, k) \in {4, 8, 16}
    BY <1>3 DEF Whole
<1>6. SliceGran(recs[k]) \in {4, 8, 16} /\ SliceGran(recs[k]) <= Gran(recs, i, j, k)
    BY <1>1, <1>3, <1>5
<1>7. SliceAligned(recs[k], SliceGran(recs[k]))
    BY <1>6 DEF SliceGran
<1>8. \E c \in Nat : Gran(recs, i, j, k) = c * SliceGran(recs[k])
    <2> DEFINE g == Gran(recs, i, j, k)
               h == SliceGran(recs[k])
    <2>1. g \in {4, 8, 16} /\ h \in {4, 8, 16} /\ h <= g
        BY <1>5, <1>6
    <2> HIDE DEF g, h
    <2>2. g = 1 * h \/ g = 2 * h \/ g = 4 * h
        BY <2>1
    <2>3. \E c \in Nat : g = c * h
        BY <2>2
    <2> QED
        BY <2>3 DEF g, h
<1> QED
    BY <1>4, <1>5, <1>6, <1>7, <1>8

\* The rows of a part: a multiple of the granularity, and enough of them.
LEMMA PerFacts ==
    ASSUME NEW rows \in Nat \ {0}, NEW g \in Nat \ {0}
    PROVE  /\ Per(rows, g) \in Nat \ {0}
           /\ \E m \in Nat : Per(rows, g) = m * g
           /\ rows <= NumNodes * Per(rows, g)
<1> DEFINE d == DivUp(rows, NumNodes)
           m == DivUp(d, g)
           per == Per(rows, g)
<1>1. NumNodes \in Nat \ {0}
    BY RecordAssumption
<1>2. d \in Nat /\ rows <= d * NumNodes
    BY <1>1, DivUpEnough
<1>3. m \in Nat /\ d <= m * g
    <2> HIDE DEF d
    <2> QED
        BY <1>2, DivUpEnough
<1>4. per = m * g /\ per \in Nat
    <2>1. per = m * g
        BY DEF Per
    <2> HIDE DEF m, per
    <2> QED
        BY <1>3, <2>1, TimesAssoc
<1> HIDE DEF d, per
<1>5. rows <= NumNodes * per
    <2>1. d * NumNodes <= per * NumNodes
        BY <1>1, <1>2, <1>3, <1>4, TimesMonotone
    <2>2. per * NumNodes = NumNodes * per
        BY <1>1, <1>4
    <2> QED
        BY <1>1, <1>2, <1>4, <2>1, <2>2
<1>6. per # 0
    BY <1>1, <1>5
<1> QED
    BY <1>3, <1>4, <1>5, <1>6 DEF per

\* A cut of a record: the rows p * per .. of part p, per of them but for the last.
CutOK(s, k, rows, per) ==
    /\ s.rec = k /\ s.part \in Parts /\ s.part \in Nat /\ s.first = s.part * per
    /\ s.first \in Nat /\ s.count \in Nat \ {0}
    /\ s.first + s.count <= rows /\ s.count <= per
    /\ (s.count = per \/ s.first + s.count = rows)

\* Every slice of a cut record is CutOK.
LEMMA CutFacts ==
    ASSUME NEW k, NEW rows \in Nat \ {0}, NEW g \in Nat \ {0}, NEW s \in Cuts(k, rows, g)
    PROVE  CutOK(s, k, rows, Per(rows, g))
<1> DEFINE per == Per(rows, g)
<1>1. per \in Nat \ {0} /\ Parts \subseteq Nat
    BY PerFacts, RecordAssumption DEF Parts
<1>2. PICK p \in {q \in Parts : q * per < rows} :
        s = [rec |-> k, part |-> p, first |-> p * per,
             count |-> IF rows - p * per < per THEN rows - p * per ELSE per]
    BY DEF Cuts
<1>3. p \in Parts /\ p \in Nat /\ p * per < rows
    BY <1>1
<1> HIDE DEF per
<1>4. p * per \in Nat
    BY <1>1, <1>3, TimesAssoc
<1> DEFINE f == p * per
<1>5. /\ s.rec = k /\ s.part = p /\ s.first = f
      /\ s.count = IF rows - f < per THEN rows - f ELSE per
    BY <1>2
<1>6. f \in Nat /\ f < rows
    BY <1>3, <1>4
<1>7. s.first = s.part * per
    BY <1>5
<1> HIDE DEF f
<1> QED
    BY <1>1, <1>3, <1>5, <1>6, <1>7 DEF CutOK, per

\* Every part that has rows left has a cut.
LEMMA CutExists ==
    ASSUME NEW k, NEW rows \in Nat \ {0}, NEW g \in Nat \ {0},
           NEW p \in Parts, p * Per(rows, g) < rows
    PROVE  \E s \in Cuts(k, rows, g) : s.part = p
<1> DEFINE per == Per(rows, g)
           c == [rec |-> k, part |-> p, first |-> p * per,
                 count |-> IF rows - p * per < per THEN rows - p * per ELSE per]
<1>1. c \in Cuts(k, rows, g)
    BY DEF Cuts
<1> QED
    BY <1>1

\* The rows of a part end before those of the next part begin.
LEMMA CutsApart ==
    ASSUME NEW k, NEW rows \in Nat \ {0}, NEW g \in Nat \ {0},
           NEW s \in Cuts(k, rows, g), NEW t \in Cuts(k, rows, g), s.part < t.part
    PROVE  s.first + s.count <= t.first /\ s.count = Per(rows, g)
<1> DEFINE per == Per(rows, g)
<1>1. CutOK(s, k, rows, per) /\ CutOK(t, k, rows, per) /\ per \in Nat \ {0}
    BY CutFacts, PerFacts
<1> HIDE DEF per
<1>2. /\ s.part \in Nat /\ s.first = s.part * per /\ s.first \in Nat /\ s.count \in Nat \ {0}
      /\ s.count <= per
      /\ s.count = per \/ s.first + s.count = rows
    BY <1>1 DEF CutOK
<1>3. /\ t.part \in Nat /\ t.first = t.part * per /\ t.first \in Nat /\ t.count \in Nat \ {0}
      /\ t.first + t.count <= rows
    BY <1>1 DEF CutOK
<1>4. (s.part + 1) * per <= t.part * per
    BY <1>1, <1>2, <1>3, TimesMonotone
<1>5. (s.part + 1) * per = (s.part * per) + per
    BY <1>1, <1>2, Distribute
<1>6. s.first + per <= t.first
    <2> DEFINE u == s.part * per
               v == t.part * per
    <2>1. u + per <= v /\ s.first = u /\ t.first = v
        BY <1>2, <1>3, <1>4, <1>5
    <2> HIDE DEF u, v
    <2> QED
        BY <2>1
<1> QED
    BY <1>1, <1>2, <1>3, <1>6 DEF per

(***************************************************************************)
(* Slices of one record.                                                   *)
(***************************************************************************)
\* A row ends within the rows it is one of.
LEMMA RowEnd ==
    ASSUME NEW x \in Nat, NEW n \in Nat, x < n, NEW b \in Nat
    PROVE  x * b \in Nat /\ (x * b) + b <= n * b
<1>1. x + 1 <= n /\ x + 1 \in Int
    OBVIOUS
<1>2. (x + 1) * b <= n * b
    BY <1>1, TimesMonotone
<1>3. (x + 1) * b = (x * b) + (1 * b) /\ 1 * b = b
    BY Distribute
<1>4. x * b \in Nat
    BY TimesAssoc
<1> QED
    BY <1>2, <1>3, <1>4

\* Where a byte range of slice s in area a lies: not before its first row, not
\* after the beat of its last, and not after its last row if that ends a beat.
InRows(r, a, s) ==
    /\ r[1] \in Nat /\ r[2] \in Nat
    /\ a.base + (s.first * a.step) <= r[1]
    /\ r[2] <= a.base + RoundUp((s.first + s.count) * a.step)
    /\ Aligned(s.count * a.step) => r[2] <= a.base + ((s.first + s.count) * a.step)

\* The write ranges of one area.
AreaWrites(s, w) ==
    LET lo == w.base + s.first * w.step
    IN  IF w.width = w.step
        THEN {<<lo, lo + RoundUp(s.count * w.step)>>}
        ELSE {<<lo + r * w.step, lo + r * w.step + w.width>> : r \in 0 .. s.count - 1}

\* The read range of one area.
AreaRead(s, a) == <<a.base + s.first * a.step, a.base + (s.first + s.count) * a.step>>

\* A slice, a row area of its record, and their products as numbers.
LEMMA AreaNumbers ==
    ASSUME NEW rec \in Record, NEW a \in rec.writes \cup rec.reads,
           NEW x \in Nat, NEW y \in Nat
    PROVE  /\ x * a.step \in Nat /\ y * a.step \in Nat /\ (x + y) * a.step \in Nat
           /\ (x + y) * a.step = (x * a.step) + (y * a.step)
           /\ a.base \in Nat /\ a.step \in Nat \ {0} /\ a.width \in Nat /\ a.width <= a.step
<1>1. a.base \in Nat /\ a.step \in Nat \ {0} /\ a.width \in Nat /\ a.width <= a.step
    BY RecordFacts
<1>2. x * a.step \in Nat /\ y * a.step \in Nat
    BY <1>1, TimesAssoc
<1>3. (x + y) * a.step = (x * a.step) + (y * a.step)
    BY <1>1, Distribute
<1> QED
    BY <1>1, <1>2, <1>3

\* What a slice reads of a row area lies in its rows.
LEMMA ReadInRows ==
    ASSUME NEW rec \in Record, NEW a \in rec.reads,
           NEW s, s.first \in Nat, s.count \in Nat \ {0}
    PROVE  InRows(AreaRead(s, a), a, s)
<1> DEFINE F == s.first * a.step
           E == (s.first + s.count) * a.step
           r == AreaRead(s, a)
<1>1. F \in Nat /\ E \in Nat /\ a.base \in Nat
    BY AreaNumbers
<1>2. r[1] = a.base + F /\ r[2] = a.base + E
    BY DEF AreaRead
<1>3. E <= RoundUp(E) /\ RoundUp(E) \in Nat
    <2> HIDE DEF E
    <2> QED
        BY <1>1, RoundUpLeast
<1>4. /\ r[1] \in Nat /\ r[2] \in Nat /\ a.base + F <= r[1]
      /\ r[2] <= a.base + RoundUp(E) /\ r[2] <= a.base + E
    <2> HIDE DEF F, E, r
    <2> QED
        BY <1>1, <1>2, <1>3
<1> QED
    BY <1>4 DEF InRows

\* What a slice writes of a row area lies in its rows, rounded up to beats.
LEMMA WriteInRows ==
    ASSUME NEW rec \in Record, NEW w \in rec.writes,
           NEW s, s.first \in Nat, s.count \in Nat \ {0}, Aligned(s.first * w.step),
           NEW r \in AreaWrites(s, w)
    PROVE  InRows(r, w, s)
<1> DEFINE F == s.first * w.step
           C == s.count * w.step
           E == (s.first + s.count) * w.step
<1>1. /\ F \in Nat /\ C \in Nat /\ E \in Nat /\ E = F + C
      /\ w.base \in Nat /\ w.step \in Nat \ {0} /\ w.width \in Nat /\ w.width <= w.step
    BY AreaNumbers
<1>2. RoundUp(C) \in Nat /\ RoundUp(E) \in Nat /\ E <= RoundUp(E) /\ Aligned(RoundUp(E))
    <2> HIDE DEF C, E
    <2> QED
        BY <1>1, RoundUpLeast
<1>3. F + RoundUp(C) <= RoundUp(E)
    <2> HIDE DEF C, E
    <2>1. Aligned(F)
        OBVIOUS
    <2> HIDE DEF F
    <2> DEFINE d == RoundUp(E) - F
    <2>2. d \in Nat /\ C <= d /\ F + d = RoundUp(E)
        BY <1>1, <1>2
    <2>3. Aligned(F + d)
        BY <1>2, <2>2
    <2> HIDE DEF d
    <2>4. Aligned(d)
        BY <1>1, <2>1, <2>2, <2>3, AlignedSum
    <2>5. RoundUp(C) <= d
        BY <1>1, <2>2, <2>4, RoundUpLeast
    <2> QED
        BY <1>1, <1>2, <2>2, <2>5
<1>4. Aligned(C) => RoundUp(C) <= C
    <2> HIDE DEF C
    <2> QED
        BY <1>1, RoundUpLeast
<1>5. CASE w.width = w.step
    <2>1. r[1] = w.base + F /\ r[2] = w.base + F + RoundUp(C)
        BY <1>5 DEF AreaWrites
    <2>2. /\ r[1] \in Nat /\ r[2] \in Nat /\ w.base + F <= r[1]
          /\ r[2] <= w.base + RoundUp(E) /\ (Aligned(C) => r[2] <= w.base + E)
        <3> HIDE DEF F, C, E
        <3> QED
            BY <1>1, <1>2, <1>3, <1>4, <2>1
    <2> QED
        BY <2>2 DEF InRows
<1>6. CASE w.width # w.step
    <2>1. PICK x \in 0 .. s.count - 1 :
            r = <<w.base + F + x * w.step, w.base + F + x * w.step + w.width>>
        BY <1>6 DEF AreaWrites
    <2> DEFINE X == x * w.step
    <2>2. X \in Nat /\ X + w.step <= C
        <3>1. x \in Nat /\ s.count \in Nat /\ x < s.count /\ w.step \in Nat
            BY <1>1
        <3> QED
            BY <3>1, RowEnd
    <2>3. r[1] = w.base + F + X /\ r[2] = w.base + F + X + w.width
        BY <2>1
    <2>4. /\ r[1] \in Nat /\ r[2] \in Nat /\ w.base + F <= r[1]
          /\ r[2] <= w.base + RoundUp(E) /\ r[2] <= w.base + E
        <3> HIDE DEF F, C, E, X
        <3> QED
            BY <1>1, <1>2, <2>2, <2>3
    <2> QED
        BY <2>4 DEF InRows
<1> QED
    BY <1>5, <1>6

\* What the cut of a record needs to know about the slices it makes.
LEMMA CutAligned ==
    ASSUME recs \in Seq(Record), NEW i \in Nat \ {0}, NEW j \in Nat, j <= Len(recs),
           NEW k \in i .. j, ~ Whole(recs, i, j, k),
           NEW s \in Cuts(k, recs[k].rows, Gran(recs, i, j, k))
    PROVE  /\ recs[k] \in Record
           /\ CutOK(s, k, recs[k].rows, Per(recs[k].rows, Gran(recs, i, j, k)))
           /\ SliceAligned(recs[k], s.first)
           /\ \A a \in recs[k].writes \cup recs[k].reads :
                /\ Aligned(s.first * a.step)
                /\ s.count = Per(recs[k].rows, Gran(recs, i, j, k)) => Aligned(s.count * a.step)
<1> DEFINE rec == recs[k]
           g == Gran(recs, i, j, k)
           per == Per(rec.rows, g)
<1>1. rec \in Record /\ g \in Nat \ {0} /\ rec.rows \in Nat \ {0}
    <2>1. recs[k] \in Record /\ Gran(recs, i, j, k) \in {4, 8, 16}
        BY GranFits
    <2>2. recs[k].rows \in Nat \ {0}
        BY <2>1, RecordFacts
    <2> QED
        BY <2>1, <2>2
<1>2. PICK c \in Nat, h \in Nat : g = c * h /\ SliceAligned(rec, h)
    BY GranFits
<1>3. CutOK(s, k, rec.rows, per)
    <2> HIDE DEF g
    <2> QED
        BY <1>1, CutFacts DEF g
<1>4. PICK m \in Nat : per = m * g
    <2> HIDE DEF g, rec
    <2> QED
        BY <1>1, PerFacts
<1> HIDE DEF g, rec, per
<1>5. m * c \in Nat /\ per = (m * c) * h
    BY <1>2, <1>4, TimesAssoc
<1>6. s.part \in Nat /\ s.first = s.part * per
    BY <1>3 DEF CutOK
<1>7. s.part * (m * c) \in Nat /\ s.first = (s.part * (m * c)) * h
    BY <1>2, <1>5, <1>6, TimesAssoc
<1>8. /\ SliceAligned(rec, (s.part * (m * c)) * h)
      /\ \A a \in rec.writes \cup rec.reads : Aligned(((s.part * (m * c)) * h) * a.step)
    BY <1>1, <1>2, <1>7, SliceMultiple
<1>9. \A a \in rec.writes \cup rec.reads : Aligned(((m * c) * h) * a.step)
    BY <1>1, <1>2, <1>5, SliceMultiple
<1>10. /\ SliceAligned(rec, s.first)
       /\ \A a \in rec.writes \cup rec.reads : Aligned(s.first * a.step) /\ Aligned(per * a.step)
    BY <1>5, <1>7, <1>8, <1>9
<1> QED
    BY <1>1, <1>3, <1>10 DEF rec, g, per

\* Ranges of one area, or of areas of the same shape, are apart when the rows of
\* one end before those of the other begin; ranges of separate buffers always.
LEMMA RowsApart ==
    ASSUME NEW rec \in Record,
           NEW a \in rec.writes \cup rec.reads, NEW b \in rec.writes \cup rec.reads,
           NEW s, NEW t,
           s.first \in Nat, s.count \in Nat \ {0}, t.first \in Nat, t.count \in Nat \ {0},
           s.first + s.count <= t.first, t.first + t.count <= rec.rows,
           Aligned(s.count * a.step),
           \/ a.base = b.base /\ a.step = b.step
           \/ Extent(a, rec.rows) <= b.base
           \/ Extent(b, rec.rows) <= a.base,
           NEW q, NEW r, InRows(q, a, s), InRows(r, b, t)
    PROVE  ~ (q[1] < r[2] /\ r[1] < q[2])
<1> DEFINE es == s.first + s.count
           et == t.first + t.count
           N == rec.rows
<1>1. es \in Nat /\ et \in Nat /\ N \in Nat /\ es <= t.first /\ t.first <= N /\ es <= N /\ et <= N
    BY RecordFacts
<1>2. /\ q[1] \in Nat /\ q[2] \in Nat /\ r[1] \in Nat /\ r[2] \in Nat
      /\ a.base + (s.first * a.step) <= q[1] /\ q[2] <= a.base + (es * a.step)
      /\ q[2] <= a.base + RoundUp(es * a.step)
      /\ b.base + (t.first * b.step) <= r[1] /\ r[2] <= b.base + RoundUp(et * b.step)
    BY DEF InRows
<1> HIDE DEF es, et, N
<1>3. /\ a.base \in Nat /\ a.step \in Nat /\ b.base \in Nat /\ b.step \in Nat
      /\ s.first * a.step \in Nat /\ es * a.step \in Nat /\ N * a.step \in Nat
      /\ t.first * b.step \in Nat /\ et * b.step \in Nat /\ N * b.step \in Nat
    <2>1. a.base \in Nat /\ a.step \in Nat /\ b.base \in Nat /\ b.step \in Nat
        BY RecordFacts
    <2> QED
        BY <1>1, <2>1, TimesAssoc
<1>4. CASE a.base = b.base /\ a.step = b.step
    <2>1. es * b.step <= t.first * b.step
        BY <1>1, <1>3, TimesMonotone
    <2> DEFINE u == es * b.step
               v == t.first * b.step
    <2>2. u <= v /\ q[2] <= b.base + u /\ b.base + v <= r[1] /\ u \in Nat /\ v \in Nat
        BY <1>2, <1>3, <1>4, <2>1
    <2> HIDE DEF u, v
    <2> QED
        BY <1>2, <1>3, <2>2
<1>5. es * a.step <= N * a.step /\ et * b.step <= N * b.step
    BY <1>1, <1>3, TimesMonotone
<1>6. /\ RoundUp(es * a.step) \in Nat /\ RoundUp(es * a.step) <= RoundUp(N * a.step)
      /\ RoundUp(et * b.step) \in Nat /\ RoundUp(et * b.step) <= RoundUp(N * b.step)
      /\ RoundUp(N * a.step) \in Nat /\ RoundUp(N * b.step) \in Nat
    <2> DEFINE u == es * a.step
               v == N * a.step
               x == et * b.step
               y == N * b.step
    <2>1. u \in Nat /\ v \in Nat /\ x \in Nat /\ y \in Nat /\ u <= v /\ x <= y
        BY <1>3, <1>5
    <2> HIDE DEF u, v, x, y
    <2>2. RoundUp(u) \in Nat /\ RoundUp(x) \in Nat
        BY <2>1, RoundUpLeast
    <2>3. RoundUp(v) \in Nat /\ Aligned(RoundUp(v)) /\ v <= RoundUp(v)
        BY <2>1, RoundUpLeast
    <2>4. RoundUp(y) \in Nat /\ Aligned(RoundUp(y)) /\ y <= RoundUp(y)
        BY <2>1, RoundUpLeast
    <2>5. RoundUp(u) <= RoundUp(v)
        <3>1. u <= RoundUp(v)
            BY <2>1, <2>3
        <3> QED
            BY <2>1, <2>3, <3>1, RoundUpLeast
    <2>6. RoundUp(x) <= RoundUp(y)
        <3>1. x <= RoundUp(y)
            BY <2>1, <2>4
        <3> QED
            BY <2>1, <2>4, <3>1, RoundUpLeast
    <2> QED
        BY <2>2, <2>3, <2>4, <2>5, <2>6 DEF u, v, x, y
<1>7. Extent(a, rec.rows) = a.base + RoundUp(N * a.step) /\ Extent(b, rec.rows) = b.base + RoundUp(N * b.step)
    BY DEF Extent, N
<1> DEFINE A == RoundUp(N * a.step)
           B == RoundUp(N * b.step)
           f == s.first * a.step
           h == t.first * b.step
<1>8. /\ q[2] <= a.base + A /\ r[2] <= b.base + B /\ a.base + f <= q[1] /\ b.base + h <= r[1]
      /\ A \in Nat /\ B \in Nat /\ f \in Nat /\ h \in Nat
    BY <1>2, <1>3, <1>6
<1> HIDE DEF A, B, f, h
<1>9. CASE Extent(a, rec.rows) <= b.base
    <2>1. a.base + A <= b.base
        BY <1>7, <1>9 DEF A
    <2> QED
        BY <1>2, <1>3, <1>8, <2>1
<1>10. CASE Extent(b, rec.rows) <= a.base
    <2>1. b.base + B <= a.base
        BY <1>7, <1>10 DEF B
    <2> QED
        BY <1>2, <1>3, <1>8, <2>1
<1> QED
    BY <1>4, <1>9, <1>10

\* The ranges of a slice, area by area.
LEMMA SliceRanges ==
    ASSUME NEW s
    PROVE  /\ \A q \in WriteRanges(recs, s) : \E w \in recs[s.rec].writes : q \in AreaWrites(s, w)
           /\ \A q \in ReadRanges(recs, s) :
                q \in recs[s.rec].common \/ \E a \in recs[s.rec].reads : q = AreaRead(s, a)
<1>1. WriteRanges(recs, s) = UNION {AreaWrites(s, w) : w \in recs[s.rec].writes}
    BY DEF WriteRanges, AreaWrites
<1>2. ReadRanges(recs, s) = recs[s.rec].common \cup {AreaRead(s, a) : a \in recs[s.rec].reads}
    BY DEF ReadRanges, AreaRead
<1> QED
    BY <1>1, <1>2

\* Two parts of one record touch nothing that the other writes.
LEMMA OwnSlicesApart ==
    ASSUME recs \in Seq(Record), NEW i \in Nat \ {0}, NEW j \in Nat, j <= Len(recs),
           NEW k \in i .. j, ~ Whole(recs, i, j, k),
           NEW s \in Cuts(k, recs[k].rows, Gran(recs, i, j, k)),
           NEW t \in Cuts(k, recs[k].rows, Gran(recs, i, j, k)), s.part < t.part
    PROVE  ~ Clash(recs, s, t) /\ ~ Clash(recs, t, s)
<1> DEFINE rec == recs[k]
           g == Gran(recs, i, j, k)
           Areas == rec.writes \cup rec.reads
<1>1. rec \in Record /\ g \in Nat \ {0} /\ rec.rows \in Nat \ {0}
    <2>1. recs[k] \in Record /\ Gran(recs, i, j, k) \in {4, 8, 16}
        BY GranFits
    <2> QED
        BY <2>1, RecordFacts
<1>2. /\ CutOK(s, k, rec.rows, Per(rec.rows, g))
      /\ \A a \in Areas :
            /\ Aligned(s.first * a.step)
            /\ s.count = Per(rec.rows, g) => Aligned(s.count * a.step)
    BY CutAligned
<1>3. /\ CutOK(t, k, rec.rows, Per(rec.rows, g))
      /\ \A a \in Areas : Aligned(t.first * a.step)
    BY CutAligned
<1>4. s.first + s.count <= t.first /\ s.count = Per(rec.rows, g)
    <2> HIDE DEF rec, g
    <2>1. s \in Cuts(k, rec.rows, g) /\ t \in Cuts(k, rec.rows, g)
        BY DEF rec, g
    <2> QED
        BY <1>1, <2>1, CutsApart
<1> HIDE DEF rec, g
<1>5. /\ s.first \in Nat /\ s.count \in Nat \ {0} /\ t.first \in Nat /\ t.count \in Nat \ {0}
      /\ t.first + t.count <= rec.rows /\ recs[s.rec] = rec /\ recs[t.rec] = rec
    BY <1>2, <1>3 DEF CutOK, rec
<1>6. \A a \in Areas : Aligned(s.first * a.step) /\ Aligned(s.count * a.step) /\ Aligned(t.first * a.step)
    <2>1. TAKE a \in Areas
    <2>2. Aligned(s.first * a.step) /\ (s.count = Per(rec.rows, g) => Aligned(s.count * a.step))
        BY <1>2
    <2>3. Aligned(t.first * a.step)
        BY <1>3
    <2> QED
        BY <1>4, <2>2, <2>3
<1>7. \A w \in rec.writes : \A q \in AreaWrites(s, w) : InRows(q, w, s)
    BY <1>1, <1>5, <1>6, WriteInRows
<1>8. \A w \in rec.writes : \A q \in AreaWrites(t, w) : InRows(q, w, t)
    BY <1>1, <1>5, <1>6, WriteInRows
<1>9. \A a \in rec.reads : InRows(AreaRead(s, a), a, s) /\ InRows(AreaRead(t, a), a, t)
    BY <1>1, <1>5, ReadInRows
<1>10. ASSUME NEW a \in Areas, NEW b \in Areas, a \in rec.writes \/ b \in rec.writes,
              NEW q, NEW r, InRows(q, a, s), InRows(r, b, t)
       PROVE  ~ (q[1] < r[2] /\ r[1] < q[2])
    <2>1. \/ a.base = b.base /\ a.step = b.step
          \/ Extent(a, rec.rows) <= b.base
          \/ Extent(b, rec.rows) <= a.base
        <3>1. CASE a = b
            BY <3>1
        <3>2. CASE a # b /\ a \in rec.writes
            BY <1>1, <3>2, OwnRowsAssumption
        <3>3. CASE a # b /\ b \in rec.writes
            BY <1>1, <3>3, OwnRowsAssumption
        <3> QED
            BY <1>10, <3>1, <3>2, <3>3
    <2>2. Aligned(s.count * a.step)
        BY <1>6
    <2> QED
        BY <1>1, <1>4, <1>5, <1>10, <2>1, <2>2, RowsApart
<1>11. ASSUME NEW c \in rec.common, NEW w \in rec.writes, NEW x, x = s \/ x = t,
              NEW q, InRows(q, w, x)
       PROVE  ~ (q[1] < c[2] /\ c[1] < q[2])
    <2> DEFINE ex == x.first + x.count
               N == rec.rows
    <2>1. x.first \in Nat /\ ex \in Nat /\ ex <= N /\ N \in Nat
        <3>1. CASE x = s
            BY <1>1, <1>4, <1>5, <3>1
        <3>2. CASE x = t
            BY <1>1, <1>5, <3>2
        <3> QED
            BY <1>11, <3>1, <3>2
    <2>2. w.base \in Nat /\ w.step \in Nat /\ c[1] \in Nat /\ c[2] \in Nat
        BY <1>1, RecordFacts
    <2>3. /\ q[1] \in Nat /\ q[2] \in Nat /\ w.base + (x.first * w.step) <= q[1]
          /\ q[2] <= w.base + RoundUp(ex * w.step)
        BY <1>11 DEF InRows
    <2> HIDE DEF ex, N
    <2>4. x.first * w.step \in Nat /\ ex * w.step \in Nat /\ N * w.step \in Nat
        BY <2>1, <2>2, TimesAssoc
    <2>5. ex * w.step <= N * w.step
        <3> DEFINE b == w.step
        <3>1. ex \in Int /\ N \in Int /\ ex <= N /\ b \in Nat
            BY <2>1, <2>2
        <3> HIDE DEF b
        <3>2. ex * b <= N * b
            BY <3>1, TimesMonotone
        <3> QED
            BY <3>2 DEF b
    <2> DEFINE u == ex * w.step
               v == N * w.step
               f == x.first * w.step
    <2>6. u \in Nat /\ v \in Nat /\ f \in Nat /\ u <= v
        BY <2>4, <2>5
    <2>7. w.base + f <= q[1] /\ q[2] <= w.base + RoundUp(u)
        BY <2>3
    <2>8. c[2] <= w.base \/ w.base + RoundUp(v) <= c[1]
        <3>1. c[2] <= w.base \/ Extent(w, N) <= c[1]
            BY <1>1, OwnRowsAssumption DEF N
        <3> QED
            BY <3>1 DEF Extent
    <2> HIDE DEF u, v, f
    <2>9. RoundUp(v) \in Nat /\ Aligned(RoundUp(v)) /\ u <= RoundUp(v)
        BY <2>6, RoundUpLeast
    <2>10. RoundUp(u) \in Nat /\ RoundUp(u) <= RoundUp(v)
        BY <2>6, <2>9, RoundUpLeast
    <2>11. w.base <= q[1] /\ q[2] <= w.base + RoundUp(v)
        <3> DEFINE U == RoundUp(u)
                   V == RoundUp(v)
        <3>1. /\ q[1] \in Nat /\ q[2] \in Nat /\ w.base \in Nat /\ f \in Nat
              /\ U \in Nat /\ V \in Nat /\ U <= V
            BY <2>2, <2>3, <2>6, <2>9, <2>10
        <3>2. w.base + f <= q[1] /\ q[2] <= w.base + U
            BY <2>7
        <3> HIDE DEF U, V
        <3>3. w.base <= q[1] /\ q[2] <= w.base + V
            BY <3>1, <3>2
        <3> QED
            BY <3>3 DEF V
    <2> DEFINE m == w.base + RoundUp(v)
    <2>12. /\ m \in Nat /\ w.base <= q[1] /\ q[2] <= m
           /\ c[2] <= w.base \/ m <= c[1]
        BY <2>2, <2>8, <2>9, <2>11
    <2> HIDE DEF m
    <2>13. CASE c[2] <= w.base
        <3>1. c[2] <= q[1]
            BY <2>2, <2>3, <2>12, <2>13
        <3> QED
            BY <2>2, <2>3, <3>1
    <2>14. CASE m <= c[1]
        <3>1. q[2] <= c[1]
            BY <2>2, <2>3, <2>12, <2>14
        <3> QED
            BY <2>2, <2>3, <3>1
    <2> QED
        BY <2>12, <2>13, <2>14
<1>12. ASSUME NEW w \in rec.writes, NEW b \in rec.writes,
              NEW q \in AreaWrites(s, w), NEW r \in AreaWrites(t, b)
       PROVE  ~ (q[1] < r[2] /\ r[1] < q[2])
    BY <1>7, <1>8, <1>10
<1>13. ASSUME NEW w \in rec.writes, NEW q \in AreaWrites(s, w), NEW r \in ReadRanges(recs, t)
       PROVE  ~ (q[1] < r[2] /\ r[1] < q[2])
    <2>1. InRows(q, w, s)
        BY <1>7
    <2>2. CASE r \in rec.common
        BY <1>11, <2>1, <2>2
    <2>3. CASE \E a \in rec.reads : r = AreaRead(t, a)
        BY <1>9, <1>10, <2>1, <2>3
    <2> QED
        BY <1>5, <2>2, <2>3, SliceRanges
<1>14. ASSUME NEW w \in rec.writes, NEW q \in AreaWrites(t, w), NEW r \in ReadRanges(recs, s)
       PROVE  ~ (q[1] < r[2] /\ r[1] < q[2])
    <2>1. InRows(q, w, t)
        BY <1>8
    <2>2. CASE r \in rec.common
        BY <1>11, <2>1, <2>2
    <2>3. CASE \E a \in rec.reads : r = AreaRead(s, a)
        BY <1>9, <1>10, <2>1, <2>3
    <2> QED
        BY <1>5, <2>2, <2>3, SliceRanges
<1>15. /\ \A q \in WriteRanges(recs, s) : \E w \in rec.writes : q \in AreaWrites(s, w)
       /\ \A q \in WriteRanges(recs, t) : \E w \in rec.writes : q \in AreaWrites(t, w)
    BY <1>5, SliceRanges
<1>16. ~ Meet(WriteRanges(recs, s), WriteRanges(recs, t)) /\ ~ Meet(WriteRanges(recs, t), WriteRanges(recs, s))
    BY <1>12, <1>15 DEF Meet
<1>17. ~ Meet(ReadRanges(recs, s), WriteRanges(recs, t)) /\ ~ Meet(WriteRanges(recs, t), ReadRanges(recs, s))
    BY <1>14, <1>15 DEF Meet
<1>18. ~ Meet(ReadRanges(recs, t), WriteRanges(recs, s)) /\ ~ Meet(WriteRanges(recs, s), ReadRanges(recs, t))
    BY <1>13, <1>15 DEF Meet
<1> QED
    BY <1>16, <1>17, <1>18 DEF Clash

(***************************************************************************)
(* split_vector, record by record.                                         *)
(***************************************************************************)
\* The slices placed up to record m.
UptoOf(f, i, j, m) ==
    f = [k \in i - 1 .. m |-> IF k = i - 1 THEN {} ELSE f[k - 1] \cup Place(recs, i, j, k, f[k - 1])]

\* The function that split_vector's loop computes exists: by induction over the
\* records, with LeastNumber.
LEMMA UptoExists ==
    ASSUME NEW i \in Nat \ {0}, NEW j \in Nat, i - 1 <= j
    PROVE  \E f : UptoOf(f, i, j, j)
<1> DEFINE S == {m \in i - 1 .. j : ~ \E f : UptoOf(f, i, j, m)}
<1>1. SUFFICES ASSUME S # {} PROVE FALSE
    OBVIOUS
<1>2. PICK m \in S : \A p \in S : m <= p
    <2>1. S \in SUBSET (i - 1 .. j) /\ i - 1 \in Int /\ j \in Int
        OBVIOUS
    <2> HIDE DEF S
    <2> QED
        BY <1>1, <2>1, LeastNumber
<1>3. CASE m = i - 1
    <2> DEFINE f == [k \in i - 1 .. i - 1 |-> {}]
    <2>1. f = [k \in i - 1 .. m |-> IF k = i - 1 THEN {} ELSE f[k - 1] \cup Place(recs, i, j, k, f[k - 1])]
        BY <1>3
    <2> HIDE DEF f
    <2>2. UptoOf(f, i, j, m)
        BY <2>1 DEF UptoOf
    <2> QED
        BY <2>2
<1>4. CASE m # i - 1
    <2>1. m - 1 \in i - 1 .. j /\ m - 1 < m /\ m \in Int
        BY <1>4
    <2>2. m - 1 \notin S
        BY <1>2, <2>1
    <2>3. PICK f : UptoOf(f, i, j, m - 1)
        BY <2>1, <2>2
    <2>4. /\ DOMAIN f = i - 1 .. m - 1
          /\ \A k \in i - 1 .. m - 1 :
                f[k] = IF k = i - 1 THEN {} ELSE f[k - 1] \cup Place(recs, i, j, k, f[k - 1])
        BY <2>3 DEF UptoOf
    <2> DEFINE last == f[m - 1] \cup Place(recs, i, j, m, f[m - 1])
               h == [k \in i - 1 .. m |-> IF k = m THEN last ELSE f[k]]
    <2>5. \A k \in i - 1 .. m - 1 : h[k] = f[k] /\ k # m
        BY <2>1
    <2>6. ASSUME NEW k \in i - 1 .. m
          PROVE  h[k] = IF k = i - 1 THEN {} ELSE h[k - 1] \cup Place(recs, i, j, k, h[k - 1])
        <3>1. CASE k = m
            <4>1. h[k] = last /\ h[m - 1] = f[m - 1]
                BY <2>1, <2>5, <3>1
            <4> HIDE DEF h
            <4> QED
                BY <1>4, <3>1, <4>1
        <3>2. CASE k = i - 1 /\ k # m
            <4>1. k \in i - 1 .. m - 1
                BY <2>1, <3>2
            <4> QED
                BY <2>4, <2>5, <3>2, <4>1
        <3>3. CASE k # i - 1 /\ k # m
            <4>1. k \in i - 1 .. m - 1 /\ k - 1 \in i - 1 .. m - 1
                BY <2>1, <3>3
            <4>2. h[k] = f[k] /\ h[k - 1] = f[k - 1]
                BY <2>5, <4>1
            <4> HIDE DEF h
            <4> QED
                BY <2>4, <3>3, <4>1, <4>2
        <3> QED
            BY <3>1, <3>2, <3>3
    <2>7. h = [k \in i - 1 .. m |-> h[k]]
        OBVIOUS
    <2> HIDE DEF h
    <2>8. UptoOf(h, i, j, m)
        BY <2>6, <2>7 DEF UptoOf
    <2> QED
        BY <2>8
<1> QED
    BY <1>3, <1>4

\* What split_vector makes of a record depends on the others only through the
\* granularity and, when it stays whole, the load of the parts.
LEMMA SplitSlices ==
    ASSUME NEW i \in Nat \ {0}, NEW j \in Nat, i - 1 <= j
    PROVE  \E before :
                \A s : s \in Split(recs, i, j) <=> \E k \in i .. j : s \in Place(recs, i, j, k, before[k])
<1> DEFINE f == CHOOSE g : UptoOf(g, i, j, j)
<1>1. UptoOf(f, i, j, j)
    BY UptoExists
<1>2. Split(recs, i, j) = f[j]
    BY DEF Split, UptoOf
<1> HIDE DEF f
<1>3. /\ DOMAIN f = i - 1 .. j
      /\ \A k \in i - 1 .. j :
            f[k] = IF k = i - 1 THEN {} ELSE f[k - 1] \cup Place(recs, i, j, k, f[k - 1])
    BY <1>1 DEF UptoOf
<1> DEFINE Q(m) == \A s : s \in f[m] <=> \E k \in i .. m : s \in Place(recs, i, j, k, f[k - 1])
           S == {m \in i - 1 .. j : ~ Q(m)}
<1>4. S = {}
    <2>1. SUFFICES ASSUME S # {} PROVE FALSE
        OBVIOUS
    <2>2. PICK m \in S : \A p \in S : m <= p
        <3>1. S \in SUBSET (i - 1 .. j) /\ i - 1 \in Int /\ j \in Int
            OBVIOUS
        <3> HIDE DEF S
        <3> QED
            BY <2>1, <3>1, LeastNumber
    <2>3. CASE m = i - 1
        <3>1. f[m] = {} /\ i .. m = {}
            BY <1>3, <2>3
        <3> QED
            BY <3>1
    <2>4. CASE m # i - 1
        <3>1. m - 1 \in i - 1 .. j /\ m - 1 < m /\ m \in Int /\ m \in i - 1 .. j
            BY <2>4
        <3>2. Q(m - 1)
            BY <2>2, <3>1
        <3>3. f[m] = f[m - 1] \cup Place(recs, i, j, m, f[m - 1])
            BY <1>3, <2>4, <3>1
        <3>4. i .. m = (i .. m - 1) \cup {m}
            BY <2>4, <3>1
        <3>5. Q(m)
            BY <3>2, <3>3, <3>4
        <3> QED
            BY <3>5
    <2> QED
        BY <2>3, <2>4
<1>5. Q(j)
    <2>1. j \in i - 1 .. j
        OBVIOUS
    <2> QED
        BY <1>4, <2>1
<1> DEFINE b == [k \in i .. j |-> f[k - 1]]
<1>6. \A s : s \in Split(recs, i, j) <=> \E k \in i .. j : s \in Place(recs, i, j, k, b[k])
    BY <1>2, <1>5
<1> HIDE DEF b
<1> QED
    BY <1>6

(***************************************************************************)
(* The loop.                                                               *)
(***************************************************************************)
\* The sub-stages that are done follow one another, and each was found to be
\* free of hazards or is a single record; so is the one that grows.
Checked(first, last) == first = last \/ ~ Hazard(recs, first, last)

IInv ==
    /\ TypeOK
    /\ \A a \in 1 .. Len(subs) : /\ subs[a][1] <= subs[a][2]
                                  /\ subs[a][2] < start
                                  /\ Checked(subs[a][1], subs[a][2])
    /\ \A a \in 1 .. Len(subs) - 1 : subs[a + 1][1] = subs[a][2] + 1
    /\ Len(subs) = 0 => start = 1
    /\ Len(subs) > 0 => subs[1][1] = 1 /\ subs[Len(subs)][2] = start - 1
    /\ start <= next
    /\ start <= Len(recs) => start < next /\ Checked(start, next - 1)

\* The numbers of the state.
LEMMA LoopTypes ==
    ASSUME IInv
    PROVE  /\ recs \in Seq(Record) /\ Len(recs) \in Nat /\ Len(subs) \in Nat
           /\ start \in Nat /\ next \in Nat /\ 1 <= start /\ start <= Len(recs) + 1
           /\ 2 <= next /\ next <= Len(recs) + 1
           /\ \A a \in 1 .. Len(subs) :
                subs[a][1] \in 1 .. Len(recs) /\ subs[a][2] \in 1 .. Len(recs)
<1>1. recs \in Seq(Record) /\ subs \in Seq((1 .. Len(recs)) \X (1 .. Len(recs)))
    BY DEF IInv, TypeOK
<1>2. Len(recs) \in Nat /\ Len(subs) \in Nat
    BY <1>1
<1>3. \A a \in 1 .. Len(subs) : subs[a] \in (1 .. Len(recs)) \X (1 .. Len(recs))
    BY <1>1
<1> QED
    BY <1>1, <1>2, <1>3 DEF IInv, TypeOK

\* Closing a sub-stage: the list grows by <<start, last>>, the rest starts anew.
LEMMA CloseKeeps ==
    ASSUME IInv, start <= Len(recs), NEW last \in start .. Len(recs), Checked(start, last),
           recs' = recs, subs' = Append(subs, <<start, last>>), start' = last + 1
    PROVE  /\ subs' \in Seq((1 .. Len(recs')) \X (1 .. Len(recs')))
           /\ \A a \in 1 .. Len(subs') : /\ subs'[a][1] <= subs'[a][2]
                                          /\ subs'[a][2] < start'
                                          /\ Checked(subs'[a][1], subs'[a][2])
           /\ \A a \in 1 .. Len(subs') - 1 : subs'[a + 1][1] = subs'[a][2] + 1
           /\ Len(subs') > 0 /\ subs'[1][1] = 1 /\ subs'[Len(subs')][2] = start' - 1
<1> DEFINE n == Len(subs)
           D == (1 .. Len(recs)) \X (1 .. Len(recs))
           x == <<start, last>>
<1>1. n \in Nat /\ start \in Nat /\ last \in Nat /\ 1 <= start /\ start <= last /\ Len(recs) \in Nat
    BY LoopTypes
<1>2. x \in D /\ subs \in Seq(D)
    <2>1. start \in 1 .. Len(recs) /\ last \in 1 .. Len(recs)
        BY <1>1
    <2>2. subs \in Seq(D)
        BY DEF IInv, TypeOK
    <2> QED
        BY <2>1, <2>2
<1>3. /\ subs' \in Seq(D) /\ Len(subs') = n + 1 /\ subs'[n + 1] = x
      /\ \A a \in 1 .. n : subs'[a] = subs[a]
    <2> HIDE DEF D, x
    <2> QED
        BY <1>2 DEF x
<1>4. subs'[n + 1][1] = start /\ subs'[n + 1][2] = last
    BY <1>3
<1>5. \A a \in 1 .. n + 1 : a \in 1 .. n \/ a = n + 1
    BY <1>1
<1>6. \A a \in 1 .. n : subs[a][2] \in Nat
    BY LoopTypes
<1>7. ASSUME NEW a \in 1 .. n + 1
      PROVE  subs'[a][1] <= subs'[a][2] /\ subs'[a][2] < start' /\ Checked(subs'[a][1], subs'[a][2])
    <2>1. CASE a \in 1 .. n
        <3>1. subs[a][1] <= subs[a][2] /\ subs[a][2] < start /\ Checked(subs[a][1], subs[a][2])
            BY <2>1 DEF IInv
        <3> QED
            BY <1>1, <1>3, <1>6, <2>1, <3>1
    <2>2. CASE a = n + 1
        BY <1>1, <1>4, <2>2
    <2> QED
        BY <1>5, <2>1, <2>2
<1>8. ASSUME NEW a \in 1 .. n PROVE subs'[a + 1][1] = subs'[a][2] + 1
    <2>1. CASE a = n
        <3>1. subs[n][2] = start - 1
            BY <1>1, <2>1 DEF IInv
        <3> QED
            BY <1>1, <1>3, <1>4, <2>1, <3>1
    <2>2. CASE a # n
        <3>1. a \in 1 .. n - 1 /\ a + 1 \in 1 .. n
            BY <1>1, <2>2
        <3>2. subs[a + 1][1] = subs[a][2] + 1
            BY <3>1 DEF IInv
        <3> QED
            BY <1>3, <3>1, <3>2
    <2> QED
        BY <2>1, <2>2
<1>9. subs'[1][1] = 1
    <2>1. CASE n = 0
        <3>1. start = 1
            BY <2>1 DEF IInv
        <3> QED
            BY <1>4, <2>1, <3>1
    <2>2. CASE n > 0
        <3>1. subs[1][1] = 1 /\ 1 \in 1 .. n
            BY <1>1, <2>2 DEF IInv
        <3> QED
            BY <1>3, <3>1
    <2> QED
        BY <1>1, <2>1, <2>2
<1>10. n + 1 > 0 /\ (n + 1) - 1 = n /\ start' - 1 = last
    BY <1>1
<1> QED
    BY <1>3, <1>4, <1>7, <1>8, <1>9, <1>10

\* One record grows at first, nothing is done.
LEMMA InitInv == Init => IInv
<1> SUFFICES ASSUME Init PROVE IInv
    OBVIOUS
<1>1. PICK n \in 1 .. MaxRecords : recs \in [1 .. n -> Record]
    BY DEF Init
<1>2. MaxRecords \in Nat /\ n \in Nat
    BY RecordAssumption
<1>3. recs \in Seq(Record) /\ Len(recs) = n
    BY <1>1, <1>2
<1>4. start = 1 /\ next = 2 /\ subs = <<>> /\ Len(subs) = 0
    BY DEF Init
<1>5. TypeOK
    BY <1>1, <1>2, <1>3, <1>4 DEF TypeOK
<1>6. Checked(start, next - 1)
    BY <1>4 DEF Checked
<1> QED
    BY <1>4, <1>5, <1>6 DEF IInv

\* The records of the stage do not change, so neither does what is found in them.
LEMMA CheckedSame ==
    ASSUME NEW a, recs' = recs, Checked(subs'[a][1], subs'[a][2])
    PROVE  Checked(subs[a][1], subs[a][2])'
    BY DEF Checked

\* Extending: what is done stays, and the longer sub-stage was looked at.
LEMMA ExtendInv == IInv /\ Extend => IInv'
<1> SUFFICES ASSUME IInv, Extend PROVE IInv'
    OBVIOUS
<1>1. /\ recs' = recs /\ start' = start /\ subs' = subs /\ next' = next + 1
      /\ next <= Len(recs) /\ ~ Hazard(recs, start, next)
    BY DEF Extend
<1>2. next \in Nat /\ 2 <= next /\ start \in Nat /\ Len(recs) \in Nat
    BY LoopTypes
<1>3. TypeOK'
    <2>1. TypeOK
        BY DEF IInv
    <2>2. next' \in 2 .. Len(recs) + 1
        BY <1>1, <1>2
    <2> QED
        BY <1>1, <2>1, <2>2 DEF TypeOK
<1>4. start <= Len(recs) => start < next
    BY DEF IInv
<1>5. start' <= Len(recs') => start' < next' /\ Checked(start, next - 1)'
    <2>1. next' - 1 = next
        BY <1>1, <1>2
    <2>2. Checked(start, next - 1)'
        BY <1>1, <2>1 DEF Checked
    <2>3. start <= Len(recs) => start < next + 1
        BY <1>2, <1>4
    <2> QED
        BY <1>1, <2>2, <2>3
<1>8. start' <= next'
    BY <1>1, <1>2 DEF IInv
<1>6. ASSUME NEW a \in 1 .. Len(subs')
      PROVE  /\ subs'[a][1] <= subs'[a][2] /\ subs'[a][2] < start'
             /\ Checked(subs[a][1], subs[a][2])'
    <2>1. subs[a][1] <= subs[a][2] /\ subs[a][2] < start /\ Checked(subs[a][1], subs[a][2])
        BY <1>1 DEF IInv
    <2> QED
        BY <1>1, <2>1, CheckedSame
<1>7. /\ \A a \in 1 .. Len(subs') - 1 : subs'[a + 1][1] = subs'[a][2] + 1
      /\ Len(subs') = 0 => start' = 1
      /\ Len(subs') > 0 => subs'[1][1] = 1 /\ subs'[Len(subs')][2] = start' - 1
    BY <1>1 DEF IInv
<1> QED
    BY <1>3, <1>5, <1>6, <1>7, <1>8 DEF IInv

\* Cutting: the sub-stage that grew was looked at when it was last extended, and
\* a single record starts the next one.
LEMMA CutInv == IInv /\ Cut => IInv'
<1> SUFFICES ASSUME IInv, Cut PROVE IInv'
    OBVIOUS
<1>1. /\ recs' = recs /\ start' = next /\ subs' = Append(subs, <<start, next - 1>>)
      /\ next' = next + 1 /\ next <= Len(recs)
    BY DEF Cut
<1>2. next \in Nat /\ 2 <= next /\ start \in Nat /\ 1 <= start /\ Len(recs) \in Nat
    BY LoopTypes
<1>3. start <= Len(recs) /\ start < next /\ Checked(start, next - 1)
    <2>1. start <= Len(recs)
        BY <1>1, <1>2 DEF IInv
    <2> QED
        BY <2>1 DEF IInv
<1>4. next - 1 \in start .. Len(recs) /\ start' = (next - 1) + 1
    BY <1>1, <1>2, <1>3
<1> DEFINE last == next - 1
<1>5. /\ last \in start .. Len(recs) /\ Checked(start, last)
      /\ subs' = Append(subs, <<start, last>>) /\ start' = last + 1
    BY <1>1, <1>3, <1>4
<1> HIDE DEF last
<1>6. /\ subs' \in Seq((1 .. Len(recs')) \X (1 .. Len(recs')))
      /\ \A a \in 1 .. Len(subs') : /\ subs'[a][1] <= subs'[a][2]
                                     /\ subs'[a][2] < start'
                                     /\ Checked(subs'[a][1], subs'[a][2])
      /\ \A a \in 1 .. Len(subs') - 1 : subs'[a + 1][1] = subs'[a][2] + 1
      /\ Len(subs') > 0 /\ subs'[1][1] = 1 /\ subs'[Len(subs')][2] = start' - 1
    BY <1>1, <1>3, <1>5, CloseKeeps
<1>7. \A a \in 1 .. Len(subs') : Checked(subs[a][1], subs[a][2])'
    BY <1>1, <1>6, CheckedSame
<1>8. TypeOK'
    <2>1. /\ start' \in 1 .. Len(recs') + 1 /\ next' \in 2 .. Len(recs') + 1
        BY <1>1, <1>2
    <2> QED
        BY <1>1, <1>6, <2>1 DEF TypeOK, IInv
<1>9. start' < next' /\ Checked(start, next - 1)'
    <2>1. start' < next' /\ next' - 1 = start'
        BY <1>1, <1>2
    <2> QED
        BY <2>1 DEF Checked
<1>10. start' <= next' /\ ~ (Len(subs') = 0)
    BY <1>1, <1>2, <1>6
<1> QED
    BY <1>6, <1>7, <1>8, <1>9, <1>10 DEF IInv

\* Finishing: the sub-stage that grew was looked at with the last record in it.
LEMMA FinishInv == IInv /\ Finish => IInv'
<1> SUFFICES ASSUME IInv, Finish PROVE IInv'
    OBVIOUS
<1>1. /\ recs' = recs /\ start' = Len(recs) + 1 /\ subs' = Append(subs, <<start, Len(recs)>>)
      /\ next' = next /\ next > Len(recs) /\ start <= Len(recs)
    BY DEF Finish
<1>2. /\ next \in Nat /\ next = Len(recs) + 1 /\ start \in Nat /\ 1 <= start /\ Len(recs) \in Nat
    BY <1>1, LoopTypes
<1> DEFINE last == Len(recs)
<1>3. next - 1 = last
    BY <1>2
<1>4. /\ last \in start .. Len(recs) /\ Checked(start, last)
      /\ subs' = Append(subs, <<start, last>>) /\ start' = last + 1
    BY <1>1, <1>2, <1>3 DEF IInv
<1> HIDE DEF last
<1>5. /\ subs' \in Seq((1 .. Len(recs')) \X (1 .. Len(recs')))
      /\ \A a \in 1 .. Len(subs') : /\ subs'[a][1] <= subs'[a][2]
                                     /\ subs'[a][2] < start'
                                     /\ Checked(subs'[a][1], subs'[a][2])
      /\ \A a \in 1 .. Len(subs') - 1 : subs'[a + 1][1] = subs'[a][2] + 1
      /\ Len(subs') > 0 /\ subs'[1][1] = 1 /\ subs'[Len(subs')][2] = start' - 1
    BY <1>1, <1>4, CloseKeeps
<1>6. \A a \in 1 .. Len(subs') : Checked(subs[a][1], subs[a][2])'
    BY <1>1, <1>5, CheckedSame
<1>7. TypeOK'
    <2>1. /\ start' \in 1 .. Len(recs') + 1 /\ next' \in 2 .. Len(recs') + 1
        BY <1>1, <1>2, LoopTypes
    <2> QED
        BY <1>1, <1>5, <2>1 DEF TypeOK, IInv
<1>8. start' <= next' /\ ~ (start' <= Len(recs')) /\ ~ (Len(subs') = 0)
    BY <1>1, <1>2, <1>5
<1> QED
    BY <1>5, <1>6, <1>7, <1>8 DEF IInv

\* Every sub-stage of split_vector_safe was checked, and they follow one another.
THEOREM Invariance == Spec => []IInv
<1>1. IInv /\ UNCHANGED vars => IInv'
    BY DEF IInv, TypeOK, Checked, vars
<1>2. IInv /\ [Next]_vars => IInv'
    BY <1>1, ExtendInv, CutInv, FinishInv DEF Next
<1> QED
    BY <1>2, InitInv, PTL DEF Spec

(***************************************************************************)
(* The parts of a sub-stage are independent.                               *)
(***************************************************************************)
\* Where a slice of the records i .. j comes from.
LEMMA SliceOrigin ==
    ASSUME recs \in Seq(Record), NEW i \in Nat \ {0}, NEW j \in Nat, i <= j, j <= Len(recs),
           NEW s \in Split(recs, i, j)
    PROVE  \E k \in i .. j :
                /\ s.rec = k
                /\ \/ Whole(recs, i, j, k) /\ s.first = 0 /\ s.count = recs[k].rows
                   \/ ~ Whole(recs, i, j, k) /\ s \in Cuts(k, recs[k].rows, Gran(recs, i, j, k))
<1>1. PICK before :
        \A x : x \in Split(recs, i, j) <=> \E k \in i .. j : x \in Place(recs, i, j, k, before[k])
    BY SplitSlices
<1>2. PICK k \in i .. j : s \in Place(recs, i, j, k, before[k])
    BY <1>1
<1>3. CASE Whole(recs, i, j, k)
    BY <1>2, <1>3 DEF Place
<1>4. CASE ~ Whole(recs, i, j, k)
    <2>1. s \in Cuts(k, recs[k].rows, Gran(recs, i, j, k))
        BY <1>2, <1>4 DEF Place
    <2>2. s.rec = k
        BY <2>1 DEF Cuts
    <2> QED
        BY <1>4, <2>1, <2>2
<1> QED
    BY <1>3, <1>4

\* A sub-stage of one record: its parts cannot clash, which is why the loop need
\* not look at it.
LEMMA AloneApart ==
    ASSUME recs \in Seq(Record), NEW k \in 1 .. Len(recs),
           NEW s \in Split(recs, k, k), NEW t \in Split(recs, k, k), s.part # t.part
    PROVE  ~ Clash(recs, s, t)
<1>1. k \in Nat \ {0} /\ k <= Len(recs) /\ k .. k = {k}
    OBVIOUS
<1>2. PICK before :
        \A x : x \in Split(recs, k, k) <=> \E m \in k .. k : x \in Place(recs, k, k, m, before[m])
    BY <1>1, SplitSlices
<1>3. s \in Place(recs, k, k, k, before[k]) /\ t \in Place(recs, k, k, k, before[k])
    BY <1>1, <1>2
<1>4. ~ Whole(recs, k, k, k)
    BY <1>3 DEF Place
<1>5. /\ s \in Cuts(k, recs[k].rows, Gran(recs, k, k, k))
      /\ t \in Cuts(k, recs[k].rows, Gran(recs, k, k, k))
    BY <1>3, <1>4 DEF Place
<1>6. s.part \in Int /\ t.part \in Int
    BY <1>5 DEF Cuts, Parts
<1>7. s.part < t.part \/ t.part < s.part
    BY <1>6
<1>8. CASE s.part < t.part
    BY <1>1, <1>4, <1>5, <1>8, OwnSlicesApart
<1>9. CASE t.part < s.part
    BY <1>1, <1>4, <1>5, <1>9, OwnSlicesApart
<1> QED
    BY <1>7, <1>8, <1>9

\* The parts of a sub-stage touch nothing that another of them writes
\* (split_vector_safe), for every set of records, number of nodes and size of beat.
THEOREM PartsAreIndependent == Spec => []PartsIndependent
<1>1. IInv => PartsIndependent
    <2> SUFFICES ASSUME IInv, NEW a \in 1 .. Len(subs),
                        NEW s \in Slices(a), NEW t \in Slices(a), s.part # t.part
                 PROVE  ~ Clash(recs, s, t)
        BY DEF PartsIndependent
    <2> DEFINE first == subs[a][1]
               last == subs[a][2]
    <2>1. /\ recs \in Seq(Record) /\ first \in 1 .. Len(recs) /\ Checked(first, last)
        BY LoopTypes DEF IInv
    <2>2. s \in Split(recs, first, last) /\ t \in Split(recs, first, last)
        BY DEF Slices
    <2> HIDE DEF first, last
    <2>3. CASE first = last
        BY <2>1, <2>2, <2>3, AloneApart
    <2>4. CASE ~ Hazard(recs, first, last)
        BY <2>2, <2>4 DEF Hazard
    <2> QED
        BY <2>1, <2>3, <2>4 DEF Checked
<1> QED
    BY <1>1, Invariance, PTL

(***************************************************************************)
(* The slices that are made are aligned.                                   *)
(***************************************************************************)
\* The assertions of rec_slice never fail: a slice starts at a multiple of the
\* granularity of its record, or at row 0.
THEOREM SlicesAreAligned == Spec => []SlicesAligned
<1>1. IInv => SlicesAligned
    <2> SUFFICES ASSUME IInv, NEW a \in 1 .. Len(subs), NEW s \in Slices(a)
                 PROVE  SliceAligned(recs[s.rec], s.first)
        BY DEF SlicesAligned
    <2> DEFINE i == subs[a][1]
               j == subs[a][2]
    <2>1. /\ recs \in Seq(Record) /\ i \in 1 .. Len(recs) /\ j \in 1 .. Len(recs) /\ i <= j
        BY LoopTypes DEF IInv
    <2>2. s \in Split(recs, i, j)
        BY DEF Slices
    <2> HIDE DEF i, j
    <2>3. i \in Nat \ {0} /\ j \in Nat /\ j <= Len(recs)
        BY <2>1
    <2>4. PICK k \in i .. j :
            /\ s.rec = k
            /\ \/ Whole(recs, i, j, k) /\ s.first = 0 /\ s.count = recs[k].rows
               \/ ~ Whole(recs, i, j, k) /\ s \in Cuts(k, recs[k].rows, Gran(recs, i, j, k))
        BY <2>1, <2>2, <2>3, SliceOrigin
    <2>5. CASE s.first = 0
        <3>1. recs[k] \in Record
            BY <2>1, <2>3
        <3>2. \A w \in recs[k].writes \cup recs[k].reads : w.base + 0 * w.step = w.base /\ Aligned(w.base)
            BY <3>1, RecordFacts
        <3> QED
            BY <2>4, <2>5, <3>2 DEF SliceAligned
    <2>6. CASE ~ Whole(recs, i, j, k) /\ s \in Cuts(k, recs[k].rows, Gran(recs, i, j, k))
        <3>1. SliceAligned(recs[k], s.first)
            BY <2>1, <2>3, <2>6, CutAligned
        <3> QED
            BY <2>4, <3>1
    <2> QED
        BY <2>4, <2>5, <2>6
<1> QED
    BY <1>1, Invariance, PTL

(***************************************************************************)
(* Every row is computed once.                                             *)
(***************************************************************************)
\* The types of the generator's state hold: the numbers of the loop stay
\* within the stage, a sub-stage is a pair of its records.
THEOREM TypeCorrect == Spec => []TypeOK
<1>1. IInv => TypeOK
    BY DEF IInv
<1> QED
    BY <1>1, Invariance, PTL

\* Sub-stages follow one another: an earlier one ends before a later one begins.
LEMMA SubsApart ==
    ASSUME IInv, NEW a \in 1 .. Len(subs), NEW b \in 1 .. Len(subs), a < b
    PROVE  subs[a][2] < subs[b][1]
<1> DEFINE n == Len(subs)
           S == {m \in a + 1 .. n : ~ (subs[a][2] < subs[m][1])}
<1>1. n \in Nat /\ a \in 1 .. n /\ b \in a + 1 .. n
    BY LoopTypes
<1>2. SUFFICES ASSUME S # {} PROVE FALSE
    BY <1>1
<1>3. PICK m \in S : \A p \in S : m <= p
    <2>1. S \in SUBSET (a + 1 .. n) /\ a + 1 \in Int /\ n \in Int
        BY <1>1
    <2> HIDE DEF S
    <2> QED
        BY <1>2, <2>1, LeastNumber
<1>4. m - 1 \in 1 .. n - 1 /\ m \in 1 .. n /\ (m - 1) + 1 = m /\ m - 1 \in a .. n
    BY <1>1
<1>5. subs[m][1] = subs[m - 1][2] + 1
    <2> DEFINE q == m - 1
    <2>1. q \in 1 .. Len(subs) - 1 /\ q + 1 = m
        BY <1>4
    <2>2. subs[q + 1][1] = subs[q][2] + 1
        BY <2>1 DEF IInv
    <2> QED
        BY <2>1, <2>2
<1>6. /\ subs[a][2] \in Int /\ subs[m - 1][1] \in Int /\ subs[m - 1][2] \in Int
      /\ subs[m - 1][1] <= subs[m - 1][2]
    <2>1. m - 1 \in 1 .. Len(subs)
        BY <1>1, <1>4
    <2>2. \A x \in 1 .. Len(subs) :
            subs[x][1] \in Int /\ subs[x][2] \in Int /\ subs[x][1] <= subs[x][2]
        <3>1. Len(recs) \in Nat
            BY LoopTypes
        <3> QED
            BY <3>1, LoopTypes DEF IInv
    <2> QED
        BY <1>1, <2>1, <2>2
<1>7. CASE m - 1 = a
    BY <1>5, <1>6, <1>7
<1>8. CASE m - 1 # a
    <2>1. m - 1 \in a + 1 .. n /\ m - 1 < m
        BY <1>1, <1>4, <1>8
    <2>2. subs[a][2] < subs[m - 1][1]
        BY <1>3, <1>1, <2>1
    <2> QED
        BY <1>5, <1>6, <2>2
<1> QED
    BY <1>7, <1>8

\* A record that the loop has passed is in one sub-stage.
LEMMA SubOfRecord ==
    ASSUME IInv, NEW k \in 1 .. start - 1
    PROVE  \E a \in 1 .. Len(subs) :
                /\ subs[a][1] <= k /\ k <= subs[a][2]
                /\ \A b \in 1 .. Len(subs) : subs[b][1] <= k /\ k <= subs[b][2] => b = a
<1> DEFINE n == Len(subs)
           S == {m \in 1 .. n : k <= subs[m][2]}
<1>1. n \in Nat /\ start \in Nat /\ k \in Nat /\ 1 <= k /\ k <= start - 1
    BY LoopTypes
<1>2. n > 0 /\ subs[1][1] = 1 /\ subs[n][2] = start - 1
    BY <1>1 DEF IInv
<1>3. S # {}
    <2>1. n \in S
        BY <1>1, <1>2
    <2> QED
        BY <2>1
<1>4. PICK a \in S : \A p \in S : a <= p
    <2>1. S \in SUBSET (1 .. n) /\ 1 \in Int /\ n \in Int
        BY <1>1
    <2> HIDE DEF S
    <2> QED
        BY <1>3, <2>1, LeastNumber
<1>5. a \in 1 .. n /\ k <= subs[a][2]
    OBVIOUS
<1>6. subs[a][1] <= k
    <2>1. CASE a = 1
        BY <1>1, <1>2, <2>1
    <2>2. CASE a # 1
        <3> DEFINE q == a - 1
        <3>1. q \in 1 .. n - 1 /\ q \in 1 .. n /\ q + 1 = a /\ q < a /\ a \in Nat
            BY <1>1, <1>5, <2>2
        <3>2. subs[q + 1][1] = subs[q][2] + 1
            BY <3>1 DEF IInv
        <3>3. ~ (k <= subs[q][2])
            <4>1. q \notin S
                BY <1>4, <3>1
            <4> QED
                BY <3>1, <4>1
        <3>4. subs[q][2] \in Int
            BY <3>1, LoopTypes
        <3> QED
            BY <1>1, <3>1, <3>2, <3>3, <3>4
    <2> QED
        BY <2>1, <2>2
<1>7. ASSUME NEW b \in 1 .. n, subs[b][1] <= k, k <= subs[b][2] PROVE b = a
    <2>1. /\ subs[a][1] \in Int /\ subs[a][2] \in Int /\ subs[b][1] \in Int /\ subs[b][2] \in Int
          /\ a \in Int /\ b \in Int
        BY <1>1, <1>5, LoopTypes
    <2>2. CASE a < b
        BY <1>1, <1>5, <1>7, <2>1, <2>2, SubsApart
    <2>3. CASE b < a
        BY <1>1, <1>6, <1>7, <2>1, <2>3, <1>5, SubsApart
    <2> QED
        BY <2>1, <2>2, <2>3
<1> QED
    BY <1>5, <1>6, <1>7

\* What holds row r of record k in a set of slices.
Holds(s, k, r) == s.rec = k /\ s.first <= r /\ r < s.first + s.count

\* The cuts of a record hold each of its rows once.
LEMMA CutsHold ==
    ASSUME NEW k, NEW rows \in Nat \ {0}, NEW g \in Nat \ {0}, NEW r \in 0 .. rows - 1
    PROVE  \E s \in Cuts(k, rows, g) :
                Holds(s, k, r) /\ \A t \in Cuts(k, rows, g) : Holds(t, k, r) => t = s
<1> DEFINE per == Per(rows, g)
           p == r \div per
           z == r % per
           lo == p * per
<1>1. per \in Nat \ {0} /\ rows <= NumNodes * per /\ NumNodes \in Nat \ {0} /\ r \in Nat
    BY PerFacts, RecordAssumption
<1>2. p \in Nat /\ z \in 0 .. per - 1 /\ r = lo + z /\ lo \in Nat
    <2> HIDE DEF per
    <2>1. p \in Nat /\ z \in 0 .. per - 1 /\ r = lo + z
        BY <1>1, DivMod
    <2> HIDE DEF p, z
    <2> QED
        BY <1>1, <2>1, TimesAssoc
<1> HIDE DEF per, p, z
<1>3. p \in Parts
    <2>1. CASE NumNodes <= p
        <3>1. NumNodes * per <= p * per
            BY <1>1, <1>2, <2>1, TimesMonotone
        <3> DEFINE u == NumNodes * per
        <3>2. u \in Int
            BY <1>1
        <3> HIDE DEF lo, u
        <3>3. u <= lo /\ rows <= u
            BY <1>1, <3>1 DEF lo, u
        <3> QED
            BY <1>1, <1>2, <3>2, <3>3
    <2>2. CASE p < NumNodes
        BY <1>1, <1>2, <2>2 DEF Parts
    <2> QED
        BY <1>1, <1>2, <2>1, <2>2
<1>4. lo < rows
    <2> HIDE DEF lo
    <2> QED
        BY <1>1, <1>2
<1>5. PICK s \in Cuts(k, rows, g) : s.part = p
    BY <1>3, <1>4, CutExists DEF per
<1>6. /\ s.rec = k /\ s.first = lo /\ s.count \in Nat
      /\ s.count = per \/ lo + s.count = rows
    <2>1. CutOK(s, k, rows, per)
        BY CutFacts DEF per
    <2> QED
        BY <1>5, <2>1 DEF CutOK
<1>7. Holds(s, k, r)
    <2> HIDE DEF lo
    <2> QED
        BY <1>1, <1>2, <1>6 DEF Holds
<1>8. ASSUME NEW t \in Cuts(k, rows, g), Holds(t, k, r) PROVE t = s
    <2>1. t.part \in Int /\ s.part \in Int
        BY DEF Cuts, Parts
    <2>2. /\ t.first \in Nat /\ t.count \in Nat /\ s.first \in Nat /\ s.count \in Nat
          /\ r < t.first + t.count /\ t.first <= r /\ r < s.first + s.count /\ s.first <= r
        <3>1. CutOK(s, k, rows, per) /\ CutOK(t, k, rows, per)
            BY CutFacts DEF per
        <3> QED
            BY <1>7, <1>8, <3>1 DEF CutOK, Holds
    <2>3. CASE t.part < s.part
        <3>1. t.first + t.count <= s.first
            BY <2>3, CutsApart
        <3> QED
            BY <1>1, <2>2, <3>1
    <2>4. CASE s.part < t.part
        <3>1. s.first + s.count <= t.first
            BY <2>4, CutsApart
        <3> QED
            BY <1>1, <2>2, <3>1
    <2>5. CASE s.part = t.part
        BY <2>5 DEF Cuts
    <2> QED
        BY <2>1, <2>3, <2>4, <2>5
<1> QED
    BY <1>7, <1>8

\* split_vector over the records i .. j hands out each row of each of them once.
LEMMA SplitHolds ==
    ASSUME recs \in Seq(Record), NEW i \in Nat \ {0}, NEW j \in Nat, j <= Len(recs),
           NEW k \in i .. j, NEW r \in 0 .. recs[k].rows - 1
    PROVE  \E s \in Split(recs, i, j) :
                Holds(s, k, r) /\ \A t \in Split(recs, i, j) : Holds(t, k, r) => t = s
<1>1. i - 1 <= j
    OBVIOUS
<1>2. PICK before :
        \A s : s \in Split(recs, i, j) <=> \E m \in i .. j : s \in Place(recs, i, j, m, before[m])
    BY <1>1, SplitSlices
<1> DEFINE own == Place(recs, i, j, k, before[k])
<1>3. \A t \in Split(recs, i, j) : t.rec = k => t \in own
    <2>1. \A m \in i .. j : \A t \in Place(recs, i, j, m, before[m]) : t.rec = m
        BY DEF Place, Cuts
    <2> QED
        BY <1>2, <2>1
<1>4. own \subseteq Split(recs, i, j)
    BY <1>2
<1>5. recs[k].rows \in Nat \ {0}
    <2>1. k \in 1 .. Len(recs)
        OBVIOUS
    <2>2. recs[k] \in Record
        BY <2>1
    <2> QED
        BY <2>2, RecordFacts, RecordAssumption DEF RecordType
<1>6. \E s \in own : Holds(s, k, r) /\ \A t \in own : Holds(t, k, r) => t = s
    <2>1. CASE Whole(recs, i, j, k)
        <3> DEFINE s == [rec |-> k, part |-> LeastLoaded(recs, before[k]), first |-> 0,
                         count |-> recs[k].rows]
        <3>1. own = {s}
            BY <2>1 DEF Place
        <3>2. Holds(s, k, r)
            BY <1>5 DEF Holds
        <3> HIDE DEF s, own
        <3> QED
            BY <3>1, <3>2
    <2>2. CASE ~ Whole(recs, i, j, k)
        <3> DEFINE g == Gran(recs, i, j, k)
        <3>1. g \in Nat \ {0}
            <4>1. g \in {4, 8, 16}
                BY <2>2, GranFits
            <4> QED
                BY <4>1
        <3>2. own = Cuts(k, recs[k].rows, g)
            BY <2>2 DEF Place
        <3> HIDE DEF g, own
        <3> QED
            BY <1>5, <3>1, <3>2, CutsHold
    <2> QED
        BY <2>1, <2>2
<1> HIDE DEF own
<1>7. PICK s \in own : Holds(s, k, r) /\ \A t \in own : Holds(t, k, r) => t = s
    BY <1>6
<1>8. \A t \in Split(recs, i, j) : Holds(t, k, r) => t = s
    BY <1>3, <1>7 DEF Holds
<1> QED
    BY <1>4, <1>7, <1>8

\* Every row of every record the loop has passed is in one slice of one sub-stage,
\* and sub-stages follow one another without a gap (split_vector_safe).
THEOREM RowsAreCutOnce == Spec => []RowsOnce
<1>1. IInv => RowsOnce
    <2> SUFFICES ASSUME IInv PROVE RowsOnce
        OBVIOUS
    <2>1. ASSUME NEW k \in 1 .. start - 1
          PROVE  \E a \in 1 .. Len(subs) :
                    /\ subs[a][1] <= k /\ k <= subs[a][2]
                    /\ \A b \in 1 .. Len(subs) : subs[b][1] <= k /\ k <= subs[b][2] => b = a
                    /\ \A r \in 0 .. recs[k].rows - 1 : \E s \in Slices(a) :
                        /\ s.rec = k /\ s.first <= r /\ r < s.first + s.count
                        /\ \A t \in Slices(a) :
                            t.rec = k /\ t.first <= r /\ r < t.first + t.count => t = s
        <3>1. PICK a \in 1 .. Len(subs) :
                /\ subs[a][1] <= k /\ k <= subs[a][2]
                /\ \A b \in 1 .. Len(subs) : subs[b][1] <= k /\ k <= subs[b][2] => b = a
            BY <2>1, SubOfRecord
        <3>2. /\ recs \in Seq(Record) /\ subs[a][1] \in Nat \ {0} /\ subs[a][2] \in Nat
              /\ subs[a][2] <= Len(recs) /\ k \in subs[a][1] .. subs[a][2]
            <4>1. subs[a][1] \in 1 .. Len(recs) /\ subs[a][2] \in 1 .. Len(recs)
                BY LoopTypes
            <4> QED
                BY <3>1, <4>1, LoopTypes
        <3>3. \A r \in 0 .. recs[k].rows - 1 : \E s \in Slices(a) :
                Holds(s, k, r) /\ \A t \in Slices(a) : Holds(t, k, r) => t = s
            BY <3>2, SplitHolds DEF Slices
        <3> QED
            BY <3>1, <3>3 DEF Holds
    <2>2. \A a \in 1 .. Len(subs) - 1 : subs[a + 1][1] = subs[a][2] + 1
        BY DEF IInv
    <2> QED
        BY <2>1, <2>2 DEF RowsOnce
<1> QED
    BY <1>1, Invariance, PTL
=============================================================================
