----------------------------- MODULE StageSplit -----------------------------
(***************************************************************************)
(* How the program generator cuts a vector stage into sub-stages and the   *)
(* records of a sub-stage into parts (split_vector_safe, split_vector,     *)
(* rec_slice and rec_access of paper/sw/pi0_chunk_program.py).             *)
(*                                                                         *)
(* The parts of a sub-stage run on different nodes with no order between   *)
(* them; sub-stages are ordered by the WAITs.  So no part may touch what   *)
(* another part of its sub-stage writes.                                   *)
(*                                                                         *)
(* A record is rows of data.  An operand or result with a row per row of   *)
(* the record is an area [base, step, width]: row r is the width bytes     *)
(* from base + r * step.  Slicing the record at row r moves the base.      *)
(***************************************************************************)
EXTENDS Integers, Sequences, FiniteSetsExt

CONSTANTS
    NumNodes,   \* n, the parts a stage is cut into at most
    BEAT,       \* bytes of a beat
    Record,     \* the records
    MaxRecords  \* bound: records of a stage

Parts == 0 .. NumNodes - 1

Area == [base : Nat, step : Nat \ {0}, width : Nat \ {0}]

\* rows, elements a row, what is written and read row by row, and the byte
\* ranges that every slice reads (operands of shape C).
RecordType ==
    [rows : Nat \ {0}, len : Nat, writes : SUBSET Area, reads : SUBSET Area,
     common : SUBSET (Nat \X Nat)]

Aligned(x) == x % BEAT = 0
RoundUp(x) == ((x + BEAT - 1) \div BEAT) * BEAT

\* Buffers come from the allocator, and results are written in whole beats.
ASSUME RecordAssumption ==
    /\ NumNodes \in Nat \ {0} /\ BEAT \in Nat \ {0} /\ MaxRecords \in Nat \ {0}
    /\ Record \subseteq RecordType
    /\ \A rec \in Record :
        /\ \A a \in rec.writes \cup rec.reads : Aligned(a.base) /\ a.width <= a.step
        /\ \A w \in rec.writes : w.width # w.step => Aligned(w.width)

\* What a record reads and writes are different buffers, or the same rows.
Extent(a, rows) == a.base + RoundUp(rows * a.step)

ASSUME OwnRowsAssumption ==
    \A rec \in Record : \A w \in rec.writes :
        /\ \A a \in (rec.writes \cup rec.reads) \ {w} :
            \/ a.base = w.base /\ a.step = w.step
            \/ Extent(a, rec.rows) <= w.base
            \/ Extent(w, rec.rows) <= a.base
        /\ \A r \in rec.common : r[2] <= w.base \/ Extent(w, rec.rows) <= r[1]

VARIABLES
    recs,       \* the records of the stage
    start,      \* the first record of the sub-stage that grows
    next,       \* j: the record it is to be extended by
    subs        \* the sub-stages that are done: <<first, last>>

vars == <<recs, start, next, subs>>

TypeOK ==
    /\ recs \in Seq(Record) /\ Len(recs) \in 1 .. MaxRecords
    /\ start \in 1 .. Len(recs) + 1 /\ next \in 2 .. Len(recs) + 1
    /\ subs \in Seq((1 .. Len(recs)) \X (1 .. Len(recs)))

(***************************************************************************)
(* Granularity.  rs: the records of the stage.                             *)
(***************************************************************************)
\* The assertions of rec_slice at first row r.
SliceAligned(rec, r) == \A a \in rec.writes \cup rec.reads : Aligned(a.base + r * a.step)

\* slice_gran: the smallest of 4, 8 and 16 that keeps the bases aligned, or 0.
SliceGran(rec) ==
    IF SliceAligned(rec, 4) THEN 4
    ELSE IF SliceAligned(rec, 8) THEN 8
    ELSE IF SliceAligned(rec, 16) THEN 16
    ELSE 0

\* The records of i .. j over as many rows as record k.
SameRows(rs, i, j, k) == {m \in i .. j : rs[m].rows = rs[k].rows}

\* A plausible bug: the finest granularity is taken.
GranFinest(rs, i, j, k) ==
    CHOOSE g \in {0, 4, 8, 16} :
        /\ \E m \in SameRows(rs, i, j, k) : SliceGran(rs[m]) = g
        /\ g = 0 <=> \E m \in SameRows(rs, i, j, k) : SliceGran(rs[m]) = 0
        /\ g # 0 => \A m \in SameRows(rs, i, j, k) : SliceGran(rs[m]) >= g

\* gran: the coarsest they need; 0 when one of them cannot be cut.
Gran(rs, i, j, k) ==
    CHOOSE g \in {0, 4, 8, 16} :
        /\ \E m \in SameRows(rs, i, j, k) : SliceGran(rs[m]) = g
        /\ g = 0 <=> \E m \in SameRows(rs, i, j, k) : SliceGran(rs[m]) = 0
        /\ g # 0 => \A m \in SameRows(rs, i, j, k) : SliceGran(rs[m]) <= g

Whole(rs, i, j, k) ==
    NumNodes = 1 \/ Gran(rs, i, j, k) = 0 \/ rs[k].rows < 2 * Gran(rs, i, j, k)

(***************************************************************************)
(* split_vector over the records i .. j: which rows of which record a part *)
(* gets.                                                                   *)
(***************************************************************************)
DivUp(x, y) == (x + y - 1) \div y

\* Rows of a part.
Per(rows, g) == DivUp(DivUp(rows, NumNodes), g) * g

\* A plausible bug: the remainder is not handed out.
CutsRoundedDown(k, rows, g) ==
    LET per == ((rows \div NumNodes) \div g) * g
    IN  {[rec |-> k, part |-> p, first |-> p * per, count |-> per] : p \in Parts}

Cuts(k, rows, g) ==
    LET per == Per(rows, g)
    IN  {[rec |-> k, part |-> p, first |-> p * per,
          count |-> IF rows - p * per < per THEN rows - p * per ELSE per] :
            p \in {q \in Parts : q * per < rows}}

\* What part p has to do so far.
Load(rs, slices, p) ==
    MapThenSumSet(LAMBDA s : s.count * rs[s.rec].len, {s \in slices : s.part = p})

\* The first of the least loaded parts.
LeastLoaded(rs, slices) ==
    CHOOSE p \in Parts : \A q \in Parts :
        /\ Load(rs, slices, p) <= Load(rs, slices, q)
        /\ q < p => Load(rs, slices, p) < Load(rs, slices, q)

Place(rs, i, j, k, before) ==
    IF Whole(rs, i, j, k)
    THEN {[rec |-> k, part |-> LeastLoaded(rs, before), first |-> 0, count |-> rs[k].rows]}
    ELSE Cuts(k, rs[k].rows, Gran(rs, i, j, k))

Split(rs, i, j) ==
    LET upto[k \in i - 1 .. j] ==
            IF k = i - 1 THEN {} ELSE upto[k - 1] \cup Place(rs, i, j, k, upto[k - 1])
    IN  upto[j]

(***************************************************************************)
(* rec_access of a slice.                                                  *)
(***************************************************************************)
WriteRanges(rs, s) ==
    UNION {LET lo == w.base + s.first * w.step
           IN  IF w.width = w.step
               THEN {<<lo, lo + RoundUp(s.count * w.step)>>}
               ELSE {<<lo + r * w.step, lo + r * w.step + w.width>> : r \in 0 .. s.count - 1} :
                   w \in rs[s.rec].writes}

ReadRanges(rs, s) ==
    rs[s.rec].common \cup
    {<<a.base + s.first * a.step, a.base + (s.first + s.count) * a.step>> : a \in rs[s.rec].reads}

Meet(x, y) == \E a \in x, b \in y : a[1] < b[2] /\ b[1] < a[2]

Clash(rs, s, t) ==
    \/ Meet(ReadRanges(rs, s), WriteRanges(rs, t))
    \/ Meet(WriteRanges(rs, s), ReadRanges(rs, t))
    \/ Meet(WriteRanges(rs, s), WriteRanges(rs, t))

\* A plausible bug: only later records that read are looked for.
HazardRAW(rs, i, j) ==
    \E s, t \in Split(rs, i, j) :
        s.part # t.part /\ t.rec < s.rec /\ Meet(ReadRanges(rs, s), WriteRanges(rs, t))

\* Two slices of different parts clash.
Hazard(rs, i, j) == \E s, t \in Split(rs, i, j) : s.part # t.part /\ Clash(rs, s, t)

(***************************************************************************)
(* split_vector_safe.                                                      *)
(***************************************************************************)
Init ==
    /\ recs \in UNION {[1 .. n -> Record] : n \in 1 .. MaxRecords}
    /\ start = 1 /\ next = 2 /\ subs = <<>>

\* Records start .. next may stay together.
Extend ==
    /\ next <= Len(recs)
    /\ ~ Hazard(recs, start, next)
    /\ next' = next + 1
    /\ UNCHANGED <<recs, start, subs>>

\* The stage is cut before record next.
Cut ==
    /\ next <= Len(recs)
    /\ Hazard(recs, start, next)
    /\ subs' = Append(subs, <<start, next - 1>>)
    /\ start' = next /\ next' = next + 1
    /\ UNCHANGED recs

\* A plausible bug: the last sub-stage may be empty.
FinishEmpty ==
    /\ next > Len(recs)
    /\ subs' = Append(subs, <<start, Len(recs)>>)
    /\ start' = Len(recs) + 1
    /\ UNCHANGED <<recs, next>>

\* The last sub-stage.
Finish ==
    /\ next > Len(recs) /\ start <= Len(recs)
    /\ subs' = Append(subs, <<start, Len(recs)>>)
    /\ start' = Len(recs) + 1
    /\ UNCHANGED <<recs, next>>

Next == Extend \/ Cut \/ Finish

Spec == Init /\ [][Next]_vars

(***************************************************************************)
(* Properties.                                                             *)
(***************************************************************************)
Slices(a) == Split(recs, subs[a][1], subs[a][2])

\* The parts of a sub-stage touch nothing that another of them writes: neither
\* slices of two records nor two slices of one record, which the loop does not
\* look at when the sub-stage has one record.
PartsIndependent ==
    \A a \in 1 .. Len(subs) : \A s, t \in Slices(a) : s.part # t.part => ~ Clash(recs, s, t)

\* Every row of every record is computed once, and the records keep their
\* order: over the sub-stages, and in the program of a part.
RowsOnce ==
    /\ \A k \in 1 .. start - 1 : \E a \in 1 .. Len(subs) :
        /\ subs[a][1] <= k /\ k <= subs[a][2]
        /\ \A b \in 1 .. Len(subs) : subs[b][1] <= k /\ k <= subs[b][2] => b = a
        /\ \A r \in 0 .. recs[k].rows - 1 :
            \E s \in Slices(a) : /\ s.rec = k /\ s.first <= r /\ r < s.first + s.count
                                 /\ \A t \in Slices(a) :
                                        t.rec = k /\ t.first <= r /\ r < t.first + t.count => t = s
    /\ \A a \in 1 .. Len(subs) - 1 : subs[a + 1][1] = subs[a][2] + 1

\* "Bases are linear in the first row, so checking one multiple checks them
\* all": the assertions of rec_slice hold for every slice that is made.
SlicesAligned ==
    \A a \in 1 .. Len(subs) : \A s \in Slices(a) : SliceAligned(recs[s.rec], s.first)
=============================================================================
