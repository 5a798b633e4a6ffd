----------------------------- MODULE ChunkFlow -----------------------------
(***************************************************************************)
(* A chunk on the device, by values: the stages run on a memory, a stage   *)
(* before another only where the two touch the same cells (--sync deps) or *)
(* in program order (barrier), and every record checks that what it reads  *)
(* is what the chip reference uses for the row it computes.  Between two   *)
(* chunks the host writes the inputs only (ChunkIO.encode), the image is   *)
(* not loaded again.                                                       *)
(***************************************************************************)
EXTENDS GoldenStages

CONSTANT MaxChunk   \* bound: chunks run on one image

Kind == {"VN", "CH8", "CHU"}

(***************************************************************************)
(* A program as it is run: the stages the passes leave, which stages each  *)
(* of them waits for, the regions it touches, the reference, and what the  *)
(* memory is compared with afterwards.                                     *)
(***************************************************************************)
StageReads(st) == UNION {ToSet(RecReads(st.recs[k])) : k \in DOMAIN st.recs}
StageWrites(st) == UNION {RecWrites(st.recs[k]) : k \in DOMAIN st.recs}

\* The stages of other kinds a stage must wait for (DepTracker.deps); rd and
\* wr are the ranges the stages read and write.
Meet(A, B) == \E a \in A : \E b \in B : Overlap(a, b)
Before(stages, rd, wr, sync) == [j \in DOMAIN stages |-> {i \in 1 .. j - 1 :
    IF sync = "barrier" THEN i = j - 1
    ELSE /\ stages[i].kind # stages[j].kind
         /\ Meet(rd[j], wr[i]) \/ Meet(wr[j], wr[i] \cup rd[i])}]

\* The regions of some ranges, and the cells of each.
Cells(ranges) == [reg \in {rg[1] : rg \in ranges} |-> Max({rg[3] : rg \in {g \in ranges : g[1] = reg}})]

\* What the builders expect: a record each.  The last value counts where a
\* step overwrites the one before, and the ranges a fusion no longer writes
\* are out.  The actions are among it.
Emitted(stages) == FlattenSeq([i \in DOMAIN stages |-> stages[i].recs])
Overwritten(recs, k) == \E j \in k + 1 .. Len(recs) : recs[j].out = recs[k].out /\ recs[j].oo = recs[k].oo
Compared(recs, gone) ==
    {recs[k] : k \in {j \in DOMAIN recs : ~Overwritten(recs, j) /\ ~\E rg \in gone : rg[1] = recs[j].out}}

Laid(stages, rd, wr, sync, reference, compared) ==
    [stages |-> stages, before |-> Before(stages, rd, wr, sync),
     cells |-> Cells(UNION {rd[i] \cup wr[i] : i \in DOMAIN stages}),
     ref |-> [n \in {e.n : e \in reference} |-> CHOOSE e \in reference : e.n = n],
     compared |-> compared]
Planned(o, c) ==
    Laid(c.stages, [i \in DOMAIN c.stages |-> StageReads(c.stages[i])], [i \in DOMAIN c.stages |-> StageWrites(c.stages[i])],
         o.sync, Reference(o), Compared(Emitted(Emit(o)), c.gone))
Program(o) == Planned(o, Built(o))

(***************************************************************************)
(* Values.  An element is known by the array and index it has in the       *)
(* reference and the chunk it belongs to; what an operation leaves for a   *)
(* row (a scale, a mean) by the array and the row; a summary by the        *)
(* elements it covers, and whether a mask was applied.                     *)
(***************************************************************************)
Val(a, i, g) == [v |-> a, i |-> i, g |-> IF a[1] \in StaticKind THEN 0 ELSE g]
RowVal(a, r, g) == [rowOf |-> a, r |-> r, g |-> IF a[1] \in StaticKind THEN 0 ELSE g]
Amax(x, n, masked) == [amaxOf |-> x, n |-> n, masked |-> masked]
Zero == [zero |-> TRUE]
Stale == [stale |-> TRUE]
Wrong == [wrong |-> TRUE]

\* The arrays that are pieced together: [a, i] of the piece that holds an index.
Piece(a, i) == [a |-> a, i |-> i]
NoPiece == Piece(NoRegion, 0)
ResolveIn(P, a, i) ==
    LET me == <<a[1], a[2], a[3]>>
        v(n) == Arr(me, n, 0)
        row == i \div HD
    IN  CASE a = LmIn.codes ->
                IF i < 2 * TV THEN Piece(<<"proj", 0, i \div TV, "ie", 0>>, i % TV)
                ELSE Piece(Name("lm_in", "lang"), i - 2 * TV)
          [] a[1] = "x_exp" /\ a[4] = "x" ->
                IF i = 0 THEN Piece(Name("x_exp", "state"), 0) ELSE Piece(<<"head_in", 0, a[3], "tok", 0>>, i - 1)
          [] a[4] = "hq_pad" -> IF i < P.T THEN Piece(v("hq"), i) ELSE NoPiece
          [] a[4] = "keys" ->
                IF a[1] = "ex" /\ row < P.NPRE THEN Piece(<<"lm", a[2], 0, "ksuf", 0>>, i)
                ELSE IF row >= P.NPS /\ row < P.NPS + P.T THEN Piece(v("ksuf"), i - P.NPS * HD)
                ELSE NoPiece
          [] a[4] = "p_pre" -> Piece(v("pq"), (i \div P.NPS) * P.NK + (i % P.NPS))
          [] a[4] = "p_suf" -> Piece(v("pq"), (i \div P.TP) * P.NK + P.NPS + (i % P.TP))
          [] a[1] = "vis" /\ a[4] \in {"qb", "kb", "cb"} /\ a[5] = 0 -> Piece(Arr(me, a[4], i \div TV + 1), i % TV)
          [] a[1] = "vis" /\ a[4] = "lb" /\ a[5] = 0 -> Piece(Arr(me, "lb", i \div (TV * TV) + 1), i % (TV * TV))
          [] a[1] = "vis" /\ a[4] = "cbt" /\ a[5] = 0 -> Piece(Arr(me, "cbt", 1 + (i % QNV)), i \div QNV)
          [] OTHER -> Piece(a, i)

Resolve(a, i) == ResolveIn(GemmaSizes(a[1]), a, i)

ValueOf(p, g) == IF p = NoPiece THEN Zero ELSE Val(p.a, p.i, g)
Elem(a, i, g) == ValueOf(Resolve(a, i), g)
\* By rows: a row of keys is HD cells, one of hq_pad one.
RowValueOf(p, cells, g) == IF p = NoPiece THEN Zero ELSE RowVal(p.a, p.i \div cells, g)
RowOf(a, r, g) == LET cells == IF a[4] = "keys" THEN HD ELSE 1 IN RowValueOf(Resolve(a, r * cells), cells, g)

\* The value the reference uses for argument d, in column c of row r of a
\* result with rows of len, and the cell a record reads for it.
Place(d, r, c, len) ==
    d.o + (CASE d.sh = "E" -> r * len + c
             [] d.sh = "X" -> r * len + ((c + (len \div 2)) % len)
             [] d.sh = "R" -> r
             [] d.sh = "C" -> c)
Expected(d, r, c, len, g) ==
    IF d.f = "row" THEN RowOf(d.a, Place(d, r, c, len), g) ELSE Elem(d.a, Place(d, r, c, len), g)

(***************************************************************************)
(* State.                                                                  *)
(***************************************************************************)
VARIABLES
    opts,       \* the command line
    prog,       \* the program it gives
    chunk,      \* the chunk being run, from 1
    pos,        \* per kind of node: the last stage it ran (0: none yet)
    mem         \* region -> cell -> value

vars == <<opts, prog, chunk, pos, mem>>

N == Len(prog.stages)
Ran(i) == i <= pos[prog.stages[i].kind]
Finished == \A i \in 1 .. N : Ran(i)

TypeOK ==
    /\ opts \in Options /\ chunk \in 1 .. MaxChunk
    /\ pos \in [Kind -> 0 .. N]
    /\ \A k \in Kind : pos[k] = 0 \/ prog.stages[pos[k]].kind = k
    /\ DOMAIN mem = DOMAIN prog.cells
    /\ \A reg \in DOMAIN mem : DOMAIN mem[reg] = 0 .. prog.cells[reg] - 1

\* A static tensor is allocated with its values; the pads are put as zeros.
Padded == {"HQ", "HQSUM", "KEYS", "KEYSUM"}
Image(reg, i) ==
    CASE reg[1] \in StaticKind -> Val(reg, i, 0)
      [] reg[1] \in {"lm", "ex"} /\ reg[4] \in Padded -> Zero
      [] OTHER -> Stale

\* ChunkIO.encode, and what the image of the first chunk has at the same places.
HostInput(reg, i, g) ==
    LET c == <<"vis_in", 0, reg[3], "siglip_in", 0>>
        p == <<"patch", 0, reg[3], "patches", 0>>
        lang == Val(Name("lm_in", "lang"), i - 2 * TV, g)
    IN  CASE reg[4] = "SIGLIP_IN" -> Val(c, i, g)
          [] reg[4] = "SIGLIP_AMAX" -> Amax(Val(c, i, g), 1, FALSE)
          [] reg[4] = "PATCHES" -> Val(p, i, g)
          [] reg[4] = "PATCHES_AMAX" -> Amax(Val(p, i, g), 1, FALSE)
          [] reg[4] = "X_LM" /\ i >= 2 * TV -> lang
          [] reg[4] = "X_LMSUM" /\ i >= 2 * TV -> Amax(lang, 1, FALSE)
          [] reg[4] = "X_EXP" /\ i = 0 -> Val(Name("x_exp", "state"), 0, g)
          [] reg[4] = "NOISE" -> Val(Name("head", "noise"), i, g)
          [] reg = GoldX.reg -> Val(GoldX.codes, i, g)
          [] reg = GoldX.sum -> Amax(Val(GoldX.codes, i, g), 1, FALSE)
          [] OTHER -> Stale

\* What the image of a golden program holds beside its activations: the scales
\* of the padded rows, and for an expert layer what the prefix pass would have
\* left in KEYS and VPQ.
GoldInput(o, reg, i) ==
    LET keys == Arr(AttnMe(o.program), "keys", 0)
        pre(n) == Arr(Pre, n, 0)
    IN  CASE reg = Gold("SHPAD") -> RowOf(Arr(AttnMe(o.program), "hq_pad", 0), i, 1)
          [] o.program = "attn_ex" /\ reg = pre("KEYS") /\ i < Ex.NPRE * HD -> Elem(keys, i, 1)
          [] o.program = "attn_ex" /\ reg = pre("KEYSUM") /\ i < Ex.NPRE -> RowOf(keys, i, 1)
          [] o.program = "attn_ex" /\ reg = pre("VPQ") -> Val(pre("vpq"), i, 1)
          [] o.program = "attn_ex" /\ reg = pre("VPSUM") -> RowVal(pre("vpq"), i, 1)
          [] OTHER -> Image(reg, i)

Encoded(m, g) == [reg \in DOMAIN m |-> [i \in DOMAIN m[reg] |->
    IF HostInput(reg, i, g) = Stale THEN m[reg][i] ELSE HostInput(reg, i, g)]]

Loaded(o, cells) == [reg \in DOMAIN cells |-> [i \in 0 .. cells[reg] - 1 |-> GoldInput(o, reg, i)]]

(***************************************************************************)
(* Running a record.                                                       *)
(***************************************************************************)
Read(m, d, r, c, len) == m[d.a][Place(d, r, c, len)]

\* Operand d of the record is argument e of the reference, in row r.
Matches(m, rec, d, e, r, g) ==
    /\ d.sh = e.sh
    /\ d.sh = "K" \/ \A c \in 0 .. rec.len - 1 :
            Read(m, d, r, c, rec.len) = Expected(e, rec.r0 + r, c, rec.len, g)

AllMatch(m, rec, opds, args, r, g) ==
    Len(opds) = Len(args) /\ \A k \in DOMAIN opds : Matches(m, rec, opds[k], args[k], r, g)

\* The row reduction an operation needs is the one of the row it reads.
RowReduction(m, rec, e, r, g) ==
    rec.op \in {"QUANT", "SMAX", "RMS_STAT", "LN_STAT"} =>
        m[rec.rs.a][rec.rs.o + r] = Amax(Expected(e, rec.r0 + r, 0, rec.len, g), rec.len, rec.mask)

VecRow(m, rec, r, g) ==
    LET ref == prog.ref[rec.n]
        x == rec.ops
    IN  /\ rec.op = ref.op /\ rec.len = ref.len
        /\ IF rec.pre = <<>> THEN AllMatch(m, rec, rec.ops, ref.args, r, g)
           ELSE \* the two dequantisations in front of the lane
                LET gate == prog.ref[rec.pre[1]]
                    up == prog.ref[rec.pre[2]]
                IN  /\ ref.args = <<E(gate.n), E(up.n)>>
                    /\ AllMatch(m, rec, <<x[1], x[3], x[4]>>, gate.args, r, g)
                    /\ AllMatch(m, rec, <<x[2], x[3], x[5]>>, up.args, r, g)
        /\ RowReduction(m, rec, ref.args[1], r, g)
        \* the fused QUANT takes what the lane just made
        /\ rec.qt # NoRegion =>
            /\ prog.ref[rec.qt].len = rec.len
            /\ \A c \in 0 .. rec.len - 1 :
                 LET i == (rec.r0 + r) * rec.len + c IN
                 Expected(prog.ref[rec.qt].args[1], rec.r0 + r, c, rec.len, g) = Elem(rec.n, i, g)

\* The array a record leaves in its output region.
Made(rec) == IF rec.op = "GEMM" \/ rec.qt = NoRegion THEN rec.n ELSE rec.qt
Pitch(rec) == IF rec.op = "GEMM" THEN rec.len ELSE rec.len + rec.gap

GemmCell(m, rec, r, c, g) ==
    LET ref == prog.ref[rec.n]
    IN  /\ ref.op = "GEMM" /\ ref.len = rec.len /\ ref.k = rec.k
        /\ \A k \in 0 .. rec.k - 1 :
            /\ m[rec.src][rec.so + r * rec.st + k] = Elem(ref.a, (ref.ao + rec.r0 + r) * rec.k + k, g)
            /\ m[rec.img][(rec.io + c) * rec.k + k] = Elem(ref.b, (ref.bo + c) * rec.k + k, g)

SumOf(rec, r, g) ==
    LET row == rec.r0 + r
    IN  CASE rec.f32 -> Zero
          [] rec.qt # NoRegion \/ rec.op \in {"QUANT", "SMAX", "RMS_STAT", "LN_STAT"} -> RowVal(Made(rec), row, g)
          [] OTHER -> Amax(Elem(rec.n, row * rec.len, g), rec.len, rec.mask)

RunRec(m, rec, g) ==
    LET gemm == rec.op = "GEMM"
        ok == [r \in 0 .. rec.rows - 1 |-> IF gemm THEN TRUE ELSE VecRow(m, rec, r, g)]
        value(r, c) == IF ok[r] /\ (gemm => GemmCell(m, rec, r, c, g))
                       THEN Val(Made(rec), (rec.r0 + r) * rec.len + c, g) ELSE Wrong
        out(reg) == [i \in DOMAIN m[reg] |->
                        LET k == i - rec.oo
                            r == k \div Pitch(rec)
                            c == k % Pitch(rec)
                        IN  IF k >= 0 /\ r < rec.rows /\ c < rec.len THEN value(r, c) ELSE m[reg][i]]
        sum(reg) == [i \in DOMAIN m[reg] |->
                        LET r == i - rec.so
                        IN  IF r \in 0 .. rec.rows - 1 THEN (IF ok[r] THEN SumOf(rec, r, g) ELSE Wrong) ELSE m[reg][i]]
    IN  [reg \in DOMAIN m |->
            CASE reg = rec.out /\ reg # NoRegion -> out(reg)
              [] ~gemm /\ reg = rec.sum -> sum(reg)
              [] OTHER -> m[reg]]

RunAll(m, st, g) == FoldLeft(LAMBDA mm, rec : RunRec(mm, rec, g), m, st.recs)

(***************************************************************************)
(* Steps.                                                                  *)
(***************************************************************************)
Init ==
    /\ opts \in Options /\ prog = Program(opts) /\ chunk = 1
    /\ pos = [k \in Kind |-> 0]
    /\ mem = Encoded(Loaded(opts, prog.cells), 1)

\* A plausible bug: the program counter ends up behind the stage.
RunStageOneMore(k) ==
    LET mine == {i \in 1 .. N : i > pos[k] /\ prog.stages[i].kind = k}
    IN  /\ mine # {}
        /\ \A j \in prog.before[Min(mine)] : Ran(j)
        /\ pos' = [pos EXCEPT ![k] = Min(mine) + 1]
        /\ mem' = RunAll(mem, prog.stages[Min(mine)], chunk)
        /\ UNCHANGED <<opts, prog, chunk>>

\* The nodes of a kind take their next stage when what it waits for has run.
RunStage(k) ==
    LET mine == {i \in 1 .. N : i > pos[k] /\ prog.stages[i].kind = k}
        i == Min(mine)
    IN  /\ mine # {}
        /\ \A j \in prog.before[i] : Ran(j)
        /\ pos' = [pos EXCEPT ![k] = i]
        /\ mem' = RunAll(mem, prog.stages[i], chunk)
        /\ UNCHANGED <<opts, prog, chunk>>

\* The next request: the host writes its inputs over those of the last one.
\* Pixels come with the image only (ChunkIO knows no patches), and a golden
\* program is simulated once.
Again == opts.program = "chunk" /\ opts.vision = "captured" /\ chunk < MaxChunk
NextChunk ==
    /\ Finished /\ Again
    /\ chunk' = chunk + 1
    /\ pos' = [k \in Kind |-> 0]
    /\ mem' = Encoded(mem, chunk + 1)
    /\ UNCHANGED <<opts, prog>>

Terminated == Finished /\ ~Again /\ UNCHANGED vars

Next == NextChunk \/ Terminated \/ \E k \in Kind : RunStage(k)
Spec == Init /\ [][Next]_vars

(***************************************************************************)
(* Properties.                                                             *)
(***************************************************************************)
\* Whatever the order and whatever the passes made of the program, no record
\* ever reads anything but what the chip reference reads there.
ValuesAsReference == \A reg \in DOMAIN mem : \A i \in DOMAIN mem[reg] : mem[reg][i] # Wrong

\* After a chunk the memory holds what it is compared with: everything the
\* builders expect and no fusion took out.
ExpectationsMet ==
    Finished => \A rec \in prog.compared :
        rec.out # NoRegion => rec.out \in DOMAIN mem /\ \A r \in 0 .. rec.rows - 1, c \in 0 .. rec.len - 1 :
            mem[rec.out][rec.oo + r * Pitch(rec) + c] = Val(rec.n, (rec.r0 + r) * rec.len + c, chunk)
=============================================================================
