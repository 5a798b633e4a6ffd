---------------------------- MODULE ChunkPasses ----------------------------
(***************************************************************************)
(* The stage list of a chunk: what main() of                               *)
(* paper/sw/pi0_chunk_program.py assembles from the layer builders, and    *)
(* the passes it runs over it -- interleaved cameras, row blocks of the    *)
(* prefix layers, and the two operator fusions.                            *)
(***************************************************************************)
EXTENDS VisionStages, FiniteSets, FiniteSetsExt

CONSTANTS
    VLayers,    \* SigLIP layers (27)
    Layers,     \* prefix layers, and as many expert layers (18)
    Steps,      \* Euler steps (10)
    Cuts,       \* the row blocks of a prefix layer: <<0, ..., T_LM>>
    Options     \* the command lines considered

\* program: the chunk, or one of the golden scripts (GoldenStages).
OptionType == [program : {"chunk", "attn_lm", "attn_ex", "siglip_token", "siglip_head", "action_head", "vision_ends"},
               vision : {"captured", "synthetic"}, interleave : BOOLEAN, blocks : BOOLEAN,
               pdq : BOOLEAN, quant : BOOLEAN, sync : {"barrier", "deps"}]

ASSUME PassAssumption ==
    /\ {VLayers, Layers, Steps} \subseteq Nat \ {0}
    /\ Options \subseteq OptionType
    /\ Cuts[1] = 0 /\ Cuts[Len(Cuts)] = T_LM
    /\ \A k \in 1 .. Len(Cuts) - 1 : Cuts[k] < Cuts[k + 1]

Name(kind, n) == <<kind, 0, 0, n, 0>>

(***************************************************************************)
(* The inputs and outputs of the parts, and the chunk put together.        *)
(***************************************************************************)
VisIn(o, cam) ==
    LET c(n) == <<"vis_in", 0, cam, n, 0>>
    IN  IF o.vision = "captured" THEN Act(c("siglip_in"), c("SIGLIP_IN"), c("SIGLIP_AMAX"))
        ELSE PatchOut(<<"patch", 0, cam>>)
VisX(o, L, cam) == IF L = 0 THEN VisIn(o, cam) ELSE LayerOut(<<"vis", L - 1, cam>>)

\* x_lm: the tokens of camera 0, those of camera 1, the prompt (from the host)
LmIn == Act(Name("lm_in", "x"), Name("lm_in", "X_LM"), Name("lm_in", "X_LMSUM"))
LmX(L) == IF L = 0 THEN LmIn ELSE LayerOut(<<"lm", L - 1, 0>>)

\* x_exp: the state token (from the host) and the action tokens of the step
ExpIn(s) == Act(<<"x_exp", 0, s, "x", 0>>, <<"x_exp", 0, s, "X_EXP", 0>>, NoRegion)
ExpX(L, s) == IF L = 0 THEN AddPassOut(<<"x_exp", 0, s>>) ELSE LayerOut(<<"ex", L - 1, s>>)

\* x_t of a step: the noise, then what the step before wrote
Xt(s) == IF s = 0 THEN Name("head", "noise") ELSE <<"head_out", 0, s - 1, "xn", 0>>
XT(s) == IF s = 0 THEN Name("head", "NOISE") ELSE <<"head_out", 0, s - 1, "XN", 0>>

LayerSeq(n, F(_)) == FlattenSeq([L \in 1 .. n |-> F(L - 1)])

Refs(o) ==
    UNION {SiglipRefs(<<"vis", L, cam>>, VisX(o, L, cam)) : L \in 0 .. VLayers - 1, cam \in Cam}
    \cup UNION {ProjectorRefs(<<"proj", 0, cam>>, VisX(o, VLayers, cam)) : cam \in Cam}
    \cup (IF o.vision = "captured" THEN {} ELSE UNION {PatchRefs(<<"patch", 0, cam>>) : cam \in Cam})
    \cup UNION {GemmaRefs(<<"lm", L, 0>>, LmX(L), <<"lm", L, 0>>) : L \in 0 .. Layers - 1}
    \cup UNION {InputRefs(<<"head_in", 0, s>>, Xt(s)) \cup AddPassRefs(<<"x_exp", 0, s>>, ExpIn(s))
                \cup UNION {GemmaRefs(<<"ex", L, s>>, ExpX(L, s), <<"lm", L, 0>>) : L \in 0 .. Layers - 1}
                \cup OutputRefs(<<"head_out", 0, s>>, ExpX(Layers, s), Xt(s)) : s \in 0 .. Steps - 1}

\* --interleave: the two streams alternate, stage by stage.
VisionStream(o, cam) == LayerSeq(VLayers, LAMBDA L : SiglipStages(<<"vis", L, cam>>, VisX(o, L, cam)))
Vision(o) ==
    LET s0 == VisionStream(o, 0)
        s1 == VisionStream(o, 1)
    IN  (IF o.vision = "captured" THEN <<>> ELSE PatchStages(<<"patch", 0, 0>>) \o PatchStages(<<"patch", 0, 1>>))
        \o (IF o.interleave THEN FlattenSeq([k \in DOMAIN s0 |-> <<s0[k], s1[k]>>]) ELSE s0 \o s1)
        \o FlattenSeq([c \in 1 .. 2 |->
              ProjectorStages(<<"proj", 0, c - 1>>, VisX(o, VLayers, c - 1), LmIn.reg, LmIn.sum, (c - 1) * TV)])

(***************************************************************************)
(* row_blocks.                                                             *)
(***************************************************************************)
PostAttn == {"o_gemm", "o_dequant_residual", "rms2_quant", "gate_up_gemm", "geglu_quant", "down_gemm",
             "down_dequant_residual"}

\* A plausible bug: the row operands and the row reduction keep their base.
ShiftElementsOnly(d, r0, len) == IF d.sh \in {"E", "X"} THEN [d EXCEPT !.o = @ + r0 * len] ELSE d

Shift(d, r0, len) ==
    CASE d.sh \in {"E", "X"} -> [d EXCEPT !.o = @ + r0 * len]
      [] d.sh = "R" -> [d EXCEPT !.o = @ + r0]
      [] OTHER -> d

\* rec_slice / chain_slice_rows: rows r0 .. r0+n-1 of a record, of the tiles of a GEMM.
VecSlice(r, r0, n) ==
    [r EXCEPT !.rows = n, !.r0 = r0, !.oo = @ + r0 * (r.len + r.gap), !.so = @ + r0,
              !.ops = [k \in DOMAIN r.ops |-> Shift(r.ops[k], r0, r.len)], !.rs = Shift(@, r0, r.len)]
GemmSlice(r, r0, n) == [r EXCEPT !.rows = n, !.r0 = r0, !.so = @ + r0 * r.st, !.oo = @ + r0 * r.len]

Cuttable(st) == \A k \in DOMAIN st.recs : st.recs[k].rows = T_LM /\ (st.kind = "VN" \/ ~st.recs[k].loadx)

Block(st, k) ==
    LET r0 == Cuts[k]
        n == Cuts[k + 1] - r0
    IN  [st EXCEPT !.name = st.name \o "@r", !.recs = [i \in DOMAIN st.recs |->
            IF st.kind = "VN" THEN VecSlice(st.recs[i], r0, n) ELSE GemmSlice(st.recs[i], r0, n)]]

\* row_block_seg: runs of stages of the same resource go block by block; what
\* cannot be cut stays whole, with the first block.
RowBlockSeg(seg) ==
    LET runStart(i) == i = 1 \/ (seg[i].kind = "VN") # (seg[i - 1].kind = "VN")
        starts == SelectSeq([i \in DOMAIN seg |-> i], runStart)
        runOf(j) == starts[j] .. (IF j = Len(starts) THEN Len(seg) ELSE starts[j + 1] - 1)
        part(i, k) == IF Cuttable(seg[i]) THEN <<Block(seg[i], k)>> ELSE IF k = 1 THEN <<seg[i]>> ELSE <<>>
        run(j) == FlattenSeq([k \in 1 .. Len(Cuts) - 1 |->
                        FlattenSeq([i \in 1 .. Cardinality(runOf(j)) |-> part(starts[j] + i - 1, k)])])
    IN  FlattenSeq([j \in DOMAIN starts |-> run(j)])

\* row_blocks: the segment is flushed before a stage that is not part of it.
RowBlocks(stages) ==
    LET seg == SelectSeq(stages, LAMBDA st : st.name \in PostAttn)
        first == Min({i \in DOMAIN stages : stages[i].name \in PostAttn})
    IN  SubSeq(stages, 1, first - 1) \o RowBlockSeg(seg) \o SubSeq(stages, first + Len(seg), Len(stages))

PrefixLayer(o, L) ==
    LET me == <<"lm", L, 0>>
        stages == GemmaStages(me, LmX(L), me)
    IN  IF o.blocks THEN RowBlocks(stages) ELSE stages

StepStages(s) ==
    InputStages(<<"head_in", 0, s>>, XT(s), ExpIn(s).reg, 1, <<"x_exp", 0, s, "TOKSUM", 0>>)
    \o AddPassStages(<<"x_exp", 0, s>>, ExpIn(s), T_EX)
    \o LayerSeq(Layers, LAMBDA L : GemmaStages(<<"ex", L, s>>, ExpX(L, s), <<"lm", L, 0>>))
    \o OutputStages(<<"head_out", 0, s>>, ExpX(Layers, s), XT(s))

Assembled(o) ==
    Vision(o) \o LayerSeq(Layers, LAMBDA L : PrefixLayer(o, L)) \o FlattenSeq([s \in 1 .. Steps |-> StepStages(s - 1)])

(***************************************************************************)
(* What a record reads and writes: ranges <<region, lo, hi>> of cells      *)
(* (rec_access, chain_access).                                             *)
(***************************************************************************)
OpdRange(d, rows, len) ==
    <<d.a, d.o, d.o + (CASE d.sh \in {"E", "X"} -> rows * len [] d.sh = "R" -> rows [] d.sh = "C" -> len)>>

\* The read ranges, as a sequence: readers() counts them.
RecReads(r) ==
    IF r.op = "GEMM"
    THEN <<<<r.src, r.so, r.so + (r.rows - 1) * r.st + r.k>>, <<r.img, r.io * r.k, (r.io + r.len) * r.k>>>>
    ELSE LET opds == SelectSeq(Append(r.ops, r.rs), LAMBDA d : d.sh # "K")
         IN  [k \in DOMAIN opds |-> OpdRange(opds[k], r.rows, r.len)]

RecWrites(r) ==
    LET out == IF r.op = "GEMM" \/ (r.out # NoRegion /\ r.gap = 0)
               THEN {<<r.out, r.oo, r.oo + r.rows * r.len>>}
               ELSE {<<r.out, r.oo + k * (r.len + r.gap), r.oo + k * (r.len + r.gap) + r.len>> : k \in 0 .. r.rows - 1}
    IN  (IF r.out = NoRegion THEN {} ELSE out)
        \cup (IF r.op = "GEMM" THEN {} ELSE {<<r.sum, r.so, r.so + r.rows>>})

Overlap(a, b) == a[1] = b[1] /\ a[2] < b[3] /\ b[2] < a[3]

(***************************************************************************)
(* fuse_quant and fuse_pdq.  readers() counts over the stages as they were *)
(* when the pass began.                                                    *)
(***************************************************************************)
AllReads(stages) == FlattenSeq([i \in DOMAIN stages |->
                        FlattenSeq([k \in DOMAIN stages[i].recs |-> RecReads(stages[i].recs[k])])])
\* readers of the ranges a pass may ask about: the bf16 outputs and summaries
Readers(reads, rg) == Cardinality({k \in DOMAIN reads : Overlap(reads[k], rg)})

OutRange(r) == <<r.out, r.oo, r.oo + r.rows * r.len>>
SumRange(r) == <<r.sum, r.so, r.so + r.rows>>
SameShape(x, y) == x.rows = y.rows /\ x.len = y.len
At(d, reg, o) == d.a = reg /\ d.o = o

QtOps == {"ADD", "RMS_APPLY", "LN_APPLY", "ROPE_B", "GELU", "GEGLU", "SILU", "DEQUANT"}

\* One vector stage under fusion: its records, which of them are dropped, and
\* the ranges that are no longer expected.
Fusing(st) == [recs |-> st.recs, drop |-> {}, gone |-> {}]
Fused(st, f) == [st EXCEPT !.recs = FlattenSeq([i \in DOMAIN f.recs |->
                                        IF i \in f.drop THEN <<>> ELSE <<f.recs[i]>>])]

\* The QUANT at qi goes into the record that feeds it: the last one before it,
\* not fused yet, that writes its input and its row reduction.
FuseOneQuant(reads, f, qi) ==
    LET q == f.recs[qi]
        feeds == {i \in 1 .. qi - 1 : /\ i \notin f.drop /\ f.recs[i].qt = NoRegion
                                      /\ At(q.ops[1], f.recs[i].out, f.recs[i].oo)
                                      /\ At(q.rs, f.recs[i].sum, f.recs[i].so)}
        x == f.recs[Max(feeds)]
    IN  IF /\ q.op = "QUANT" /\ q.rs.f = "row" /\ feeds # {}
           /\ x.op \in QtOps /\ ~x.f32 /\ x.gap = 0 /\ SameShape(x, q)
           /\ Readers(reads, OutRange(x)) = 1 /\ Readers(reads, SumRange(x)) = 1
        THEN [recs |-> [f.recs EXCEPT ![Max(feeds)] =
                            [x EXCEPT !.qt = q.n, !.out = q.out, !.oo = q.oo, !.sum = q.sum, !.so = q.so, !.gap = q.gap]],
              drop |-> f.drop \cup {qi}, gone |-> f.gone \cup {OutRange(x), SumRange(x)}]
        ELSE f

\* DEQUANT(gate), DEQUANT(up), GEGLU become the GEGLU with the operands of both.
FuseOnePdq(reads, f, gi) ==
    LET g == f.recs[gi]
        at(d) == {i \in 1 .. gi - 1 : i \notin f.drop /\ At(d, f.recs[i].out, f.recs[i].oo)}
        ok(d) == /\ at(d) # {}
                 /\ LET r == f.recs[Max(at(d))] IN
                        r.op = "DEQUANT" /\ Len(r.ops) = 3 /\ ~r.f32 /\ r.qt = NoRegion /\ SameShape(r, g) /\ r.gap = 0
        ix == Max(at(g.ops[1]))
        iu == Max(at(g.ops[2]))
        x == f.recs[ix]
        u == f.recs[iu]
    IN  IF /\ g.op = "GEGLU" /\ g.pre = <<>> /\ ok(g.ops[1]) /\ ok(g.ops[2]) /\ ix # iu
           /\ x.ops[2] = u.ops[2]
           /\ Readers(reads, OutRange(x)) = 1 /\ Readers(reads, OutRange(u)) = 1
           /\ Readers(reads, SumRange(x)) = 0 /\ Readers(reads, SumRange(u)) = 0
        THEN [recs |-> [f.recs EXCEPT ![gi] =
                            [g EXCEPT !.pre = <<x.n, u.n>>,
                                      !.ops = <<x.ops[1], u.ops[1], x.ops[2], x.ops[3], u.ops[3]>>]],
              drop |-> f.drop \cup {ix, iu},
              gone |-> f.gone \cup {OutRange(x), OutRange(u), SumRange(x), SumRange(u)}]
        ELSE f

Chunk(stages, gone) == [stages |-> stages, gone |-> gone]

FusePass(One(_, _, _), c) ==
    LET reads == AllReads(c.stages)
        of(st) == FoldLeft(LAMBDA f, i : One(reads, f, i), Fusing(st), [i \in DOMAIN st.recs |-> i])
        done == [i \in DOMAIN c.stages |-> IF c.stages[i].kind = "VN" THEN of(c.stages[i]) ELSE Fusing(c.stages[i])]
    IN  Chunk([i \in DOMAIN c.stages |-> Fused(c.stages[i], done[i])], c.gone \cup UNION {done[i].gone : i \in DOMAIN done})

FusePdq(c) == FusePass(FuseOnePdq, c)
\* A plausible bug: what a fused record no longer writes stays expected.
FuseQuantKeepsExpected(c) == [FusePass(FuseOneQuant, c) EXCEPT !.gone = c.gone]
FuseQuant(c) == FusePass(FuseOneQuant, c)

PdqPass(o, c) == IF o.pdq THEN FusePdq(c) ELSE c
QuantPass(o, c) == IF o.quant THEN FuseQuant(c) ELSE c
Lowered(o) == QuantPass(o, PdqPass(o, Chunk(Assembled(o), {})))
=============================================================================
