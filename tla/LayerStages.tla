----------------------------- MODULE LayerStages -----------------------------
(***************************************************************************)
(* The layer builders of the chunk (paper/sw/pi0_chunk_layers.py): which   *)
(* stages a layer has, which records and GEMMs a stage has, which regions  *)
(* they read and write -- and, beside them, the chip reference the         *)
(* builders compute with numpy at the same place.                          *)
(*                                                                         *)
(* The two are written down separately, as in the source: a *reference*    *)
(* entry says from which arrays an array is computed, a *record* says from *)
(* which regions a region is.  ChunkFlow runs the records on a memory and  *)
(* compares every operand with what the reference uses at that element.    *)
(*                                                                         *)
(* Data is abstracted to cells, rows of cells keep their order: a row of a *)
(* D-wide matrix is one cell, a Gemma head is two (the halves RoPE swaps), *)
(* a SigLIP head and an MLP sub-block are one.                             *)
(***************************************************************************)
EXTENDS Integers, Sequences, SequencesExt

CONSTANTS
    TV,         \* tokens of a camera (256)
    LANG,       \* language rows of the prefix (13)
    CHUNK,      \* action tokens (50)
    HEADS,      \* heads of a Gemma layer (8)
    VHEADS,     \* heads of a SigLIP layer (16)
    PAD,        \* key slots come in multiples of this (32)
    LMBlocks    \* MLP sub-blocks of a prefix layer (4); an expert layer has 1

ASSUME SizesAssumption ==
    /\ {TV, LANG, CHUNK, HEADS, VHEADS, PAD, LMBlocks} \subseteq Nat \ {0}

HD == 2
VBlocks == 2
Cam == 0 .. 1
T_LM == 2 * TV + LANG
T_EX == 1 + CHUNK
PadUp(t) == ((t + PAD - 1) \div PAD) * PAD

\* The sizes of a Gemma layer: prefix ("lm") or action expert ("ex").
Lm == [T |-> T_LM, NPRE |-> 0, NPS |-> 0, TP |-> PadUp(T_LM), NK |-> PadUp(T_LM), NB |-> LMBlocks]
Ex == [T |-> T_EX, NPRE |-> T_LM, NPS |-> PadUp(T_LM), TP |-> PadUp(T_EX),
       NK |-> PadUp(T_LM) + PadUp(T_EX), NB |-> 1]
GemmaSizes(kind) == IF kind = "lm" THEN Lm ELSE Ex
QN == HEADS * HD

(***************************************************************************)
(* Arrays and regions: <<kind, layer, camera or step, name, index>>.       *)
(* Regions have the capitals they have in the source.  A static tensor is  *)
(* allocated once, with its values: it has one name for both.              *)
(***************************************************************************)
Arr(inst, name, j) == <<inst[1], inst[2], inst[3], name, j>>
StaticKind == {"vis.w", "lm.w", "ex.w", "vision.w", "head.w"}
\* What __init__ and prepare() place: the images, gains and scales of a layer,
\* and the RoPE tables and the mask, which the layers of a part share.
Weight(me, name, j) == Arr(<<me[1] \o ".w", me[2], 0>>, name, j)
Shared(me, name) == Arr(<<me[1] \o ".w", 0, 0>>, name, 0)
NoRegion == <<"none", 0, 0, "", 0>>

\* An argument of the reference, and the operand of a record that matches it:
\* its shape (E one element per element, X the same with the halves of the row
\* swapped, R one per row, C one per column, K a constant), from an offset on.
\* "row": not an element of the array but what its op left for the whole row.
Opd(sh, a, o, f) == [sh |-> sh, a |-> a, o |-> o, f |-> f]
E(a) == Opd("E", a, 0, "elem")
EAt(a, o) == Opd("E", a, o, "elem")
X(a) == Opd("X", a, 0, "elem")
C(a) == Opd("C", a, 0, "elem")
CAt(a, o) == Opd("C", a, o, "elem")
RElem(a) == Opd("R", a, 0, "elem")
R(a) == Opd("R", a, 0, "row")
RAt(a, o) == Opd("R", a, o, "row")
CRow(a) == Opd("C", a, 0, "row")
CRowAt(a, o) == Opd("C", a, o, "row")
K == Opd("K", NoRegion, 0, "elem")

\* A reference entry: array n, rows of len elements, is op of the arguments.
Ref(n, op, len, args) == [n |-> n, op |-> op, len |-> len, args |-> args]
\* A matrix product: rows of a (from row ao on) by rows of b, k cells long.
RefGemm(n, len, k, a, ao, b, bo) ==
    [n |-> n, op |-> "GEMM", len |-> len, k |-> k, a |-> a, ao |-> ao, b |-> b, bo |-> bo]

\* vu_record: op over rows x len, to out and sum (base, first cell).  n names
\* the array of the reference that the record is there to compute, r0 its first
\* row.  rs: where the row reduction comes from; mask, fp32 output, row gap;
\* qt / pre: the arrays of the ops fused behind and before it.
Rec(op, n, rows, len, out, oo, sum, so, ops) ==
    [op |-> op, n |-> n, rows |-> rows, len |-> len, out |-> out, oo |-> oo, sum |-> sum, so |-> so,
     ops |-> ops, rs |-> K, mask |-> FALSE, f32 |-> FALSE, gap |-> 0, r0 |-> 0,
     qt |-> NoRegion, pre |-> <<>>]
\* The commands of one GEMM: rows of src (stride st) by columns, the rows of img.
Gemm(n, rows, len, k, src, so, st, img, io, out, oo, loadx) ==
    [op |-> "GEMM", n |-> n, rows |-> rows, len |-> len, k |-> k, src |-> src, so |-> so, st |-> st,
     img |-> img, io |-> io, out |-> out, oo |-> oo, loadx |-> loadx, r0 |-> 0]
Load(n, rows, len, k, src, img, io, out) == Gemm(n, rows, len, k, src, 0, k, img, io, out, 0, FALSE)

Stage(kind, inst, name, recs) == [kind |-> kind, inst |-> inst, name |-> name, recs |-> recs]

\* An activation on chip (Act): the codes, their region and summaries.
Act(codes, reg, sum) == [codes |-> codes, reg |-> reg, sum |-> sum]

Quant(n, rows, len, src, ssum, out, sum) ==
    [Rec("QUANT", n, rows, len, out, 0, sum, 0, <<E(src)>>) EXCEPT !.rs = R(ssum)]
Stat(op, n, rows, x, out, sum) == [Rec(op, n, rows, 1, out, 0, sum, 0, <<E(x.reg)>>) EXCEPT !.rs = R(x.sum)]

(***************************************************************************)
(* GemmaLayer.                                                             *)
(***************************************************************************)
\* What run() computes: me the instance, w its weights, sh what the layers of
\* its part share, x its input, pre the prefix layer whose keys and V it reads.
GemmaRefs(me, x, pre) ==
    LET P == GemmaSizes(me[1])
        v(n) == Arr(me, n, 0)
        vj(n, j) == Arr(me, n, j)
        w(n) == Weight(me, n, 0)
        sh(n) == Shared(me, n)
    IN  {Ref(v("rms"), "RMS_STAT", 1, <<E(x.codes)>>),
         Ref(v("hc"), "RMS_APPLY", 1, <<E(x.codes), R(v("rms")), C(w("gain_in"))>>),
         Ref(v("hq"), "QUANT", 1, <<E(v("hc"))>>),
         RefGemm(v("accq"), QN, 1, v("hq"), 0, w("Wq"), 0),
         RefGemm(v("acck"), HD, 1, v("hq"), 0, w("Wk"), 0),
         RefGemm(v("accv"), P.TP, 1, w("Wv"), 0, v("hq_pad"), 0),
         Ref(v("qc"), "DEQUANT", QN, <<E(v("accq")), R(v("hq")), C(w("sq"))>>),
         Ref(v("kc"), "DEQUANT", HD, <<E(v("acck")), R(v("hq")), C(w("sk"))>>),
         Ref(v("vc"), "DEQUANT", P.TP, <<E(v("accv")), RElem(w("sv")), CRow(v("hq_pad"))>>),
         Ref(v("qpa"), "ROPE_A", HD, <<E(v("qc")), E(sh("cos_q"))>>),
         Ref(v("qr"), "ROPE_B", HD, <<X(v("qc")), E(sh("sgn_q")), E(v("qpa"))>>),
         Ref(v("kpa"), "ROPE_A", HD, <<E(v("kc")), E(sh("cos_k"))>>),
         Ref(v("kr"), "ROPE_B", HD, <<X(v("kc")), E(sh("sgn_k")), E(v("kpa"))>>),
         Ref(v("ksuf"), "QUANT", HD, <<E(v("kr"))>>),
         Ref(v("qq"), "QUANT", HD, <<E(v("qr"))>>),
         Ref(v("vsq"), "QUANT", P.TP, <<E(v("vc"))>>),
         RefGemm(v("logit"), P.NK, HD, v("qq"), 0, v("keys"), 0),
         Ref(v("lc"), "DEQUANT", P.NK, <<E(v("logit")), R(v("qq")), CRow(v("keys")), E(sh("mask"))>>),
         Ref(v("pq"), "SMAX", P.NK, <<E(v("lc")), E(sh("mask"))>>),
         RefGemm(v("ctxs"), HD, P.TP, v("p_suf"), 0, v("vsq"), 0),
         Ref(v("cs"), "DEQUANT", HD, <<E(v("ctxs")), R(v("pq")), CRow(v("vsq"))>>),
         Ref(v("ctxq"), "QUANT", QN, <<E(v("ctx"))>>),
         RefGemm(v("acco"), 1, QN, v("ctxq"), 0, w("Wo"), 0),
         Ref(v("oc"), "DEQUANT", 1, <<E(v("acco")), R(v("ctxq")), C(w("so"))>>),
         Ref(v("yc"), "ADD", 1, <<E(v("oc")), E(x.codes)>>),
         Ref(v("r2"), "RMS_STAT", 1, <<E(v("yc"))>>),
         Ref(v("h2c"), "RMS_APPLY", 1, <<E(v("yc")), R(v("r2")), C(w("gain_post"))>>),
         Ref(v("h2q"), "QUANT", 1, <<E(v("h2c"))>>),
         Ref(v("zc"), "ADD", 1, <<E(vj("mc", P.NB)), E(v("yc"))>>)}
        \cup UNION {
        {RefGemm(vj("accg", j), 1, 1, v("h2q"), 0, w("Wg"), j - 1),
         RefGemm(vj("accu", j), 1, 1, v("h2q"), 0, w("Wu"), j - 1),
         Ref(vj("gc", j), "DEQUANT", 1, <<E(vj("accg", j)), R(v("h2q")), CAt(w("sg"), j - 1)>>),
         Ref(vj("uc", j), "DEQUANT", 1, <<E(vj("accu", j)), R(v("h2q")), CAt(w("su"), j - 1)>>),
         Ref(vj("gg", j), "GEGLU", 1, <<E(vj("gc", j)), E(vj("uc", j))>>),
         Ref(vj("mq", j), "QUANT", 1, <<E(vj("gg", j))>>),
         RefGemm(vj("accd", j), 1, 1, vj("mq", j), 0, Weight(me, "Wd", j), 0),
         Ref(vj("mc", j), "DEQUANT", 1, <<E(vj("accd", j)), R(vj("mq", j)), C(w("sd"))>>
                                        \o (IF j = 1 THEN <<>> ELSE <<E(vj("mc", j - 1))>>))} : j \in 1 .. P.NB}
        \cup
        (IF me[1] = "lm"
         THEN {Ref(v("ctx"), "ADD", QN, <<E(v("cs")), K>>),
               Ref(v("vcx"), "DEQUANT", P.TP, <<E(v("accv")), RElem(w("sv_ex")), CRow(v("hq_pad"))>>),
               Ref(v("vpq"), "QUANT", P.TP, <<E(v("vcx"))>>)}
         ELSE {RefGemm(v("ctxp"), HD, P.NPS, v("p_pre"), 0, Arr(pre, "vpq", 0), 0),
               Ref(v("cp"), "DEQUANT", HD, <<E(v("ctxp")), R(v("pq")), CRow(Arr(pre, "vpq", 0))>>),
               Ref(v("ctx"), "ADD", QN, <<E(v("cp")), E(v("cs"))>>)})

\* The stages it emits up to the softmax.
GemmaAttention(me, x, pre) ==
    LET P == GemmaSizes(me[1])
        T == P.T
        lm == me[1] = "lm"
        QR == T * HEADS
        v(n) == Arr(me, n, 0)
        g(n) == Arr(me, n, 0)
        w(n) == Weight(me, n, 0)
        sh(n) == Shared(me, n)
        KEYS == Arr(IF lm THEN me ELSE pre, "KEYS", 0)
        KEYSUM == Arr(IF lm THEN me ELSE pre, "KEYSUM", 0)
        vec(op, n, rows, len, out, sum, ops) == Rec(op, v(n), rows, len, g(out), 0, g(sum), 0, ops)
    IN  <<Stage("VN", me, "rms_quant",
            <<Stat("RMS_STAT", v("rms"), T, x, NoRegion, g("RSUM")),
              vec("RMS_APPLY", "hc", T, 1, "HB", "HSUM", <<E(x.reg), R(g("RSUM")), C(w("gain_in"))>>),
              Quant(v("hq"), T, 1, g("HB"), g("HSUM"), g("HQ"), g("HQSUM"))>>),
          Stage("CH8", me, "qkv_gemm",
            <<Load(v("accq"), T, QN, 1, g("HQ"), w("Wq"), 0, g("ACCQ")),
              Load(v("acck"), T, HD, 1, g("HQ"), w("Wk"), 0, g("ACCK")),
              Gemm(v("accv"), HD, P.TP, 1, w("Wv"), 0, 1, g("HQ"), 0, g("ACCV"), 0, TRUE)>>),
          Stage("VN", me, "dequant_rope_quant",
            <<vec("DEQUANT", "qc", T, QN, "QB", "QBSUM", <<E(g("ACCQ")), R(g("HQSUM")), C(w("sq"))>>),
              vec("DEQUANT", "kc", T, HD, "KB", "KBSUM", <<E(g("ACCK")), R(g("HQSUM")), C(w("sk"))>>),
              vec("DEQUANT", "vc", HD, P.TP, "VB", "VBSUM", <<E(g("ACCV")), RElem(w("sv")), CRow(g("HQSUM"))>>),
              vec("ROPE_A", "qpa", QR, HD, "QPA", "QPASUM", <<E(g("QB")), E(sh("cos_q"))>>),
              vec("ROPE_B", "qr", QR, HD, "QR", "QRSUM", <<X(g("QB")), E(sh("sgn_q")), E(g("QPA"))>>),
              vec("ROPE_A", "kpa", T, HD, "KPA", "KPASUM", <<E(g("KB")), E(sh("cos_k"))>>),
              vec("ROPE_B", "kr", T, HD, "KR", "KRSUM", <<X(g("KB")), E(sh("sgn_k")), E(g("KPA"))>>),
              Quant(v("qq"), QR, HD, g("QR"), g("QRSUM"), g("QQ"), g("QQSUM")),
              [Quant(v("ksuf"), T, HD, g("KR"), g("KRSUM"), KEYS, KEYSUM)
                    EXCEPT !.oo = P.NPS * HD, !.so = P.NPS],
              Quant(v("vsq"), HD, P.TP, g("VB"), g("VBSUM"), g("VSQ"), g("VSQSUM"))>>
            \o (IF lm THEN
                <<vec("DEQUANT", "vcx", HD, P.TP, "VBX", "VBXSUM",
                      <<E(g("ACCV")), RElem(w("sv_ex")), CRow(g("HQSUM"))>>),
                  Quant(v("vpq"), HD, P.TP, g("VBX"), g("VBXSUM"), g("VPQ"), g("VPSUM"))>> ELSE <<>>)),
          Stage("CH8", me, "qk_gemm",
            <<Gemm(v("logit"), QR, P.NK, HD, g("QQ"), 0, HD, KEYS, 0, g("LOGIT"), 0, TRUE)>>),
          Stage("VN", me, "logits_softmax",
            <<[vec("DEQUANT", "lc", QR, P.NK, "LB", "LSUM",
                   <<E(g("LOGIT")), R(g("QQSUM")), CRow(KEYSUM), E(sh("mask"))>>) EXCEPT !.mask = TRUE],
              [vec("SMAX", "pq", QR, P.NK, "PC", "PSUM", <<E(g("LB")), E(sh("mask"))>>)
                   EXCEPT !.mask = TRUE, !.rs = R(g("LSUM"))]>>)>>

\* The product with V, and the context of the tokens.
GemmaContext(me, x, pre) ==
    LET P == GemmaSizes(me[1])
        T == P.T
        lm == me[1] = "lm"
        QR == T * HEADS
        v(n) == Arr(me, n, 0)
        vec(op, n, rows, len, out, sum, ops) == Rec(op, v(n), rows, len, v(out), 0, v(sum), 0, ops)
        VPQ == Arr(pre, "VPQ", 0)
        VPSUM == Arr(pre, "VPSUM", 0)
    IN  <<Stage("CHU", me, "pv_gemm",
            (IF lm THEN <<>> ELSE
             <<Gemm(v("ctxp"), QR, HD, P.NPS, v("PC"), 0, P.NK, VPQ, 0, v("CTXP"), 0, TRUE)>>)
            \o <<Gemm(v("ctxs"), QR, HD, P.TP, v("PC"), P.NPS, P.NK, v("VSQ"), 0, v("CTXS"), 0, TRUE)>>),
          Stage("VN", me, "context",
            (IF lm THEN <<>> ELSE
             <<vec("DEQUANT", "cp", QR, HD, "CP", "CPSUM", <<E(v("CTXP")), R(v("PSUM")), CRow(VPSUM)>>)>>)
            \o <<vec("DEQUANT", "cs", QR, HD, "CS", "CSSUM", <<E(v("CTXS")), R(v("PSUM")), CRow(v("VSQSUM"))>>),
                 vec("ADD", "ctx", T, QN, "CTX", "CTXSUM",
                     IF lm THEN <<E(v("CS")), K>> ELSE <<E(v("CP")), E(v("CS"))>>),
                 Quant(v("ctxq"), T, QN, v("CTX"), v("CTXSUM"), v("CTXQ"), v("CTXQSUM"))>>)>>

\* The output projection, the MLP in sub-blocks and the two residuals.
GemmaMlp(me, x) ==
    LET P == GemmaSizes(me[1])
        T == P.T
        v(n) == Arr(me, n, 0)
        vj(n, j) == Arr(me, n, j)
        w(n) == Weight(me, n, 0)
        vec(op, n, rows, len, out, sum, ops) == Rec(op, v(n), rows, len, v(out), 0, v(sum), 0, ops)
        vecj(op, n, j, out, sum, ops) == Rec(op, vj(n, j), T, 1, vj(out, j), 0, vj(sum, j), 0, ops)
        blocks(F(_)) == FlattenSeq([j \in 1 .. P.NB |-> F(j)])
    IN  <<Stage("CH8", me, "o_gemm", <<Load(v("acco"), T, 1, QN, v("CTXQ"), w("Wo"), 0, v("ACCO"))>>),
          Stage("VN", me, "o_dequant_residual",
            <<vec("DEQUANT", "oc", T, 1, "OB", "OSUM", <<E(v("ACCO")), R(v("CTXQSUM")), C(w("so"))>>),
              vec("ADD", "yc", T, 1, "YB", "YSUM", <<E(v("OB")), E(x.reg)>>)>>),
          Stage("VN", me, "rms2_quant",
            <<Stat("RMS_STAT", v("r2"), T, Act(v("yc"), v("YB"), v("YSUM")), NoRegion, v("R2SUM")),
              vec("RMS_APPLY", "h2c", T, 1, "H2", "H2SUM", <<E(v("YB")), R(v("R2SUM")), C(w("gain_post"))>>),
              Quant(v("h2q"), T, 1, v("H2"), v("H2SUM"), v("H2Q"), v("H2QSUM"))>>),
          Stage("CH8", me, "gate_up_gemm",
            [j \in 1 .. P.NB |-> Load(vj("accg", j), T, 1, 1, v("H2Q"), w("Wg"), j - 1, vj("ACCG", j))]
            \o [j \in 1 .. P.NB |-> Load(vj("accu", j), T, 1, 1, v("H2Q"), w("Wu"), j - 1, vj("ACCU", j))]),
          Stage("VN", me, "geglu_quant", blocks(LAMBDA j :
            <<vecj("DEQUANT", "gc", j, "GB", "GBSUM", <<E(vj("ACCG", j)), R(v("H2QSUM")), CAt(w("sg"), j - 1)>>),
              vecj("DEQUANT", "uc", j, "UB", "UBSUM", <<E(vj("ACCU", j)), R(v("H2QSUM")), CAt(w("su"), j - 1)>>),
              vecj("GEGLU", "gg", j, "GG", "GGSUM", <<E(vj("GB", j)), E(vj("UB", j))>>),
              Quant(vj("mq", j), T, 1, vj("GG", j), vj("GGSUM", j), vj("MQ", j), vj("MQSUM", j))>>)),
          Stage("CH8", me, "down_gemm", [j \in 1 .. P.NB |->
            Load(vj("accd", j), T, 1, 1, vj("MQ", j), Weight(me, "Wd", j), 0, vj("ACCD", j))]),
          \* every block but the last stays fp32 and is the bias of the next
          Stage("VN", me, "down_dequant_residual",
            [j \in 1 .. P.NB |->
              [vecj("DEQUANT", "mc", j, "MB", "MBSUM",
                    <<E(vj("ACCD", j)), R(vj("MQSUM", j)), C(w("sd"))>>
                    \o (IF j = 1 THEN <<>> ELSE <<E(vj("MB", j - 1))>>)) EXCEPT !.f32 = j < P.NB]]
            \o <<vec("ADD", "zc", T, 1, "ZB", "ZSUM", <<E(vj("MB", P.NB)), E(v("YB"))>>)>>)>>

GemmaStages(me, x, pre) == GemmaAttention(me, x, pre) \o GemmaContext(me, x, pre) \o GemmaMlp(me, x)
LayerOut(me) == Act(Arr(me, "zc", 0), Arr(me, "ZB", 0), Arr(me, "ZSUM", 0))
=============================================================================
