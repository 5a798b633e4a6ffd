---------------------------- MODULE VisionStages ----------------------------
(***************************************************************************)
(* The builders around the Gemma layers (paper/sw/pi0_chunk_layers.py):    *)
(* SigLIP encoder layers, the two ends of the vision tower, the action     *)
(* head and the plain copy -- references and records, as in LayerStages.   *)
(***************************************************************************)
EXTENDS LayerStages

QNV == VHEADS

\* add_pass: a copy whose summaries the next norm or QUANT reads.
AddPassRefs(me, x) == {Ref(Arr(me, "cp", 0), "ADD", 1, <<E(x.codes), K>>)}
AddPassStages(me, x, rows) ==
    <<Stage("VN", me, "add_pass",
        <<Rec("ADD", Arr(me, "cp", 0), rows, 1, Arr(me, "CP", 0), 0, Arr(me, "CPSUM", 0), 0, <<E(x.reg), K>>)>>)>>
AddPassOut(me) == Act(Arr(me, "cp", 0), Arr(me, "CP", 0), Arr(me, "CPSUM", 0))

(***************************************************************************)
(* SigLIP.  Heads are separate GEMM outputs, but QUANT and softmax run     *)
(* over the rows of all heads at once: array q b of head j is rows         *)
(* (j-1)*T ... of the composite with index 0 (Resolve in ChunkFlow).       *)
(***************************************************************************)
\* __init__: the padded images, scales and biases of a layer, placed once.
SiglipWeight(me, name, j) == Arr(<<"vis.w", me[2], 0>>, name, j)

LnRefs(me, ls, h, hq, x, g, b) ==
    LET v(n) == Arr(me, n, 0)
    IN  {Ref(v(ls), "LN_STAT", 1, <<E(x.codes)>>),
         Ref(v(h), "LN_APPLY", 1, <<E(x.codes), R(v(ls)), RElem(v(ls)), C(g), C(b)>>),
         Ref(v(hq), "QUANT", 1, <<E(v(h))>>)}

\* LN_STAT leaves 1/sigma as an element per row and the mean in the summary.
LnRecs(me, T, ls, LS, LSSUM, h, HB, HSUM, hq, HQ, HQSUM, x, g, b) ==
    LET v(n) == Arr(me, n, 0)
    IN  <<Stat("LN_STAT", v(ls), T, x, v(LS), v(LSSUM)),
          Rec("LN_APPLY", v(h), T, 1, v(HB), 0, v(HSUM), 0,
              <<E(x.reg), R(v(LSSUM)), RElem(v(LS)), C(g), C(b)>>),
          Quant(v(hq), T, 1, v(HB), v(HSUM), v(HQ), v(HQSUM))>>

SiglipRefs(me, x) ==
    LET T == TV
        v(n) == Arr(me, n, 0)
        vj(n, j) == Arr(me, n, j)
        w(n) == SiglipWeight(me, n, 0)
    IN  LnRefs(me, "ls1", "hc", "hq", x, w("ln1_g"), w("ln1_b"))
        \cup LnRefs(me, "ls2", "h2c", "h2q", Act(v("yc"), NoRegion, NoRegion), w("ln2_g"), w("ln2_b"))
        \cup
        {RefGemm(v("accv"), T, 1, w("cv"), 0, v("hq"), 0),
         Ref(v("vb"), "DEQUANT", T, <<E(v("accv")), RElem(w("sv")), CRow(v("hq")), RElem(w("bv"))>>),
         Ref(v("qq"), "QUANT", 1, <<E(v("qb"))>>),
         Ref(v("kq"), "QUANT", 1, <<E(v("kb"))>>),
         Ref(v("vq"), "QUANT", T, <<E(v("vb"))>>),
         Ref(v("pq"), "SMAX", T, <<E(v("lb")), K>>),
         Ref(v("ctxb"), "ADD", QNV, <<E(v("cbt")), K>>),
         Ref(v("cq"), "QUANT", QNV, <<E(v("ctxb"))>>),
         RefGemm(v("acco"), 1, QNV, v("cq"), 0, w("co"), 0),
         Ref(v("oc"), "DEQUANT", 1, <<E(v("acco")), R(v("cq")), C(w("so")), C(w("bo"))>>),
         Ref(v("yc"), "ADD", 1, <<E(v("oc")), E(x.codes)>>),
         Ref(v("zc"), "ADD", 1, <<E(vj("m", VBlocks)), E(v("yc"))>>)}
        \cup UNION {LET h == j - 1 IN
        {RefGemm(vj("accq", j), 1, 1, v("hq"), 0, w("cq"), h),
         RefGemm(vj("acck", j), 1, 1, v("hq"), 0, w("ck"), h),
         Ref(vj("qb", j), "DEQUANT", 1, <<E(vj("accq", j)), R(v("hq")), CAt(w("sq"), h), CAt(w("bq"), h)>>),
         Ref(vj("kb", j), "DEQUANT", 1, <<E(vj("acck", j)), R(v("hq")), CAt(w("sk"), h), CAt(w("bk"), h)>>),
         RefGemm(vj("logit", j), T, 1, v("qq"), h * T, v("kq"), h * T),
         Ref(vj("lb", j), "DEQUANT", T, <<E(vj("logit", j)), RAt(v("qq"), h * T), CRowAt(v("kq"), h * T)>>),
         RefGemm(vj("ctx", j), 1, T, v("pq"), h * T, v("vq"), h),
         Ref(vj("cbt", j), "DEQUANT", 1, <<E(vj("ctx", j)), RAt(v("pq"), h * T), CRowAt(v("vq"), h)>>)}
            : j \in 1 .. VHEADS}
        \cup UNION {
        {RefGemm(vj("acc1", j), 1, 1, v("h2q"), 0, w("c1"), j - 1),
         Ref(vj("g1", j), "DEQUANT", 1, <<E(vj("acc1", j)), R(v("h2q")), CAt(w("s1"), j - 1), CAt(w("b1"), j - 1)>>),
         Ref(vj("ge", j), "GELU", 1, <<E(vj("g1", j))>>),
         Ref(vj("mq", j), "QUANT", 1, <<E(vj("ge", j))>>),
         RefGemm(vj("acc2", j), 1, 1, vj("mq", j), 0, SiglipWeight(me, "c2", j), 0),
         Ref(vj("m", j), "DEQUANT", 1, <<E(vj("acc2", j)), R(vj("mq", j)), C(w("s2")),
                                         IF j = 1 THEN C(w("b2")) ELSE E(vj("m", j - 1))>>)} : j \in 1 .. VBlocks}

SiglipAttention(me, x) ==
    LET T == TV
        v(n) == Arr(me, n, 0)
        vj(n, j) == Arr(me, n, j)
        w(n) == SiglipWeight(me, n, 0)
        heads(F(_)) == [j \in 1 .. VHEADS |-> F(j - 1)]
        \* one head of a region that holds all heads, from cell oo and row so on
        vech(op, n, h, len, out, oo, sum, ops) == Rec(op, vj(n, h + 1), T, len, v(out), oo, v(sum), h * T, ops)
    IN  <<Stage("VN", me, "ln1", LnRecs(me, T, "ls1", "LS1", "LS1SUM", "hc", "HB", "HSUM", "hq", "HQ", "HQSUM",
                                        x, w("ln1_g"), w("ln1_b"))),
          Stage("CH8", me, "qkv_gemm",
            heads(LAMBDA h : Load(vj("accq", h + 1), T, 1, 1, v("HQ"), w("cq"), h, vj("ACCQ", h + 1)))
            \o heads(LAMBDA h : Load(vj("acck", h + 1), T, 1, 1, v("HQ"), w("ck"), h, vj("ACCK", h + 1)))
            \o <<Gemm(v("accv"), QNV, T, 1, w("cv"), 0, 1, v("HQ"), 0, v("ACCV"), 0, TRUE)>>),
          Stage("VN", me, "dequant_quant",
            heads(LAMBDA h : vech("DEQUANT", "qb", h, 1, "QB", h * T, "QBSUM",
                        <<E(vj("ACCQ", h + 1)), R(v("HQSUM")), CAt(w("sq"), h), CAt(w("bq"), h)>>))
            \o heads(LAMBDA h : vech("DEQUANT", "kb", h, 1, "KB", h * T, "KBSUM",
                        <<E(vj("ACCK", h + 1)), R(v("HQSUM")), CAt(w("sk"), h), CAt(w("bk"), h)>>))
            \o <<Rec("DEQUANT", v("vb"), QNV, T, v("VB"), 0, v("VBSUM"), 0,
                     <<E(v("ACCV")), RElem(w("sv")), CRow(v("HQSUM")), RElem(w("bv"))>>),
                 Quant(v("qq"), VHEADS * T, 1, v("QB"), v("QBSUM"), v("QQ"), v("QQSUM")),
                 Quant(v("kq"), VHEADS * T, 1, v("KB"), v("KBSUM"), v("KQ"), v("KQSUM")),
                 Quant(v("vq"), QNV, T, v("VB"), v("VBSUM"), v("VQ"), v("VQSUM"))>>),
          Stage("CH8", me, "qk_gemm", heads(LAMBDA h :
            Gemm(vj("logit", h + 1), T, T, 1, v("QQ"), h * T, 1, v("KQ"), h * T, v("LOGIT"), h * T * T, TRUE))),
          Stage("VN", me, "logits_softmax",
            heads(LAMBDA h : vech("DEQUANT", "lb", h, T, "LB", h * T * T, "LSUM",
                     <<EAt(v("LOGIT"), h * T * T), RAt(v("QQSUM"), h * T), CRowAt(v("KQSUM"), h * T)>>))
            \o <<[Rec("SMAX", v("pq"), VHEADS * T, T, v("PC"), 0, v("PSUM"), 0, <<E(v("LB")), K>>)
                      EXCEPT !.rs = R(v("LSUM"))]>>),
          Stage("CHU", me, "pv_gemm", heads(LAMBDA h :
            Gemm(vj("ctx", h + 1), T, 1, T, v("PC"), h * T * T, T, v("VQ"), h, v("CTX"), h * T, TRUE))),
          Stage("VN", me, "context",
            heads(LAMBDA h : [vech("DEQUANT", "cbt", h, 1, "CBT", h, "CBSUM",
                     <<EAt(v("CTX"), h * T), RAt(v("PSUM"), h * T), CRowAt(v("VQSUM"), h)>>) EXCEPT !.gap = QNV - 1])
            \o <<Rec("ADD", v("ctxb"), T, QNV, v("CTXB"), 0, v("CTXSUM"), 0, <<E(v("CBT")), K>>),
                 Quant(v("cq"), T, QNV, v("CTXB"), v("CTXSUM"), v("CQ"), v("CQSUM"))>>)>>

SiglipRest(me, x) ==
    LET T == TV
        v(n) == Arr(me, n, 0)
        vj(n, j) == Arr(me, n, j)
        w(n) == SiglipWeight(me, n, 0)
        vec(op, n, out, sum, ops) == Rec(op, n, T, 1, out, 0, sum, 0, ops)
        blocks(F(_)) == FlattenSeq([j \in 1 .. VBlocks |-> F(j)])
    IN  <<Stage("CH8", me, "o_gemm", <<Load(v("acco"), T, 1, QNV, v("CQ"), w("co"), 0, v("ACCO"))>>),
          Stage("VN", me, "o_dequant_residual",
            <<vec("DEQUANT", v("oc"), v("OB"), v("OBSUM"), <<E(v("ACCO")), R(v("CQSUM")), C(w("so")), C(w("bo"))>>),
              vec("ADD", v("yc"), v("YB"), v("YSUM"), <<E(v("OB")), E(x.reg)>>)>>),
          Stage("VN", me, "ln2", LnRecs(me, T, "ls2", "LS2", "LS2SUM", "h2c", "H2", "H2SUM", "h2q", "H2Q", "H2QSUM",
                                        Act(v("yc"), v("YB"), v("YSUM")), w("ln2_g"), w("ln2_b"))),
          Stage("CH8", me, "fc1_gemm",
            [j \in 1 .. VBlocks |-> Load(vj("acc1", j), T, 1, 1, v("H2Q"), w("c1"), j - 1, vj("ACC1", j))]),
          Stage("VN", me, "gelu_quant", blocks(LAMBDA j :
            <<vec("DEQUANT", vj("g1", j), vj("G1", j), vj("G1SUM", j),
                  <<E(vj("ACC1", j)), R(v("H2QSUM")), CAt(w("s1"), j - 1), CAt(w("b1"), j - 1)>>),
              vec("GELU", vj("ge", j), vj("GE", j), vj("GESUM", j), <<E(vj("G1", j))>>),
              Quant(vj("mq", j), T, 1, vj("GE", j), vj("GESUM", j), vj("MQ", j), vj("MQSUM", j))>>)),
          Stage("CH8", me, "fc2_gemm", [j \in 1 .. VBlocks |->
            Load(vj("acc2", j), T, 1, 1, vj("MQ", j), SiglipWeight(me, "c2", j), 0, vj("ACC2", j))]),
          Stage("VN", me, "fc2_dequant_residual",
            [j \in 1 .. VBlocks |->
              [vec("DEQUANT", vj("m", j), vj("M", j), vj("MSUM", j),
                   <<E(vj("ACC2", j)), R(vj("MQSUM", j)), C(w("s2")), IF j = 1 THEN C(w("b2")) ELSE E(vj("M", j - 1))>>)
                    EXCEPT !.f32 = j < VBlocks]]
            \o <<vec("ADD", v("zc"), v("ZB"), v("ZSUM"), <<E(vj("M", VBlocks)), E(v("YB"))>>)>>)>>

SiglipStages(me, x) == SiglipAttention(me, x) \o SiglipRest(me, x)

(***************************************************************************)
(* VisionEnds: pixels to the input of SigLIP layer 0, and its last output  *)
(* to the camera's rows of the prefix input.                               *)
(***************************************************************************)
\* __init__: what both cameras share.
Vw(n) == <<"vision.w", 0, 0, n, 0>>

PatchRefs(me) ==
    LET v(n) == Arr(me, n, 0)
    IN  {Ref(v("pq"), "QUANT", 1, <<E(v("patches"))>>),
         RefGemm(v("acc"), 1, 1, v("pq"), 0, Vw("wp"), 0),
         Ref(v("pe"), "DEQUANT", 1, <<E(v("acc")), R(v("pq")), C(Vw("patch_s")), C(Vw("patch_b"))>>),
         Ref(v("x0"), "ADD", 1, <<E(v("pe")), E(Vw("pos"))>>)}
PatchStages(me) ==
    LET v(n) == Arr(me, n, 0)
    IN  <<Stage("VN", me, "patch_quant",
            <<[Quant(v("pq"), TV, 1, v("PATCHES"), NoRegion, v("PQ"), v("PQSUM")) EXCEPT !.rs = RElem(v("PATCHES_AMAX"))]>>),
          Stage("CH8", me, "patch_gemm", <<Load(v("acc"), TV, 1, 1, v("PQ"), Vw("wp"), 0, v("ACC"))>>),
          Stage("VN", me, "patch_dequant_pos",
            <<Rec("DEQUANT", v("pe"), TV, 1, v("PE"), 0, v("PESUM"), 0,
                  <<E(v("ACC")), R(v("PQSUM")), C(Vw("patch_s")), C(Vw("patch_b"))>>),
              Rec("ADD", v("x0"), TV, 1, v("X0"), 0, v("X0SUM"), 0, <<E(v("PE")), E(Vw("pos"))>>)>>)>>
PatchOut(me) == Act(Arr(me, "x0", 0), Arr(me, "X0", 0), Arr(me, "X0SUM", 0))

ProjectorRefs(me, h) ==
    LET v(n) == Arr(me, n, 0)
    IN  LnRefs(me, "ls", "nb", "nq", h, Vw("pln_g"), Vw("pln_b"))
        \cup {RefGemm(v("acc2"), 1, 1, v("nq"), 0, Vw("wj"), 0),
              Ref(v("ie"), "DEQUANT", 1, <<E(v("acc2")), R(v("nq")), C(Vw("proj_s")), C(Vw("proj_b"))>>)}
ProjectorStages(me, h, IE, IESUM, row) ==
    LET v(n) == Arr(me, n, 0)
    IN  <<Stage("VN", me, "post_ln_quant", LnRecs(me, TV, "ls", "LS", "LSSUM", "nb", "NB", "NBSUM", "nq", "NQ", "NQSUM",
                                                  h, Vw("pln_g"), Vw("pln_b"))),
          Stage("CH8", me, "proj_gemm", <<Load(v("acc2"), TV, 1, 1, v("NQ"), Vw("wj"), 0, v("ACC2"))>>),
          Stage("VN", me, "proj_dequant",
            <<Rec("DEQUANT", v("ie"), TV, 1, IE, row, IESUM, row,
                  <<E(v("ACC2")), R(v("NQSUM")), C(Vw("proj_s")), C(Vw("proj_b"))>>)>>)>>

(***************************************************************************)
(* ActionHead: x_t to the action tokens, and the expert's output to x_t+dt *)
(***************************************************************************)
\* __init__: every weight once, and one bias of mlp_in per step (mi_b).
Hw(n, step) == <<"head.w", 0, step, n, 0>>

\* _quant_rec, _dq_rec and _gemm_stage write their reference next to the record.
InputRefs(me, xt) ==
    LET v(n) == Arr(me, n, 0)
        step == me[3]
    IN  {Ref(v("xb"), "ADD", 1, <<K, E(xt)>>),
         Ref(v("xq"), "QUANT", 1, <<E(v("xb"))>>),
         RefGemm(v("acc_in"), 1, 1, v("xq"), 0, Hw("W_in", 0), 0),
         Ref(v("ae"), "DEQUANT", 1, <<E(v("acc_in")), R(v("xq")), C(Hw("in_s", 0)), C(Hw("in_b", 0))>>),
         Ref(v("aq"), "QUANT", 1, <<E(v("ae"))>>),
         RefGemm(v("acc_mi"), 1, 1, v("aq"), 0, Hw("W_mi", 0), 0),
         Ref(v("mi"), "DEQUANT", 1, <<E(v("acc_mi")), R(v("aq")), C(Hw("mi_s", 0)), C(Hw("mi_b", step))>>),
         Ref(v("si"), "SILU", 1, <<E(v("mi"))>>),
         Ref(v("sq"), "QUANT", 1, <<E(v("si"))>>),
         RefGemm(v("acc_mo"), 1, 1, v("sq"), 0, Hw("W_mo", 0), 0),
         Ref(v("tok"), "DEQUANT", 1, <<E(v("acc_mo")), R(v("sq")), C(Hw("mo_s", 0)), C(Hw("mo_b", 0))>>)}
InputStages(me, XT, TOK, row, TOKSUM) ==
    LET v(n) == Arr(me, n, 0)
        step == me[3]
        vec(op, n, out, sum, ops) == Rec(op, v(n), CHUNK, 1, v(out), 0, v(sum), 0, ops)
        gemm(name, n, src, img, out) == Stage("CH8", me, name, <<Load(v(n), CHUNK, 1, 1, v(src), Hw(img, 0), 0, v(out))>>)
    IN  <<Stage("VN", me, "xt_quant",
            <<vec("ADD", "xb", "XB", "XBSUM", <<K, E(XT)>>), Quant(v("xq"), CHUNK, 1, v("XB"), v("XBSUM"), v("XQ"), v("XQSUM"))>>),
          gemm("in_proj_gemm", "acc_in", "XQ", "W_in", "ACC_IN"),
          Stage("VN", me, "in_proj_dequant_quant",
            <<vec("DEQUANT", "ae", "AE", "AESUM", <<E(v("ACC_IN")), R(v("XQSUM")), C(Hw("in_s", 0)), C(Hw("in_b", 0))>>),
              Quant(v("aq"), CHUNK, 1, v("AE"), v("AESUM"), v("AQ"), v("AQSUM"))>>),
          gemm("mlp_in_gemm", "acc_mi", "AQ", "W_mi", "ACC_MI"),
          Stage("VN", me, "mlp_in_dequant_silu_quant",
            <<vec("DEQUANT", "mi", "MI", "MISUM", <<E(v("ACC_MI")), R(v("AQSUM")), C(Hw("mi_s", 0)), C(Hw("mi_b", step))>>),
              vec("SILU", "si", "SI", "SISUM", <<E(v("MI"))>>),
              Quant(v("sq"), CHUNK, 1, v("SI"), v("SISUM"), v("SQ"), v("SQSUM"))>>),
          gemm("mlp_out_gemm", "acc_mo", "SQ", "W_mo", "ACC_MO"),
          Stage("VN", me, "mlp_out_dequant",
            <<Rec("DEQUANT", v("tok"), CHUNK, 1, TOK, row, TOKSUM, 0,
                  <<E(v("ACC_MO")), R(v("SQSUM")), C(Hw("mo_s", 0)), C(Hw("mo_b", 0))>>)>>)>>

OutputRefs(me, h, xt) ==
    LET v(n) == Arr(me, n, 0)
    IN  {Ref(v("rs"), "RMS_STAT", 1, <<E(h.codes)>>),
         Ref(v("nb"), "RMS_APPLY", 1, <<E(h.codes), R(v("rs")), C(Hw("norm_gain", 0))>>),
         Ref(v("nq"), "QUANT", 1, <<E(v("nb"))>>),
         RefGemm(v("acc_out"), 1, 1, v("nq"), 0, Hw("W_out", 0), 0),
         Ref(v("vt"), "DEQUANT", 1, <<E(v("acc_out")), R(v("nq")), C(Hw("out_s", 0)), C(Hw("out_b", 0))>>),
         \* vt51[1:]: the rows of the action tokens, one below the state row
         Ref(v("xn"), "EULER", 1, <<EAt(v("vt"), 1), E(xt)>>)}
\* Two VN stages: EULER reads rows another node may have written.
OutputStages(me, h, XT) ==
    LET v(n) == Arr(me, n, 0)
    IN  <<Stage("VN", me, "final_norm_quant",
            <<Stat("RMS_STAT", v("rs"), T_EX, h, NoRegion, v("RS")),
              Rec("RMS_APPLY", v("nb"), T_EX, 1, v("NB"), 0, v("NBSUM"), 0,
                  <<E(h.reg), R(v("RS")), C(Hw("norm_gain", 0))>>),
              Quant(v("nq"), T_EX, 1, v("NB"), v("NBSUM"), v("NQ"), v("NQSUM"))>>),
          Stage("CH8", me, "out_proj_gemm", <<Load(v("acc_out"), T_EX, 1, 1, v("NQ"), Hw("W_out", 0), 0, v("ACC_OUT"))>>),
          Stage("VN", me, "out_proj_dequant",
            <<[Rec("DEQUANT", v("vt"), T_EX, 1, v("VT"), 0, v("VTSUM"), 0,
                   <<E(v("ACC_OUT")), R(v("NQSUM")), C(Hw("out_s", 0)), C(Hw("out_b", 0))>>) EXCEPT !.f32 = TRUE]>>),
          Stage("VN", me, "euler",
            <<[Rec("EULER", v("xn"), CHUNK, 1, v("XN"), 0, v("XNSUM"), 0, <<EAt(v("VT"), 1), E(XT)>>) EXCEPT !.f32 = TRUE]>>)>>
=============================================================================
