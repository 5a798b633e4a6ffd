---------------------------- MODULE GoldenStages ----------------------------
(***************************************************************************)
(* The programs of the golden scripts: one layer, or one end of the model, *)
(* lowered on its own (pi0_attn_golden, pi0_siglip_golden,                 *)
(* pi0_action_head_golden, pi0_vision_ends_golden).  They came before the  *)
(* chunk builders and differ from them where written out below: the input  *)
(* is captured and carries its row amaxima, an expert layer takes the      *)
(* prefix as inputs, stages are merged, SigLIP has a second output         *)
(* projection.  The simulations run them; nobody generates one program     *)
(* from the other.                                                         *)
(***************************************************************************)
EXTENDS ChunkPasses

Goldens == {"attn_lm", "attn_ex", "siglip_token", "siglip_head", "action_head", "vision_ends"}

\* Inputs of a golden program: the captured activations and their amaxima.
Gold(n) == <<"gold", 0, 0, n, 0>>
GoldX == Act(Gold("x"), Gold("X"), Gold("X_AMAX"))

AttnMe(p) == IF p = "attn_lm" THEN <<"lm", 0, 0>> ELSE <<"ex", 0, 0>>
Pre == <<"lm", 0, 0>>
Vis == <<"vis", 0, 0>>
Join(a, b) == [a EXCEPT !.recs = @ \o b.recs]

\* pi0_attn_golden, norm to QUANT of the keys: no V for the expert, and the
\* scales of the padded token rows are an input of their own (s_h_pad).
AttnFront(me) ==
    LET s == GemmaAttention(me, GoldX, Pre)
    IN  <<s[1], s[2], [s[3] EXCEPT !.recs = [SubSeq(@, 1, 10) EXCEPT ![3].ops[3] = C(Gold("SHPAD"))]]>>
\* QK, softmax, PV and the context.
AttnScores(me) == SubSeq(GemmaAttention(me, GoldX, Pre), 4, 5) \o GemmaContext(me, GoldX, Pre)
\* o, the MLP in sub-blocks and the two residuals.
AttnMlp(me) == GemmaMlp(me, GoldX)
AttnGolden(me) == AttnFront(me) \o AttnScores(me) \o AttnMlp(me)

(***************************************************************************)
(* SigLIP.  --o-proj head: the context is quantised per (token, head), the *)
(* projection has one GEMM per head over the head's weight columns, and a  *)
(* chain of DEQUANTs adds the heads up in fp32.                            *)
(***************************************************************************)
HeadW(j) == SiglipWeight(Vis, "co_h", j)
HeadRefs ==
    LET v(n) == Arr(Vis, n, 0)
        vj(n, j) == Arr(Vis, n, j)
        w(n) == SiglipWeight(Vis, n, 0)
        h(j) == (j - 1) * TV
    IN  {Ref(v("cqd"), "QUANT", 1, <<E(v("cb"))>>),
         Ref(v("yc"), "ADD", 1, <<E(vj("oc", VHEADS)), E(GoldX.codes)>>)}
        \cup UNION {
        {Ref(vj("cb", j), "DEQUANT", 1, <<E(vj("ctx", j)), RAt(v("pq"), h(j)), CRowAt(v("vq"), j - 1)>>),
         RefGemm(vj("acco", j), 1, 1, v("cqd"), h(j), HeadW(j), 0),
         Ref(vj("oc", j), "DEQUANT", 1, <<E(vj("acco", j)), RAt(v("cqd"), h(j)), C(w("so")),
                                          IF j = 1 THEN C(w("bo")) ELSE E(vj("oc", j - 1))>>)} : j \in 1 .. VHEADS}
HeadStages ==
    LET v(n) == Arr(Vis, n, 0)
        vj(n, j) == Arr(Vis, n, j)
        w(n) == SiglipWeight(Vis, n, 0)
        h(j) == (j - 1) * TV
        heads(F(_)) == [j \in 1 .. VHEADS |-> F(j)]
    IN  <<Stage("VN", Vis, "context",
            heads(LAMBDA j : Rec("DEQUANT", vj("cb", j), TV, 1, v("CB"), h(j), v("CBSUM"), h(j),
                                 <<EAt(v("CTX"), h(j)), RAt(v("PSUM"), h(j)), CRowAt(v("VQSUM"), j - 1)>>))
            \o <<Quant(v("cqd"), VHEADS * TV, 1, v("CB"), v("CBSUM"), v("CQ"), v("CQSUM"))>>),
          Stage("CH8", Vis, "o_gemm",
            heads(LAMBDA j : Gemm(vj("acco", j), TV, 1, 1, v("CQ"), h(j), 1, HeadW(j), 0, vj("ACCO", j), 0, FALSE))),
          Stage("VN", Vis, "o_dequant_residual",
            heads(LAMBDA j : [Rec("DEQUANT", vj("oc", j), TV, 1, vj("OB", j), 0, vj("OBSUM", j), 0,
                                  <<E(vj("ACCO", j)), RAt(v("CQSUM"), h(j)), C(w("so")),
                                    IF j = 1 THEN C(w("bo")) ELSE E(vj("OB", j - 1))>>) EXCEPT !.f32 = j < VHEADS])
            \o <<Rec("ADD", v("yc"), TV, 1, v("YB"), 0, v("YSUM"), 0, <<E(vj("OB", VHEADS)), E(GoldX.reg)>>)>>)>>

SiglipGolden(p) ==
    LET rest == SiglipRest(Vis, GoldX)
        front == SiglipAttention(Vis, GoldX)
    IN  IF p = "siglip_token" THEN front \o rest
        ELSE SubSeq(front, 1, 6) \o HeadStages \o SubSeq(rest, 3, 7)

\* pi0_action_head_golden: one step; the input side ends in a region of its own
\* and shares a stage with the norm of the captured expert output, and the last
\* DEQUANT and EULER share one.
HeadIn == <<"head_in", 0, 0>>
HeadOut == <<"head_out", 0, 0>>
ActionHeadGolden ==
    LET in == InputStages(HeadIn, XT(0), Gold("TOK"), 0, Gold("TOKSUM"))
        out == OutputStages(HeadOut, GoldX, XT(0))
    IN  SubSeq(in, 1, 6) \o <<Join(in[7], out[1]), out[2], Join(out[3], out[4])>>

\* pi0_vision_ends_golden: both ends, the second on a captured activation.
VisionEndsGolden ==
    PatchStages(<<"patch", 0, 0>>) \o ProjectorStages(<<"proj", 0, 0>>, GoldX, Gold("IE"), Gold("IESUM"), 0)

(***************************************************************************)
(* The program of an option, before the passes, and its reference.         *)
(***************************************************************************)
GoldenStages(p) ==
    CASE p \in {"attn_lm", "attn_ex"} -> AttnGolden(AttnMe(p))
      [] p \in {"siglip_token", "siglip_head"} -> SiglipGolden(p)
      [] p = "action_head" -> ActionHeadGolden
      [] p = "vision_ends" -> VisionEndsGolden
GoldenRefs(p) ==
    CASE p \in {"attn_lm", "attn_ex"} -> GemmaRefs(AttnMe(p), GoldX, Pre)
      [] p = "siglip_token" -> SiglipRefs(Vis, GoldX)
      [] p = "siglip_head" ->
            {e \in SiglipRefs(Vis, GoldX) : e.n[4] \notin {"cbt", "ctxb", "cq", "acco", "oc", "yc"}} \cup HeadRefs
      [] p = "action_head" -> InputRefs(HeadIn, Xt(0)) \cup OutputRefs(HeadOut, GoldX, Xt(0))
      [] p = "vision_ends" -> PatchRefs(<<"patch", 0, 0>>) \cup ProjectorRefs(<<"proj", 0, 0>>, GoldX)

Emit(o) == IF o.program = "chunk" THEN Assembled(o) ELSE GoldenStages(o.program)
Reference(o) == IF o.program = "chunk" THEN Refs(o) ELSE GoldenRefs(o.program)
Built(o) == IF o.program = "chunk" THEN Lowered(o) ELSE Chunk(GoldenStages(o.program), {})
=============================================================================
