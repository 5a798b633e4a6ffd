----------------------------- MODULE VectorLane -----------------------------
(***************************************************************************)
(* A lane of the vector unit (vu_lane.sv, vu_pdq.sv): one datapath         *)
(*     U -> ADD1 or a table -> MUL1 -> MUL2 -> ADD2 -> ROUND               *)
(* every operation goes through with its own operands, identities where it *)
(* has none; the accumulators and the row-end microcode of the reductions; *)
(* the tail that quantises a finished row.  The golden operations of       *)
(* VectorOps are formulas of their own: what the two share are numbers,    *)
(* codes and tables.  A command d has the fields op, k, bfp32, bias,       *)
(* ofp32, pdq; an element w the operands x, b, c, d, e, rs, mask.          *)
(***************************************************************************)
EXTENDS VectorOps

ExpOps == {"SMAX_SUM", "SMAX_OUT", "SMAX_Q8"}
GateOps == {"GELU", "GEGLU", "SILU"}
ApplyOps == {"RMS_APPLY", "LN_APPLY"}
EmitsBf16(d) == d.op \in GateOps \cup ApplyOps \cup {"ADD", "ROPE_B", "SMAX_OUT"} \/ (d.op = "DEQUANT" /\ ~ d.ofp32)
EmitsElements(d) == d.op \notin {"RMS_STAT", "LN_STAT", "SMAX_SUM"}

Rounded(d, y) ==
    CASE d.op = "QUANT" \/ (d.op = "SMAX_Q8" /\ ~ d.bfp32) -> Int8Code(ToInt8(y))
      [] d.op = "SMAX_Q8" /\ d.bfp32 -> ToUint8(y)
      [] EmitsBf16(d) -> ToBf16(y)
      [] OTHER -> ToFp32(y)

\* The word of the constants of a row, shifted to the exponent of its amax.
Shifted(w, zero, es) ==
    [R |-> IF zero THEN Zero ELSE XF(0, w.gR - es, w.mR), s |-> IF zero THEN 0 ELSE ToFp32(XF(0, w.gS + es, w.mS))]
RowWord(amax) ==
    LET e8 == (amax \div 2 ^ (BM - 1)) % 2 ^ EB
        odd == (e8 + 1) % 2
    IN  Shifted(QuantTable[odd, amax % 2 ^ (BM - 1)], e8 = 0, e8 - Bias - odd)

(***************************************************************************)
(* One element.                                                            *)
(***************************************************************************)
Datapath(p, q1, q2, e2) == Add(Mul(Mul(p, q1), q2), e2)
LevelsOf(d) == IF d.bfp32 THEN LevelsU ELSE Levels8

U(d, w) ==
    CASE d.op = "DEQUANT" -> Norm64(w.x, 0, 0)
      [] d.op = "EULER" -> UnpackFp32(w.x)
      [] OTHER -> UnpackBf16(w.x)
B1(d, w) ==
    CASE d.op = "ADD" /\ d.bfp32 -> UnpackFp32(w.b)
      [] d.op = "ADD" /\ ~ d.bfp32 -> UnpackBf16(w.b)
      [] d.op = "LN_APPLY" -> Neg(UnpackFp32(w.b))
      [] OTHER -> Zero
TableOut(d, w) ==
    CASE d.op \in ExpOps -> ExpOf(U(d, w), UnpackBf16(w.rs), w.mask = 1).x
      [] d.op = "SILU" -> Sigm(U(d, w))
      [] OTHER -> Gelu(U(d, w))
P1(d, w) == IF d.op \in ExpOps THEN TableOut(d, w) ELSE Add(U(d, w), B1(d, w))
Q1(d, w) ==
    CASE d.op \in GateOps -> TableOut(d, w)
      [] d.op \in ApplyOps \cup {"ROPE_A", "ROPE_B", "SMAX_OUT", "DEQUANT"} -> UnpackFp32(w.c)
      [] d.op = "SMAX_Q8" -> ConstXf(LevelsOf(d), 1)
      [] d.op = "QUANT" -> RowWord(w.rs).R
      [] d.op = "EULER" -> UnpackFp32(d.k)
      [] OTHER -> One
Q2(d, w) ==
    CASE d.op \in ApplyOps \cup {"DEQUANT"} -> UnpackFp32(w.d)
      [] d.op = "GEGLU" -> UnpackBf16(w.d)
      [] OTHER -> One
E2(d, w) ==
    IF d.op \in {"LN_APPLY", "ROPE_B", "EULER"} \/ (d.op = "DEQUANT" /\ d.bias) THEN UnpackFp32(w.e) ELSE Zero

Streamed(d, w) == Rounded(d, Datapath(P1(d, w), Q1(d, w), Q2(d, w), E2(d, w)))

(***************************************************************************)
(* The statistics of a row: a few more passes of the datapath at its end.  *)
(***************************************************************************)
RmsEnd(d, acc, E) ==
    LET t == Datapath(Norm64(acc, FACC2, 2 * E), UnpackFp32(d.k), One, Eps)
    IN  Datapath(Rsqrt(t), One, One, Zero)
LnEnd(d, acc1, acc2, E) ==
    LET inverse(ve) == Datapath(Rsqrt(IF ve.s = 1 \/ ve.m = 0 THEN Eps ELSE ve), One, One, Zero)
        withVar(mu, var) == <<mu, inverse(Datapath(Add(var, Eps), One, One, Zero))>>
        withMean(mu) == withVar(mu, Datapath(Norm64(acc2, FACC2, 2 * E), UnpackFp32(d.k), One,
                                             Neg(Datapath(mu, mu, One, Zero))))
    IN  withMean(Datapath(Norm64(acc1, FACC1, E), UnpackFp32(d.k), One, Zero))
SmaxEnd(d, acc) ==
    LET inv(t) == Datapath(t, t, IF d.op = "SMAX_Q8" THEN ConstXf(1, LevelsOf(d)) ELSE One, Zero)
    IN  inv(Rsqrt(Norm64(acc, FSMAX, 0)))

(***************************************************************************)
(* One row: the element codes and the summary.                             *)
(***************************************************************************)
PreDequant(w) ==
    LET y(v, col) == ToBf16(Mul(Mul(Norm64(v, 0, 0), UnpackFp32(w.c)), UnpackFp32(col)))
    IN  [w EXCEPT !.x = y(w.x, w.e), !.d = y(w.d, w.b)]

LaneRowOf(d, ws, codes) ==
    LET rs == ws[Len(ws)].rs
        E == UnpackBf16(rs).e
        acc(term(_)) == SumAll([j \in DOMAIN ws |-> term(ws[j])])
        acc2 == acc(LAMBDA w : Acc2Term(UnpackBf16(w.x), E))
        acc1 == acc(LAMBDA w : Acc1Term(UnpackBf16(w.x), E))
        accS == acc(LAMBDA w : LET y == ExpOf(UnpackBf16(w.x), UnpackBf16(w.rs), w.mask = 1) IN AccExpTerm(y.y, y.k))
        ln == LnEnd(d, acc1, acc2, E)
        value == CASE d.op = "RMS_STAT" -> ToFp32(RmsEnd(d, acc2, E))
                   [] d.op = "LN_STAT" -> ToFp32(ln[1])
                   [] d.op \in {"SMAX_SUM", "SMAX_Q8"} -> ToFp32(SmaxEnd(d, accS))
                   [] d.op = "QUANT" -> RowWord(rs).s
                   [] OTHER -> 0
    IN  [codes |-> IF d.op = "LN_STAT" THEN <<ToFp32(ln[2])>> ELSE codes,
         sum |-> Summary(IF EmitsBf16(d) THEN Tracker(codes, [j \in DOMAIN ws |-> ws[j].mask]) ELSE NoTracker, value)]
Stream(d, ws) == LaneRowOf(d, ws, IF EmitsElements(d) THEN [j \in DOMAIN ws |-> Streamed(d, ws[j])] ELSE <<>>)
LaneRow(d, row) == Stream(d, IF d.pdq THEN [j \in DOMAIN row |-> PreDequant(row[j])] ELSE row)

\* What leaves the lane for a row, in order.  With the quantising tail the
\* row's summary leaves before its elements.
Entry(kind, v) == [kind |-> kind, v |-> v]
Quantised(codes, w) ==
    <<Entry("sum", Summary(NoTracker, w.s)),
      Entry("elem", [j \in DOMAIN codes |-> Int8Code(ToInt8(Mul(UnpackBf16(codes[j]), w.R)))])>>
Leaving(out, quantise) ==
    IF quantise THEN Quantised(out.codes, RowWord(out.sum.amax)) ELSE <<Entry("elem", out.codes), Entry("sum", out.sum)>>
LaneOut(d, tail, row) == Leaving(LaneRow(d, row), tail /\ EmitsBf16(d))
=============================================================================
