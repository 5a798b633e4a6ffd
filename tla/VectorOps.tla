----------------------------- MODULE VectorOps -----------------------------
(***************************************************************************)
(* The golden vector operations (vector_unit_ref.py, the g_ functions of   *)
(* vector_unit_vectors.py): per row of codes, the items a lane has to put  *)
(* out -- elements, for LN_STAT the second statistic, and one summary of   *)
(* the row's largest magnitude, largest valid value and statistic.         *)
(* A row is a record of sequences: the operands x, b, c, d, e, rs, mask as *)
(* the lane sees them, element by element.                                 *)
(***************************************************************************)
EXTENDS XfNumbers, Sequences, Functions, SequencesExt

CONSTANT Levels8, LevelsU       \* 127 and 255

SumAll(s) == FoldSeq(LAMBDA x, y : x + y, 0, s)
Largest(s) == CHOOSE v \in ToSet(s) : \A u \in ToSet(s) : u <= v

Magnitude(c) == c % 2 ^ (EB + BM - 1)
NegInf == 2 ^ (EB + BM - 1) + (2 ^ EB - 1) * 2 ^ (BM - 1)
RowAmax(x) == Largest([i \in DOMAIN x |-> Magnitude(x[i])])

\* Order of bf16 codes; the two zeros are equal only to themselves.
Bf16Gt(a, b) ==
    LET na == a >= 2 ^ (EB + BM - 1)
        nb == b >= 2 ^ (EB + BM - 1)
    IN  /\ a # b
        /\ IF na # nb THEN nb ELSE IF na THEN Magnitude(a) < Magnitude(b) ELSE Magnitude(a) > Magnitude(b)

\* Largest magnitude of a row, and largest value under the mask: minus
\* infinity stands for a masked first element.
Tracker(x, mask) ==
    <<RowAmax(x),
      FoldLeft(LAMBDA mx, i : IF mask[i] = 1 /\ Bf16Gt(x[i], mx) THEN x[i] ELSE mx,
               IF mask[1] = 1 THEN x[1] ELSE NegInf, [i \in 1 .. Len(x) |-> i])>>

(***************************************************************************)
(* Items.                                                                  *)
(***************************************************************************)
Element(v) == [kind |-> 0, v |-> v, amax |-> 0, mx |-> 0]
Stat(v) == [kind |-> 2, v |-> v, amax |-> 0, mx |-> 0]
Summary(t, v) == [kind |-> 1, v |-> v, amax |-> t[1], mx |-> t[2]]
NoTracker == <<0, 0>>
Elements(codes) == [i \in DOMAIN codes |-> Element(codes[i])]
Tracked(codes, mask) == Append(Elements(codes), Summary(Tracker(codes, mask), 0))
Plain(codes, rs0) == Append(Elements(codes), Summary(NoTracker, rs0))
AllOnes(x) == [i \in DOMAIN x |-> 1]
Int8Code(q) == q % 2 ^ (B8 + 1)

(***************************************************************************)
(* Operations.                                                             *)
(***************************************************************************)
OpAdd(a, b, fp32) ==
    [i \in DOMAIN a |-> ToBf16(Add(UnpackBf16(a[i]), IF fp32 THEN UnpackFp32(b[i]) ELSE UnpackBf16(b[i])))]

SumSquares(a, E) == SumAll([i \in DOMAIN a |-> Acc2Term(UnpackBf16(a[i]), E)])
SumValues(a, E) == SumAll([i \in DOMAIN a |-> Acc1Term(UnpackBf16(a[i]), E)])

RmsStat(a, amax, k) ==
    LET E == UnpackBf16(amax).e
    IN  ToFp32(Rsqrt(Add(Mul(Norm64(SumSquares(a, E), FACC2, 2 * E), UnpackFp32(k)), Eps)))
RmsApply(a, r, c) ==
    [i \in DOMAIN a |-> ToBf16(Mul(Mul(UnpackBf16(a[i]), UnpackFp32(r[i])), UnpackFp32(c[i])))]

\* Mean and 1 / deviation; a variance that is not positive counts as epsilon.
InverseRoot(ve) == Rsqrt(IF ve.s = 1 \/ ve.m = 0 THEN Eps ELSE ve)
MeanAndInverse(mu, ms) == <<ToFp32(mu), ToFp32(InverseRoot(Add(Add(ms, Neg(Mul(mu, mu))), Eps)))>>
LnStat(a, amax, k) ==
    LET E == UnpackBf16(amax).e
    IN  MeanAndInverse(Mul(Norm64(SumValues(a, E), FACC1, E), UnpackFp32(k)),
                       Mul(Norm64(SumSquares(a, E), FACC2, 2 * E), UnpackFp32(k)))
LnApply(a, mu, r, c, d) ==
    [i \in DOMAIN a |-> ToBf16(Add(Mul(Mul(Add(UnpackBf16(a[i]), Neg(UnpackFp32(mu[i]))), UnpackFp32(r[i])),
                                       UnpackFp32(c[i])), UnpackFp32(d[i])))]

RopeA(a, cos) == [i \in DOMAIN a |-> ToFp32(Mul(UnpackBf16(a[i]), UnpackFp32(cos[i])))]
RopeB(p, sin, pa) ==
    [i \in DOMAIN p |-> ToBf16(Add(Mul(UnpackBf16(p[i]), UnpackFp32(sin[i])), UnpackFp32(pa[i])))]

OpGelu(a) == [i \in DOMAIN a |-> ToBf16(Mul(UnpackBf16(a[i]), Gelu(UnpackBf16(a[i]))))]
OpSilu(a) == [i \in DOMAIN a |-> ToBf16(Mul(UnpackBf16(a[i]), Sigm(UnpackBf16(a[i]))))]
OpGeglu(a, b) ==
    [i \in DOMAIN a |-> ToBf16(Mul(Mul(UnpackBf16(a[i]), Gelu(UnpackBf16(a[i]))), UnpackBf16(b[i])))]

Exps(a, mx, mask) == [i \in DOMAIN a |-> ExpOf(UnpackBf16(a[i]), UnpackBf16(mx), mask[i] = 1)]
Square(r) == Mul(r, r)
SumOfExps(es) == SumAll([i \in DOMAIN es |-> AccExpTerm(es[i].y, es[i].k)])
InvSum(a, mx, mask) == Square(Rsqrt(Norm64(SumOfExps(Exps(a, mx, mask)), FSMAX, 0)))
SmaxSum(a, mx, mask) == ToFp32(InvSum(a, mx, mask))
SmaxOut(a, mx, inv, mask) ==
    LET es == Exps(a, mx, mask) IN [i \in DOMAIN a |-> ToBf16(Mul(es[i].x, UnpackFp32(inv[i])))]

\* The probabilities as integers of so many levels, and their scale.
SmaxInt(a, mx, mask, unsigned) ==
    LET es == Exps(a, mx, mask)
        levels == IF unsigned THEN LevelsU ELSE Levels8
        code(p) == IF unsigned THEN ToUint8(p) ELSE ToInt8(p)
    IN  <<[i \in DOMAIN a |-> code(Mul(es[i].x, ConstXf(levels, 1)))],
          ToFp32(Mul(InvSum(a, mx, mask), ConstXf(1, levels)))>>

QuantSetup(amax) ==
    LET A == UnpackBf16(amax)
    IN  [R |-> IF A.m = 0 THEN Zero ELSE Mul(Square(Rsqrt(A)), ConstXf(Levels8, 1)), s |-> Mul(A, ConstXf(1, Levels8))]
OpQuant(a, amax) ==
    LET R == QuantSetup(amax).R IN [i \in DOMAIN a |-> ToInt8(Mul(UnpackBf16(a[i]), R))]

Scaled(acc, row, col) == Mul(Mul(Norm64(acc, 0, 0), UnpackFp32(row)), UnpackFp32(col))
OpDequant(acc, row, col, bias, hasBias, fp32) ==
    [i \in DOMAIN acc |-> LET y == Scaled(acc[i], row[i], col[i])
                              z == IF hasBias THEN Add(y, UnpackFp32(bias[i])) ELSE y
                          IN  IF fp32 THEN ToFp32(z) ELSE ToBf16(z)]

OpEuler(x, v, dt) == [i \in DOMAIN x |-> ToFp32(Add(UnpackFp32(x[i]), Mul(UnpackFp32(v[i]), UnpackFp32(dt))))]

\* The constants of a QUANT row by the last exponent bit and the fraction of
\* its amax: the exponents follow from the amax's by a shift alone.
WordOf(q) == [gR |-> q.R.e, mR |-> q.R.m, gS |-> q.s.e, mS |-> q.s.m]
QuantWord(odd, k) == WordOf(QuantSetup((Bias + odd) * 2 ^ (BM - 1) + k))
QuantTable == [odd \in 0 .. 1, k \in 0 .. 2 ^ (BM - 1) - 1 |-> QuantWord(odd, k)]
\* What quant_table asserts: at every exponent the setup is the shifted word.
QuantTableExact ==
    \A odd \in 0 .. 1, k \in 0 .. 2 ^ (BM - 1) - 1, n \in -2 .. 2 :
        LET e == odd + 2 * n
            q == QuantSetup((Bias + e) * 2 ^ (BM - 1) + k)
            w == QuantTable[odd, k]
        IN  q.R = XF(0, w.gR - (e - odd), w.mR) /\ q.s = XF(0, w.gS + (e - odd), w.mS)
ASSUME QuantTableAssumption == QuantTableExact

(***************************************************************************)
(* The items of a row, per operation.                                      *)
(***************************************************************************)
GAdd(cs, w) == Tracked(OpAdd(w.x, w.b, cs.bfp32), AllOnes(w.x))
GRmsStat(cs, w) == Plain(<<>>, RmsStat(w.x, w.rs[1], cs.k))
GRmsApply(w) == Tracked(RmsApply(w.x, w.c, w.d), AllOnes(w.x))
TwoStats(t) == <<Stat(t[2]), Summary(NoTracker, t[1])>>
GLnStat(cs, w) == TwoStats(LnStat(w.x, w.rs[1], cs.k))
GLnApply(w) == Tracked(LnApply(w.x, w.b, w.c, w.d, w.e), AllOnes(w.x))
GRopeA(w) == Plain(RopeA(w.x, w.c), 0)
GRopeB(w) == Tracked(RopeB(w.x, w.c, w.e), AllOnes(w.x))
GUnary(Op(_), w) == Tracked(Op(w.x), AllOnes(w.x))
GGeglu(g, u) == Tracked(OpGeglu(g, u), AllOnes(g))
GSmaxSum(w) == Plain(<<>>, SmaxSum(w.x, w.rs[1], w.mask))
GSmaxOut(w) == Tracked(SmaxOut(w.x, w.rs[1], w.c, w.mask), w.mask)
Codes8(q, rs0) == Plain([i \in DOMAIN q |-> Int8Code(q[i])], rs0)
GSmaxInt(cs, w) == LET q == SmaxInt(w.x, w.rs[1], w.mask, cs.bfp32) IN Codes8(q[1], q[2])
GQuant(x, amax) == Codes8(OpQuant(x, amax), ToFp32(QuantSetup(amax).s))
GDequant(cs, w) ==
    LET codes == OpDequant(w.x, w.c, w.d, w.e, cs.bias, cs.ofp32)
    IN  IF cs.ofp32 THEN Plain(codes, 0) ELSE Tracked(codes, w.mask)
GEuler(cs, w) == Plain(OpEuler(w.e, w.x, cs.k), 0)

Golden(cs, w) ==
    CASE cs.op = "ADD" -> GAdd(cs, w)
      [] cs.op = "RMS_STAT" -> GRmsStat(cs, w)
      [] cs.op = "RMS_APPLY" -> GRmsApply(w)
      [] cs.op = "LN_STAT" -> GLnStat(cs, w)
      [] cs.op = "LN_APPLY" -> GLnApply(w)
      [] cs.op = "ROPE_A" -> GRopeA(w)
      [] cs.op = "ROPE_B" -> GRopeB(w)
      [] cs.op = "GELU" -> GUnary(OpGelu, w)
      [] cs.op = "SILU" -> GUnary(OpSilu, w)
      [] cs.op = "GEGLU" -> GGeglu(w.x, w.d)
      [] cs.op = "SMAX_SUM" -> GSmaxSum(w)
      [] cs.op = "SMAX_OUT" -> GSmaxOut(w)
      [] cs.op = "SMAX_Q8" -> GSmaxInt(cs, w)
      [] cs.op = "QUANT" -> GQuant(w.x, w.rs[1])
      [] cs.op = "DEQUANT" -> GDequant(cs, w)
      [] cs.op = "EULER" -> GEuler(cs, w)
=============================================================================
