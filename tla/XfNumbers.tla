----------------------------- MODULE XfNumbers -----------------------------
(***************************************************************************)
(* The numbers the vector unit computes with (vector_unit_ref.py): a sign, *)
(* an unbiased exponent and a mantissa of MW bits, cut off where a product *)
(* or a sum has more; the codes they come from and go to; the four tables  *)
(* with linear interpolation; and the terms of the fixed-point sums.  The  *)
(* widths are parameters (24, 8 and 8 bits in the hardware).               *)
(***************************************************************************)
EXTENDS Integers, FiniteSets

CONSTANTS
    MW,         \* mantissa bits of a number
    BM, EB,     \* mantissa bits (with the hidden one) and exponent bits of a bf16 code
    TI, VF,     \* log2 of a table's entries, fraction bits of an entry
    FACC2,      \* fraction bits of the sum of squares
    FACC1,      \* fraction bits of the sum
    FSMAX,      \* fraction bits of the softmax sum
    FIXI,       \* integer bits of a fixed-point logit
    KDEAD,      \* 2^-k is no probability any more
    KMAX,       \* 2^-k no longer adds to the softmax sum
    B8, BU,     \* bits of the largest int8 and uint8 code
    EpsLog,     \* the norms' epsilon is 2^-EpsLog
    GeluTop, SigmTop,   \* the gates' domains are +-2^(top - 1)
    GeluTable, SigmTable    \* the gates sampled over them, from 1 to 2^TI + 1

EZ == -1000000          \* exponent of zero: below every other, and even
TblN == 2 ^ TI
FR == MW - 1 - TI
Bias == 2 ^ (EB - 1) - 1
AddG == 3

LOCAL Lesser(a, b) == IF a < b THEN a ELSE b
LOCAL Greater(a, b) == IF a > b THEN a ELSE b
Clip(v, lo, hi) == Lesser(Greater(v, lo), hi)
BitLen(v) == Cardinality({i \in 0 .. 29 : 2 ^ i <= v})
Shl(v, n) == IF n >= 0 THEN v * 2 ^ n ELSE v \div 2 ^ Lesser(-n, 30)
Abs(v) == IF v < 0 THEN -v ELSE v

(***************************************************************************)
(* Numbers.                                                                *)
(***************************************************************************)
XF(s, e, m) == IF m = 0 THEN [s |-> 0, e |-> EZ, m |-> 0] ELSE [s |-> s, e |-> e, m |-> m]
Zero == XF(0, 0, 0)
One == XF(0, 0, 2 ^ (MW - 1))
Neg(a) == IF a.m = 0 THEN a ELSE [a EXCEPT !.s = 1 - a.s]

\* The first MW bits of a natural number.
Mant(v) == Shl(v, MW - BitLen(v))

\* An integer scaled by 2^(eoff - frac).
Norm64(v, frac, eoff) == XF(IF v < 0 THEN 1 ELSE 0, BitLen(Abs(v)) - 1 + eoff - frac, Mant(Abs(v)))

\* A plausible bug: the exponent misses the carry of the product.
MulNoCarry(a, b) ==
    LET p == a.m * b.m
        hi == p \div 2 ^ (2 * MW - 1)
    IN  XF((a.s + b.s) % 2, a.e + b.e, p \div 2 ^ (MW - 1 + hi))

Mul(a, b) ==
    LET p == a.m * b.m
        hi == p \div 2 ^ (2 * MW - 1)
    IN  XF((a.s + b.s) % 2, a.e + b.e + hi, p \div 2 ^ (MW - 1 + hi))

\* The larger in size first; the smaller loses what lies beyond the guard bits.
Normed(s, e, sum) == XF(s, e + BitLen(sum) - (MW + AddG), Mant(sum))
AddSmaller(l, t) ==
    LET far == Shl(t.m * 2 ^ AddG, -Lesser(l.e - t.e, MW + AddG))
    IN  Normed(l.s, l.e, l.m * 2 ^ AddG + (IF l.s = t.s THEN far ELSE -far))
Add(a, b) == IF b.e > a.e \/ (b.e = a.e /\ b.m > a.m) THEN AddSmaller(b, a) ELSE AddSmaller(a, b)

(***************************************************************************)
(* Codes: sign, biased exponent, and fb fraction bits.                     *)
(***************************************************************************)
Unpack(c, fb) ==
    LET e8 == (c \div 2 ^ fb) % 2 ^ EB
    IN  XF((c \div 2 ^ (fb + EB)) % 2, e8 - Bias, IF e8 = 0 THEN 0 ELSE (2 ^ fb + (c % 2 ^ fb)) * 2 ^ (MW - 1 - fb))
UnpackBf16(c) == Unpack(c, BM - 1)
UnpackFp32(c) == Unpack(c, MW - 1)

\* The largest finite code at the top; nothing below the smallest normal.
Code(s, e8, m, fb) ==
    s * 2 ^ (fb + EB) + (IF e8 >= 2 ^ EB - 1 THEN 2 ^ (fb + EB) - 2 ^ fb - 1 ELSE e8 * 2 ^ fb + (m % 2 ^ fb))

RoundEven(m, n) ==
    LET q == m \div 2 ^ n
        r == m % 2 ^ n
    IN  IF 2 * r > 2 ^ n \/ (2 * r = 2 ^ n /\ q % 2 = 1) THEN q + 1 ELSE q

ToBf16(a) ==
    LET m8 == RoundEven(a.m, MW - BM)
        ov == m8 \div 2 ^ BM
        e8 == a.e + ov + Bias
    IN  IF a.m = 0 \/ e8 <= 0 THEN 0 ELSE Code(a.s, e8, IF ov = 1 THEN 0 ELSE m8, BM - 1)
ToFp32(a) == IF a.m = 0 \/ a.e + Bias <= 0 THEN 0 ELSE Code(a.s, a.e + Bias, a.m, MW - 1)

RoundInt(a, bits) ==
    CASE a.m = 0 -> 0
      [] a.m # 0 /\ a.e >= bits -> 2 ^ bits - 1
      [] OTHER -> Lesser(RoundEven(a.m, Clip(MW - 1 - a.e, 1, MW + 1)), 2 ^ bits - 1)
ToInt8(a) == IF a.s = 1 THEN -RoundInt(a, B8) ELSE RoundInt(a, B8)
ToUint8(a) == IF a.s = 1 THEN 0 ELSE RoundInt(a, BU)

\* The number nearest to n / d, as a constant of the program is.
Log2Of(n, d) ==
    CHOOSE x \in -12 .. 12 : /\ n * 2 ^ Greater(-x, 0) >= d * 2 ^ Greater(x, 0)
                             /\ n * 2 ^ Greater(-x - 1, 0) < d * 2 ^ Greater(x + 1, 0)
RoundDiv(num, den) ==
    LET r == num % den
    IN  num \div den + (IF 2 * r > den \/ (2 * r = den /\ (num \div den) % 2 = 1) THEN 1 ELSE 0)
NormedAt(q, e) == XF(0, e + BitLen(q) - MW, Mant(q))
ConstAt(n, d, e) == NormedAt(RoundDiv(Shl(n, Greater(MW - 1 - e, 0)), Shl(d, Greater(e - MW + 1, 0))), e)
ConstXf(n, d) == ConstAt(n, d, Log2Of(n, d))
Eps == ConstXf(1, 2 ^ EpsLog)

(***************************************************************************)
(* Tables: entry i and the step to the next one.                           *)
(***************************************************************************)
Table(V(_)) == [i \in 0 .. TblN - 1 |-> [v |-> V(i), d |-> V(i + 1) - V(i)]]
Nearest(v, num, den, pow) == (2 * v - 1) ^ pow * num <= den /\ den < (2 * v + 1) ^ pow * num
ExpAt(i) == CHOOSE v \in 0 .. 2 ^ VF : Nearest(v, 1, 2 ^ (TblN * (VF + 1) - i), TblN)
RsqrtAt(i) == CHOOSE v \in 0 .. 2 ^ VF : Nearest(v, IF 2 * i < TblN THEN TblN + 2 * i ELSE 4 * i, 4 ^ (VF + 1) * TblN, 2)
GeluAt(i) == GeluTable[i + 1]
SigmAt(i) == SigmTable[i + 1]
GeluTbl == Table(GeluAt)
SigmTbl == Table(SigmAt)
ExpTbl == Table(ExpAt)
RsqrtTbl == Table(RsqrtAt)

Interp(tbl, idx, frac) == tbl[idx].v * 2 ^ FR + tbl[idx].d * frac
RawToXf(y, eoff) == XF(0, BitLen(y) - (VF + FR + 1) + eoff, Mant(y))

\* A gate: the table inside its domain, 0 or 1 outside.
Gate(tbl, top, a) ==
    LET zm == IF a.m = 0 THEN 0 ELSE Shl(a.m, -Clip(top - a.e, 0, MW))
        half == 2 ^ (MW - 2)
        u == Clip(IF a.s = 1 THEN half - zm ELSE half + zm, 0, 2 * half - 1)
    IN  CASE a.e >= top - 1 /\ a.s = 1 -> Zero
          [] a.e >= top - 1 /\ a.s = 0 -> One
          [] OTHER -> RawToXf(Interp(tbl, u \div 2 ^ FR, u % 2 ^ FR), 0)
Gelu(a) == Gate(GeluTbl, GeluTop, a)
Sigm(a) == Gate(SigmTbl, SigmTop, a)

ToFix(a) ==
    (1 - 2 * a.s) * (CASE a.m = 0 -> 0
                       [] a.m # 0 /\ a.e > FIXI -> 2 ^ (MW + FIXI) - 1
                       [] OTHER -> Shl(a.m, Greater(a.e, -MW)))

\* 2^-(mx - a): the raw entry, the power of two, and the number.
Power(y, k) == [y |-> y, k |-> k, x |-> RawToXf(y, -k)]
ExpFix(k, f, mask) ==
    Power(IF k < KDEAD /\ mask THEN Interp(ExpTbl, f \div 2 ^ FR, f % 2 ^ FR) ELSE 0, Lesser(k, KDEAD - 1))
ExpBelow(t, mask) == ExpFix(t \div 2 ^ (MW - 1), t % 2 ^ (MW - 1), mask)
ExpOf(a, mx, mask) == ExpBelow(Greater(ToFix(mx) - ToFix(a), 0), mask)

Rsqrt(a) ==
    LET odd == a.e % 2
        idx == odd * (TblN \div 2) + (a.m - 2 ^ (MW - 1)) \div 2 ^ (MW - TI)
    IN  RawToXf(Interp(RsqrtTbl, Clip(idx, 0, TblN - 1), (a.m \div 2) % 2 ^ FR), -((a.e - odd) \div 2))

(***************************************************************************)
(* Terms of the row sums, relative to the exponent E of the row's largest  *)
(* element.                                                                *)
(***************************************************************************)
Top8(a) == a.m \div 2 ^ (MW - BM)
Acc2Term(a, E) ==
    LET cap == FACC2 - 2 * (BM - 1)
        sh == Lesser(2 * (a.e - E) + cap, cap)
    IN  IF a.m = 0 \/ sh <= -2 * BM - 1 THEN 0 ELSE Shl(Top8(a) * Top8(a), sh)
Acc1Term(a, E) ==
    LET cap == FACC1 - (BM - 1)
        sh == Lesser(a.e - E + cap, cap)
        t == IF a.m = 0 \/ sh <= -BM - 1 THEN 0 ELSE Shl(Top8(a), sh)
    IN  IF a.s = 1 THEN -t ELSE t
AccExpTerm(y, k) == IF k >= KMAX THEN 0 ELSE Shl(y, FSMAX - (VF + FR) - k)
=============================================================================
