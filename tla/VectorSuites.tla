---------------------------- MODULE VectorSuites ----------------------------
(***************************************************************************)
(* The programs the vector node is verified with (vu_node_golden.py):      *)
(* operations over R rows of L elements with their operands laid out in    *)
(* memory, and the beats they must write.  A beat is BEAT bytes, a field   *)
(* in it <<byte, width, value>>; fields of value 0 are not told from no    *)
(* field, as or-ing into a beat does not.  The shapes are small: what they *)
(* are to a slot of 2^3 or 2^4 elements, the source's are to 2^11 or 2^12. *)
(***************************************************************************)
EXTENDS VectorOps

CONSTANTS
    WordEls,        \* elements of a slot word
    GapBeats,       \* beats left free after every region
    AccBits         \* width of the accumulators

Slots == <<"x", "b", "c", "d", "e", "rs", "mask">>
BEAT == 8 * WordEls
Width(fmt) == CASE fmt = "bf16" -> 2 [] fmt = "fp32" -> 4 [] fmt = "int32" -> 4 [] fmt = "sum" -> 8
CeilDiv(n, d) == (n + d - 1) \div d
FlattenRows(rows) == FoldLeft(LAMBDA u, v : u \o v, <<>>, rows)

(***************************************************************************)
(* Memory.                                                                 *)
(***************************************************************************)
Fields(vals, w) == {<<(i - 1) * w, w, vals[i]>> : i \in DOMAIN vals}
RecordFields(recs) ==
    UNION {{<<8 * i - 8, 4, recs[i].v>>, <<8 * i - 4, 2, recs[i].mx>>, <<8 * i - 2, 2, recs[i].amax>>} : i \in DOMAIN recs}

Put(base, fields, bytes) ==
    [b \in base .. base + CeilDiv(bytes, BEAT) - 1 |->
        {<<(f[1] % BEAT), f[2], f[3]>> : f \in {g \in fields : g[1] \div BEAT = b - base /\ g[3] # 0}}]
Alloc(p, bytes) == p + CeilDiv(bytes, BEAT) + GapBeats

(***************************************************************************)
(* Values: a fixed sequence of draws stands for the generator's.           *)
(***************************************************************************)
Draw(t, i) == LET a == (t * 7919 + i * 10473 + 12345) % 65521
              IN  (a * ((a % 251) + 17)) % 65521

RBf16(t, n, lo, hi) ==
    [i \in 1 .. n |->
        LET d == Draw(t, i)
            sign == (d % 2) * 2 ^ (EB + BM - 1)
            e8 == Clip(Bias + lo + ((d \div 16) % (hi - lo + 1)), 1, 2 ^ EB - 2)
        IN  CASE d % 17 = 3 -> sign
              [] d % 19 = 5 -> sign + 1 + (d % (2 ^ (BM - 1) - 1))
              [] OTHER -> sign + e8 * 2 ^ (BM - 1) + ((d \div 256) % 2 ^ (BM - 1))]
RFp32(t, n, lo, hi, pos) ==
    [i \in 1 .. n |->
        LET d == Draw(t + 7, i)
            e8 == Clip(Bias + lo + ((d \div 16) % (hi - lo + 1)), 1, 2 ^ EB - 2)
        IN  (IF pos THEN 0 ELSE (d % 2) * 2 ^ (EB + MW - 1)) + e8 * 2 ^ (MW - 1) + ((d \div 128) % 2 ^ (MW - 1))]
RMask(t, n) == [i \in 1 .. n |-> IF i = 1 \/ (Draw(t, i) % 10) < 7 THEN 1 ELSE 0]
RInt(t, n, bits) == [i \in 1 .. n |-> (Draw(t, i) % (2 * 2 ^ bits)) - 2 ^ bits]

(***************************************************************************)
(* An operation with its operands, and the rows the lane must see.         *)
(***************************************************************************)
Operand(sh, fmt, v) == [sh |-> sh, fmt |-> fmt, fld |-> "rs0", v |-> v]
SumField(v, fld) == [sh |-> "R", fmt |-> "sum", fld |-> fld, v |-> v]
Const(v) == Operand("K", "fp32", <<v>>)
Elem(v) == Operand("E", "bf16", v)
ElemF(v) == Operand("E", "fp32", v)
Cols(v) == Operand("C", "fp32", v)
RowsF(v) == Operand("R", "fp32", v)
Acc(v) == Operand("E", "int32", v)

Op(name, R, L, operands) ==
    [op |-> name, R |-> R, L |-> L, k |-> 0, bfp32 |-> FALSE, bias |-> FALSE, ofp32 |-> FALSE, xrot |-> FALSE, pdq |-> FALSE,
     o |-> [s \in ToSet(Slots) |-> CASE s \in DOMAIN operands -> operands[s]
                                     [] s \notin DOMAIN operands /\ s = "mask" -> Const(1)
                                     [] OTHER -> Const(0)]]

RowSlice(v, L, r) == SubSeq(v, (r - 1) * L + 1, r * L)
Seen(o, L, r) ==
    CASE o.sh = "E" -> RowSlice(o.v, L, r)
      [] o.sh = "R" -> [j \in 1 .. L |-> o.v[r]]
      [] o.sh = "C" -> o.v
      [] o.sh = "K" -> [j \in 1 .. L |-> o.v[1]]
Rotate(x) == LET h == Len(x) \div 2 IN SubSeq(x, h + 1, Len(x)) \o SubSeq(x, 1, h)
RowOf(s, r) ==
    LET w == [z \in ToSet(Slots) |-> Seen(s.o[z], s.L, r)]
    IN  CASE s.xrot -> [w EXCEPT !.x = Rotate(w.x)]
          [] s.pdq -> [w EXCEPT !.x = OpDequant(w.x, w.c, w.e, w.b, FALSE, FALSE),
                                !.d = OpDequant(w.d, w.c, w.b, w.b, FALSE, FALSE)]
          [] OTHER -> w

\* Bytes of an output element: 0 for the operations with summaries only.
Bf16Out(s) == s.op \in {"ADD", "RMS_APPLY", "LN_APPLY", "ROPE_B", "GELU", "SILU", "GEGLU", "SMAX_OUT"}
              \/ (s.op = "DEQUANT" /\ ~ s.ofp32)
OutBytes(s) ==
    CASE s.op \in {"RMS_STAT", "SMAX_SUM"} -> 0
      [] s.op \in {"QUANT", "SMAX_Q8"} -> 1
      [] Bf16Out(s) -> 2
      [] OTHER -> 4

\* A fused row leaves as the codes of its own QUANT.
Fuse(items) ==
    LET codes == [i \in 1 .. Len(items) - 1 |-> items[i].v] IN GQuant(codes, RowAmax(codes))
FusedIf(fuse, items) == IF fuse THEN Fuse(items) ELSE items
ItemsOf(s, q) ==
    FlattenRows([r \in 1 .. s.R |-> FusedIf(q /\ Bf16Out(s), Golden(s, RowOf(s, r)))])

(***************************************************************************)
(* A program: its records, the image they read, and per record the beats   *)
(* to be written.                                                          *)
(***************************************************************************)
Stored(o, t) ==
    LET junk(i) == [kind |-> 1, v |-> Draw(t, i) % 97, amax |-> Draw(t, 2 * i) % 97, mx |-> Draw(t, 3 * i) % 97]
    IN  CASE o.fmt = "sum" -> RecordFields([i \in DOMAIN o.v |->
                CASE o.fld = "rs0" -> [junk(i) EXCEPT !.v = o.v[i]]
                  [] o.fld = "max" -> [junk(i) EXCEPT !.mx = o.v[i]]
                  [] o.fld = "amax" -> [junk(i) EXCEPT !.amax = o.v[i]]])
          [] o.fmt = "int32" -> Fields([i \in DOMAIN o.v |-> o.v[i] % 2 ^ AccBits], 4)
          [] OTHER -> Fields(o.v, Width(o.fmt))
Bytes(o) == IF o.sh = "K" THEN 0 ELSE Len(o.v) * Width(o.fmt)
Beats(bytes) == IF bytes = 0 THEN 0 ELSE Alloc(0, bytes)

\* Beats of a record's operands and outputs, and where each lies: one after
\* the other.
InBeats(s) == [z \in DOMAIN Slots |-> Beats(Bytes(s.o[Slots[z]]))]
ElementBytes(s, q) ==
    CASE s.op = "LN_STAT" -> 4 * s.R
      [] q /\ Bf16Out(s) -> s.R * s.L
      [] OTHER -> s.R * s.L * OutBytes(s)
OutBeats(s, q) == Alloc(0, ElementBytes(s, q)) + Alloc(0, 8 * s.R)
Before(sizes, i) == SumAll(SubSeq(sizes, 1, i - 1))

RecordOf(s, q, in, out, items) ==
    LET elems == SelectSeq(items, LAMBDA i : i.kind # 1)
        sums == SelectSeq(items, LAMBDA i : i.kind = 1)
        bytes == ElementBytes(s, q)
        sum == Alloc(out, bytes)
        base == [z \in DOMAIN Slots |-> in + Before(InBeats(s), z)]
        o == [z \in DOMAIN Slots |-> s.o[Slots[z]]]
        image == [z \in DOMAIN Slots |-> IF o[z].sh = "K" THEN <<>> ELSE Put(base[z], Stored(o[z], base[z]), Bytes(o[z]))]
    IN  [spec |-> s, qtail |-> q, out |-> out, sum |-> sum,
         desc |-> [z \in DOMAIN Slots |-> [sh |-> o[z].sh, fmt |-> o[z].fmt, fld |-> o[z].fld,
                                          base |-> IF o[z].sh = "K" THEN o[z].v[1] ELSE base[z]]],
         img |-> FoldLeft(LAMBDA f, g : f @@ g, <<>>, image),
         exp |-> Put(out, Fields([i \in DOMAIN elems |-> elems[i].v], bytes \div Largest(<<1, Len(elems)>>)), bytes)
                 @@ Put(sum, RecordFields(sums), 8 * Len(sums))]
Record(s, q, in, out) == RecordOf(s, q, in, out, ItemsOf(s, q))
Assemble(ops, q) ==
    LET ins == [i \in DOMAIN ops |-> SumAll(InBeats(ops[i]))]
        outs == [i \in DOMAIN ops |-> OutBeats(ops[i], q)]
    IN  [i \in DOMAIN ops |-> Record(ops[i], q, Before(ins, i), Before(outs, i))]

(***************************************************************************)
(* The operations of the suites.                                           *)
(***************************************************************************)
Bf(t, n) == RBf16(t, n, -2, 2)
Fp(t, n) == RFp32(t, n, -2, 1, FALSE)
FpPos(t, n, lo, hi) == RFp32(t, n, lo, hi, TRUE)
RowsOf(x, R, L, F(_)) == [r \in 1 .. R |-> F(RowSlice(x, L, r))]
InvN(L) == ToFp32(ConstXf(1, L))

AddRows(t, R, L) == Op("ADD", R, L, [x |-> Elem(Bf(t, R * L)), b |-> Elem(Bf(t + 1, R * L))])
AddTable(t, R, L) == [Op("ADD", R, L, [x |-> Elem(Bf(t, R * L)), b |-> Cols(Fp(t + 1, L))]) EXCEPT !.bfp32 = TRUE]

RmsPair(t, R, L) ==
    LET x == Bf(t, R * L)
        stat(row) == RmsStat(row, RowAmax(row), InvN(L))
    IN  <<[Op("RMS_STAT", R, L, [x |-> Elem(x), rs |-> SumField(RowsOf(x, R, L, RowAmax), "amax")]) EXCEPT !.k = InvN(L)],
          Op("RMS_APPLY", R, L, [x |-> Elem(x), c |-> SumField(RowsOf(x, R, L, stat), "rs0"),
                                 d |-> Cols(FpPos(t + 1, L, -1, 1))])>>

LnStatRows(t, R, L) ==
    LET x == Bf(t, R * L)
    IN  [Op("LN_STAT", R, L, [x |-> Elem(x), rs |-> Operand("R", "bf16", RowsOf(x, R, L, RowAmax))]) EXCEPT !.k = InvN(L)]
LnPair(t, R, L) ==
    LET x == Bf(t, R * L)
        stat(row) == LnStat(row, RowAmax(row), InvN(L))
        mur == RowsOf(x, R, L, stat)
    IN  <<LnStatRows(t, R, L),
          Op("LN_APPLY", R, L, [x |-> Elem(x), b |-> RowsF([r \in 1 .. R |-> mur[r][1]]),
                                c |-> RowsF([r \in 1 .. R |-> mur[r][2]]),
                                d |-> Cols(FpPos(t + 1, L, -1, 1)), e |-> Cols(Fp(t + 2, L))])>>

Unary(op, t, R, L) == Op(op, R, L, [x |-> Elem(RBf16(t, R * L, -3, 2))])
GegluRows(t, R, L) == Op("GEGLU", R, L, [x |-> Elem(RBf16(t, R * L, -3, 2)), d |-> Elem(Bf(t + 1, R * L))])
QuantRows(t, R, L) ==
    LET x == Bf(t, R * L)
    IN  Op("QUANT", R, L, [x |-> Elem(x), rs |-> SumField(RowsOf(x, R, L, RowAmax), "amax")])

DequantBias(t, R, L) ==
    [Op("DEQUANT", R, L, [x |-> Acc(RInt(t, R * L, AccBits - 2)), c |-> RowsF(FpPos(t + 1, R, -5, -3)),
                          d |-> Cols(FpPos(t + 2, L, -3, 0)), e |-> Cols(Fp(t + 3, L))]) EXCEPT !.bias = TRUE]
DequantRows(t, R, L) ==
    Op("DEQUANT", R, L, [x |-> Acc(RInt(t, R * L, AccBits - 2)), c |-> RowsF(FpPos(t + 1, R, -5, -3)),
                         d |-> Cols(FpPos(t + 2, L, -3, 0))])
DequantFp32(t, R, L) ==
    [Op("DEQUANT", R, L, [x |-> Acc(RInt(t, R * L, AccBits - 2)), c |-> SumField(FpPos(t + 1, R, -5, -3), "rs0"),
                          d |-> Cols(FpPos(t + 2, L, -3, 0))]) EXCEPT !.ofp32 = TRUE]

\* The softmax operations over one set of rows, with a mask per key.
Softmax(t, R, L) ==
    LET x == RBf16(t, R * L, -2, 2)
        mask == RMask(t + 1, L)
        max(row) == Tracker(row, mask)[2]
        mx == RowsOf(x, R, L, max)
        inv(row) == SmaxSum(row, max(row), mask)
        m == Operand("C", "bf16", mask)
        rs == Operand("R", "bf16", mx)
    IN  [sum |-> Op("SMAX_SUM", R, L, [x |-> Elem(x), rs |-> SumField(mx, "max"), mask |-> m]),
         out |-> Op("SMAX_OUT", R, L, [x |-> Elem(x), rs |-> rs, mask |-> m, c |-> RowsF(RowsOf(x, R, L, inv))]),
         q8 |-> Op("SMAX_Q8", R, L, [x |-> Elem(x), rs |-> rs, mask |-> m]),
         u8 |-> [Op("SMAX_Q8", R, L, [x |-> Elem(x), rs |-> rs, mask |-> m]) EXCEPT !.bfp32 = TRUE]]

RopeRows(t, R, L) == Op("ROPE_A", R, L, [x |-> Elem(Bf(t, R * L)), c |-> ElemF(RFp32(t + 1, R * L, -3, -1, FALSE))])
RopePartner(t, R, L) ==
    Op("ROPE_B", R, L, [x |-> Elem(Bf(t, R * L)), c |-> ElemF(RFp32(t + 1, R * L, -3, -1, FALSE)), e |-> ElemF(Fp(t + 2, R * L))])
\* Pass B reads the partner half of pass A's rows itself.
RopePair(t, R, L) ==
    LET a == RopeRows(t, R, L)
        pa == FlattenRows([r \in 1 .. R |-> RopeA(RowOf(a, r).x, RowOf(a, r).c)])
    IN  <<a, [Op("ROPE_B", R, L, [x |-> a.o.x, c |-> ElemF(RFp32(t + 3, R * L, -3, -1, FALSE)), e |-> ElemF(pa)])
              EXCEPT !.xrot = TRUE]>>

EulerRows(t, R, L) ==
    [Op("EULER", R, L, [x |-> ElemF(Fp(t, R * L)), e |-> ElemF(Fp(t + 1, R * L))]) EXCEPT !.k = ToFp32(Neg(ConstXf(1, 10)))]

PdqGeglu(t, R, L) ==
    LET g == RInt(t, R * L, AccBits - 2)
    IN  [Op("GEGLU", R, L, [x |-> Acc([i \in DOMAIN g |-> IF i <= 2 THEN 0 ELSE g[i]]), d |-> Acc(RInt(t + 1, R * L, AccBits - 2)),
                            c |-> RowsF(FpPos(t + 2, R, -5, -3)), e |-> Cols(FpPos(t + 3, L, -3, 0)), b |-> Cols(Fp(t + 4, L))])
         EXCEPT !.pdq = TRUE]

\* Rows at the edges: the largest codes, sums that cancel, zeros, a row of one
\* value, a statistic below the row's largest element.
MaxCode == 2 ^ (EB + BM - 1) - 2 ^ (BM - 1) - 1
Flip(c) == (c + 2 ^ (EB + BM - 1)) % 2 ^ (EB + BM)
Same(n, v) == [i \in 1 .. n |-> v]
EdgeRows(t, L) ==
    LET x == Bf(t, L)
        rows == Same(L, MaxCode) \o x \o Same(L, 0) \o Same(L, Largest(<<x[1], 2 ^ BM>>)) \o Bf(t + 1, L)
        low == [r \in 1 .. 5 |-> Largest(<<1, RowAmax(RowSlice(rows, L, r)) - 3>>)]
        flipped == [i \in DOMAIN rows |-> IF i <= L THEN rows[i] ELSE Flip(rows[i])]
        amax == SumField(RowsOf(rows, 5, L, RowAmax), "amax")
        acc == RInt(t + 2, 2 * L, AccBits - 2)
    IN  <<Op("ADD", 5, L, [x |-> Elem(rows), b |-> Elem(flipped)]),
          [Op("RMS_STAT", 5, L, [x |-> Elem(rows), rs |-> amax]) EXCEPT !.k = InvN(4)],
          [Op("LN_STAT", 5, L, [x |-> Elem(rows), rs |-> amax]) EXCEPT !.k = InvN(L)],
          Op("QUANT", 5, L, [x |-> Elem(rows), rs |-> Operand("R", "bf16", low)]),
          Op("GEGLU", 5, L, [x |-> Elem(rows), d |-> Elem(rows)]),
          [Op("DEQUANT", 2, L, [x |-> Acc([acc EXCEPT ![1] = 2 ^ (AccBits - 1) - 1, ![2] = 1 - 2 ^ (AccBits - 1)]),
                                c |-> RowsF(FpPos(t + 3, 2, -5, 0)), d |-> Cols(FpPos(t + 4, L, -5, 0)),
                                mask |-> Operand("C", "bf16", RMask(t + 5, L))]) EXCEPT !.ofp32 = (L % 2 = 0)]>>

(***************************************************************************)
(* The suites.                                                             *)
(***************************************************************************)
Base(t) ==
    LET s == Softmax(t + 70, 3, 3)
    IN  <<AddRows(t, 3, 5), AddTable(t + 10, 2, 8)>> \o RmsPair(t + 20, 3, 3) \o LnPair(t + 30, 2, 8)
        \o <<Unary("GELU", t + 40, 5, 4), GegluRows(t + 44, 3, 2), Unary("SILU", t + 48, 3, 4), QuantRows(t + 50, 4, 3),
             DequantBias(t + 55, 3, 5), DequantFp32(t + 60, 2, 3), s.sum, s.out, s.q8,
             RopeRows(t + 80, 2, 4), RopePartner(t + 85, 2, 4), EulerRows(t + 90, 3, 4)>>
MultiLane(t) ==
    LET s == Softmax(t + 20, 5, 3)
    IN  <<QuantRows(t, 9, 2), AddRows(t + 5, 3, 8), LnStatRows(t + 10, 3, 5), Unary("GELU", t + 15, 3, 5), s.sum, s.out>>
        \o RmsPair(t + 30, 7, 2)
        \o <<Unary("SILU", t + 40, 10, 1), RopeRows(t + 45, 3, 4), EulerRows(t + 50, 7, 4), DequantBias(t + 55, 5, 3),
             Softmax(t + 60, 5, 3).q8>>
Wide(t) ==
    <<DequantRows(t, 2, 16), DequantRows(t + 5, 2, 16), GegluRows(t + 10, 2, 16), QuantRows(t + 15, 3, 16),
      AddRows(t + 20, 2, 16), AddRows(t + 25, 3, 8)>>
Pdq(t) == <<PdqGeglu(t, 3, 3), AddRows(t + 10, 3, 3), PdqGeglu(t + 20, 5, 2), PdqGeglu(t + 30, 2, 8)>>
Attention(t) == RopePair(t, 3, 4) \o RopePair(t + 20, 2, 8) \o <<Softmax(t + 40, 3, 6).u8, Softmax(t + 50, 5, 3).u8>>
SmaxPair(t) == LET s == Softmax(t, 5, 3) IN <<s.out, s.q8, s.out, AddRows(t + 10, 3, 5), s.q8, s.out>>
Random(t) == EdgeRows(t, 3) \o EdgeRows(t + 20, 4)

Suite(name, t) ==
    CASE name = "base" -> Base(t)
      [] name = "ml" -> MultiLane(t)
      [] name = "wide" -> Wide(t)
      [] name = "pdq" -> Pdq(t)
      [] name = "attn" -> Attention(t)
      [] name = "smaxpair" -> SmaxPair(t)
      [] name = "random" -> Random(t)
=============================================================================
