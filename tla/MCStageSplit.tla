---------------------------- MODULE MCStageSplit ----------------------------
(***************************************************************************)
(* Stages of up to three of these records on three nodes, beats of 32      *)
(* bytes as in the code: a DEQUANT over 34 tokens (12, 12 and 10 rows a    *)
(* part, or 16, 16 and 2 next to a record of granularity 16), a RoPE over  *)
(* their 68 heads, an ADD in place, a column block of a wider matrix, an   *)
(* operand of two bytes a row, which needs granularity 16, with one that   *)
(* every slice reads, a short record, and one that cannot be cut.          *)
(***************************************************************************)
EXTENDS StageSplit

\* Buffers: X (34 rows of 32 bytes), Y, W (rows of 64 bytes), row summaries.
X == 0
Y == 2048
W == 4096
Summary(n) == [base |-> 8192 + n * 1024, step |-> 8, width |-> 8]
Row(base, step) == [base |-> base, step |-> step, width |-> step]

Rec(rows, len, writes, reads, common) ==
    [rows |-> rows, len |-> len, writes |-> writes, reads |-> reads, common |-> common]

MCRecord == {
    Rec(34, 16, {Row(X, 32), Summary(0)}, {Row(16384, 64)}, {}),
    Rec(68, 8, {Row(Y, 16), Summary(1)}, {Row(X, 16)}, {}),
    Rec(34, 16, {Row(X, 32), Summary(2)}, {Row(X, 32), Row(Y, 32)}, {<<24576, 24608>>}),
    Rec(34, 16, {[base |-> W, step |-> 64, width |-> 32], Summary(3)}, {Row(X, 32)}, {}),
    Rec(34, 16, {Row(W, 64), Summary(4)}, {Row(20480, 2)}, {<<Y, Y + 32>>}),
    Rec(6, 16, {Row(Y, 32), Summary(5)}, {Row(W, 64)}, {}),
    Rec(34, 1, {Row(24640, 1), Summary(6)}, {Row(W, 64)}, {})}
=============================================================================
