----------------------------- MODULE TileBench -----------------------------
(***************************************************************************)
(* The program of colpar_tile_golden.py for one node, and the records it   *)
(* must leave in memory: single tiles, column groups, interleaved loads,   *)
(* row slices, and two weight tiles that write the columns of one matrix.  *)
(* What the script draws at random is a constant here.                     *)
(***************************************************************************)
EXTENDS GemmTiler

CONSTANTS
    Stages,         \* --n-stage
    BenchTiles,     \* the tiles [ab, wb, W, M, P]
    BenchGroups,    \* the column groups [ab, wb, W, T, M, P]
    BenchSlices,    \* the row slices [o, wb, W, S, T, M, P]; the first one on the interleaved columns
    BenchBlock      \* [k0, Wk, Pk, oc, W, T, M, P]: the interleaved load, the column blocks

\* What the script asserts of every tile and group, and what its choices meet.
Fitting(g) == g.M * g.W <= Words /\ g.P * g.W <= Words
ASSUME BenchAssumption ==
    /\ Stages \in Nat \ {0}
    /\ BenchTiles \in Seq([ab : Nat, wb : Nat, W : Nat \ {0}, M : Nat \ {0}, P : Nat \ {0}])
    /\ BenchGroups \in Seq([ab : Nat, wb : Nat, W : Nat \ {0}, T : Nat \ {0}, M : Nat \ {0}, P : Nat \ {0}])
    /\ BenchSlices \in Seq([o : Nat, wb : Nat, W : Nat \ {0}, S : Nat \ {0}, T : Nat \ {0}, M : Nat \ {0}, P : Nat \ {0}])
    /\ BenchBlock \in [k0 : Nat, Wk : Nat, Pk : Nat, oc : Nat, W : Nat \ {0}, T : Nat \ {0}, M : Nat \ {0}, P : Nat \ {0}]
    /\ \A g \in ToSet(BenchTiles) \cup ToSet(BenchGroups) \cup ToSet(BenchSlices) \cup {BenchBlock} : Fitting(g)

ActA == 0
ActB == Words
WeightOf(s) == (2 + s) * Words
BenchGap(W) == Max({1, Stages - W, MinPass - W})
Regs(F(_, _)) == [k \in 1 .. UpDiv(Stages, LoadRegs) |->
    LET s0 == (k - 1) * LoadRegs IN F(s0, Least(LoadRegs, Stages - s0))]

OneTile(t) == Tile(t.ab, t.wb, t.W, t.M, t.P, BenchGap(t.W))
OneGroup(g) == Group(ActB + g.ab, g.T, g.wb, g.W, g.M, g.P, BenchGap(g.W), 0, FALSE)
OneSlice(g) == Group(ActA + g.o, g.T, g.wb, g.W, g.M, g.P, BenchGap(g.W), g.S, FALSE)
BlockWt(b, t) == b.Pk * b.Wk + t * b.P * b.W

(***************************************************************************)
(* The records: <<address of the row, address of the column, W>>, in the   *)
(* order row, column, stage (tile_results, slice_results).                 *)
(***************************************************************************)
Results(row(_), col(_, _), T, P, W) ==
    Flat(T, LAMBDA r : Flat(P, LAMBDA p : [s \in 1 .. Stages |-> <<row(r), col(s - 1, p), W>>]))

TileResults(t) == Results(LAMBDA r : ActA + t.ab + r * t.W, LAMBDA s, p : WeightOf(s) + t.wb + p * t.W, t.M, t.P, t.W)
GroupResults(g) == Results(LAMBDA r : ActB + g.ab + r * g.W, LAMBDA s, p : WeightOf(s) + g.wb + p * g.W, g.T, g.P, g.W)
\* The interleaved image covers words 0 .. Pk Wk - 1 of a stage.
Interleaved(s, p) == ActB + BenchBlock.k0 + (Stages * p + s) * BenchBlock.Wk
SliceResults(g) ==
    Results(LAMBDA r : ActA + g.o + r * g.S,
            LAMBDA s, p : IF g.wb = 0 THEN Interleaved(s, p) ELSE WeightOf(s) + g.wb + p * g.W, g.T, g.P, g.W)
BlockResults(b, t) ==
    Results(LAMBDA r : ActA + b.oc + r * b.W, LAMBDA s, p : WeightOf(s) + BlockWt(b, t) + p * b.W, b.T, b.P, b.W)

Sequential ==
    FlattenSeq([i \in DOMAIN BenchTiles |-> TileResults(BenchTiles[i])])
    \o FlattenSeq([i \in DOMAIN BenchGroups |-> GroupResults(BenchGroups[i])])
    \o FlattenSeq([i \in DOMAIN BenchSlices |-> SliceResults(BenchSlices[i])])
BenchResults ==
    LET b == BenchBlock
        perRow == b.P * Stages
        rowOf(t, r) == SubSeq(BlockResults(b, t), r * perRow + 1, (r + 1) * perRow)
    IN  Sequential \o Flat(b.T, LAMBDA r : rowOf(0, r) \o rowOf(1, r))

BenchProgram ==
    LET b == BenchBlock
        gap == b.P * Stages
        block(t) == <<Out(Len(Sequential) + t * gap, gap \div Cells, gap),
                      Group(ActA + b.oc, b.T, BlockWt(b, t), b.W, b.M, b.P, BenchGap(b.W), b.W, FALSE), Flush>>
    IN  <<Out(0, 0, 0), Load(ActA, 0, 1, Words)>>
        \o Regs(LAMBDA s0, n : Load(WeightOf(s0), 1 + s0, n, Words))
        \o [i \in DOMAIN BenchTiles |-> OneTile(BenchTiles[i])]
        \o [i \in DOMAIN BenchGroups |-> OneGroup(BenchGroups[i])]
        \o Regs(LAMBDA s0, n : LoadX(ActB + b.k0 + s0 * b.Wk, 1 + s0, n, b.Wk, b.Pk, Stages * b.Wk, b.Wk))
        \o [i \in DOMAIN BenchSlices |-> OneSlice(BenchSlices[i])]
        \o <<Flush>> \o block(0) \o block(1) \o <<Flush>>
=============================================================================
