----------------------------- MODULE GemmTiler -----------------------------
(***************************************************************************)
(* A GEMM as commands for chain nodes: the column tiles and row slices of  *)
(* paper/sw/pi0_chunk_tiler.py, how pi0_chunk_program.py deals the tiles   *)
(* to the nodes and cuts them into row blocks, what it says a part reads   *)
(* and writes, and the two hand-made programs of the test benches.         *)
(*                                                                         *)
(* Operands are words of 16 bytes, two to a beat; results are cells of 4.  *)
(***************************************************************************)
EXTENDS Integers, Sequences, SequencesExt, FiniteSetsExt

CONSTANTS
    Words,      \* words of a stage or feeder memory (512)
    MaxRows,    \* rows of a column group at most (1023)
    LoadRegs,   \* LOAD_NREG_MAX: stages a LOAD fills at most (16)
    MinPass,    \* cycles a row pass takes at least (14)
    Cells,      \* cells of a beat (8)
    Case        \* the GEMMs considered

\* path: weights from images (load) or from the rows of another matrix (loadx)
\* on the nodes of a chunk; the wide GEMM and the tile test bench.  T rows of W
\* words, stride words apart (0: W), C columns in so many blocks; the depth of
\* every node; row blocks; whether the feeder is double-buffered; the feeder
\* rows and tile groups asked of the wide GEMM.  mixed: the tiler of the chunk;
\* the golden programs lower every tile for one depth (AG.Tiler).
CaseType == [path : {"load", "loadx", "wide", "bench"}, T : Nat \ {0}, W : Nat \ {0}, C : Nat \ {0}, stride : Nat,
             blocks : Nat \ {0}, minTiles : Nat \ {0}, nodes : Seq(Nat \ {0}), cuts : Seq(Nat),
             db : BOOLEAN, mixed : BOOLEAN, feeder : Nat, groups : Nat]

\* Rows of operands begin on a beat: every K of the network is a multiple of 32.
\* The columns of a block are groups of every depth, one for every tile that is
\* asked for at least; a row block has rows.
ASSUME CaseAssumption ==
    /\ {Words, MaxRows, LoadRegs, MinPass, Cells} \subseteq Nat \ {0} /\ Words <= MaxRows
    /\ \A c \in Case : /\ c \in CaseType /\ c.W % 2 = 0 /\ c.stride % 2 = 0 /\ c.W <= Words
                       /\ c.nodes # <<>> /\ (c.mixed \/ Cardinality({c.nodes[n] : n \in DOMAIN c.nodes}) = 1)
                       /\ c.C % c.blocks = 0
                       /\ \A n \in DOMAIN c.nodes : c.nodes[n] % Cells = 0 /\ (c.C \div c.blocks) % c.nodes[n] = 0
                       /\ ~c.mixed => c.minTiles <= (c.C \div c.blocks) \div c.nodes[1]
                       /\ \A k \in 1 .. Len(c.cuts) - 1 : c.cuts[k] < c.cuts[k + 1]

\* What pi0_wide_gemm_golden.py asserts of its arguments, and its one --n-stage for
\* all its nodes; the bench has one node.
ASSUME GoldenAssumption == \A c \in Case :
    /\ c.path = "wide" => /\ c.groups \in 1 .. c.C \div (c.nodes[1] * (Words \div c.W)) /\ Len(c.nodes) % c.groups = 0
                          /\ Len(c.nodes) \div c.groups <= c.T /\ c.feeder <= Words \div c.W
                          /\ \A n \in DOMAIN c.nodes : c.nodes[n] = c.nodes[1]
    /\ c.path = "bench" => Len(c.nodes) = 1

UpDiv(a, b) == (a + b - 1) \div b
Least(a, b) == IF a < b THEN a ELSE b
Total(s) == FoldLeft(LAMBDA a, x : a + x, 0, s)
Flat(n, F(_)) == FlattenSeq([i \in 1 .. n |-> F(i - 1)])
\* The members of a set of numbers, the least first.
InOrder(S) == [k \in 1 .. Cardinality(S) |-> CHOOSE x \in S : Cardinality({y \in S : y < x}) = k - 1]
\* range(0, n, step)
Steps(n, step) == [i \in 1 .. UpDiv(n, step) |-> (i - 1) * step]
\* divmod(total, parts): part i of nearly equal parts, and how many there are before it
Share(total, parts, i) == (total \div parts) + (IF i < total % parts THEN 1 ELSE 0)
ShareStart(total, parts, i) == i * (total \div parts) + Least(i, total % parts)

(***************************************************************************)
(* Commands (op_out ... in colpar_tile_golden.py).                         *)
(***************************************************************************)
Out(base, blk, gap) == [op |-> "OUT", base |-> base, blk |-> blk, gap |-> gap]
LoadX(base, first, nreg, nwords, nsegs, segStep, tgtStep) ==
    [op |-> "LOADX", base |-> base, first |-> first, nreg |-> nreg, nwords |-> nwords, nsegs |-> nsegs,
     segStep |-> segStep, tgtStep |-> tgtStep]
\* The node makes whole beats of a LOAD's images.
Load(base, first, nreg, nwords) ==
    [LoadX(base, first, nreg, nwords, 1, 0, nwords + (nwords % 2)) EXCEPT !.op = "LOAD"]
Tile(act, wt, W, M, P, G) == [op |-> "TILE", act |-> act, wt |-> wt, W |-> W, M |-> M, P |-> P, G |-> G]
Group(base, T, wt, W, M, P, G, stride, db) ==
    [op |-> "GROUP", base |-> base, T |-> T, wt |-> wt, W |-> W, M |-> M, P |-> P, G |-> G,
     S |-> IF stride = 0 THEN W ELSE stride, db |-> db]
Flush == [op |-> "FLUSH"]

Loads == {"LOAD", "LOADX"}

(* What a node can be asked for: the rows of a tile or group fit its feeder *)
(* -- of a double-buffered group, half of it -- and the columns a stage.    *)
TileCommands == [op : {"TILE"}, act : Nat, wt : Nat, W : Nat \ {0}, M : Nat \ {0}, P : Nat \ {0}, G : Nat \ {0}]
GroupCommands ==
    [op : {"GROUP"}, base : Nat, T : Nat \ {0}, wt : Nat, W : Nat \ {0}, M : Nat \ {0}, P : Nat \ {0},
     G : Nat \ {0}, S : Nat \ {0}, db : BOOLEAN]
Fits(c) ==
    /\ c.op = "TILE" => c \in TileCommands /\ c.M * c.W <= Words /\ c.P * c.W <= Words
    /\ c.op = "GROUP" => c \in GroupCommands /\ c.M * c.W <= (IF c.db THEN Words \div 2 ELSE Words)
                                             /\ c.P * c.W <= Words

(***************************************************************************)
(* Column tiles: [P columns per stage, depth d].                           *)
(***************************************************************************)
Depths(c) == ToSet(c.nodes)
NodesOf(c, d) == Cardinality({n \in DOMAIN c.nodes : c.nodes[n] = d})
Pass(W, d) == Max({W + 1, d, MinPass})

\* Deep classes first.  The rates d / Pass are brought to a common denominator.
DeepFirst(c) == Reverse(InOrder(Depths(c)))
OtherPasses(c, d) == FoldLeft(LAMBDA a, e : IF e = d THEN a ELSE a * Pass(c.W, e), 1, DeepFirst(c))
Rate(c, d) == d * NodesOf(c, d) * OtherPasses(c, d)

\* The columns of every class: whole groups of d, and the rest to the last.
Shares(c, cols) ==
    LET cls == DeepFirst(c)
        weight == Total([i \in DOMAIN cls |-> Rate(c, cls[i])])
        take(a, i) ==
            LET n == IF i = Len(cls) THEN a.left
                     ELSE Least(a.left, (((cols * Rate(c, cls[i])) \div weight) \div cls[i]) * cls[i])
            IN  [left |-> a.left - n, got |-> Append(a.got, n)]
    IN  FoldLeft(take, [left |-> cols, got |-> <<>>], [i \in DOMAIN cls |-> i]).got

\* split_cols_mixed: as few tiles as fit, a multiple of the class's nodes.
TilesOfClass(c, d, PTotal, minTiles) ==
    LET fit == Max({minTiles, UpDiv(PTotal, Words \div c.W)})
        t == Least(PTotal, UpDiv(fit, NodesOf(c, d)) * NodesOf(c, d))
    IN  IF PTotal = 0 THEN <<>> ELSE [k \in 1 .. t |-> [P |-> Share(PTotal, t, k - 1), d |-> d]]
SplitColsMixed(c, cols, minTiles) ==
    LET cls == DeepFirst(c)
        shares == Shares(c, cols)
    IN  FlattenSeq([i \in DOMAIN cls |-> TilesOfClass(c, cls[i], shares[i] \div cls[i], minTiles)])

\* split_cols: one depth, as few tiles as fit, as even as possible.
\* A plausible bug: the number of tiles rounded down.
SplitColsDown(c, cols, minTiles) ==
    LET d == c.nodes[1]
        t == Max({minTiles, (cols \div d) \div (Words \div c.W)})
    IN  [k \in 1 .. t |-> [P |-> Share(cols \div d, t, k - 1), d |-> d]]
SplitCols(c, cols, minTiles) ==
    LET d == c.nodes[1]
        t == Max({minTiles, UpDiv(cols \div d, Words \div c.W)})
    IN  [k \in 1 .. t |-> [P |-> Share(cols \div d, t, k - 1), d |-> d]]
TilesOf(c, cols, minTiles) == IF c.mixed THEN SplitColsMixed(c, cols, minTiles) ELSE SplitCols(c, cols, minTiles)

\* The first column of every tile.
Placed(tiles, c0) == [i \in DOMAIN tiles |->
    [P |-> tiles[i].P, d |-> tiles[i].d,
     c0 |-> c0 + Total([k \in 1 .. i - 1 |-> tiles[k].P * tiles[k].d])]]

\* Images are put one after the other, each from a beat on, behind the
\* activations (weight_image_d: stage s holds the columns d p + s).
Stride(c) == IF c.stride = 0 THEN c.W ELSE c.stride
Weights(c) == 2 * UpDiv(c.T * Stride(c) + Words, 2)
BlockCols(c) == c.C \div c.blocks
ImageWords(c, t) == t.P * t.d * c.W
WithImages(c, tiles) ==
    [i \in DOMAIN tiles |-> [P |-> tiles[i].P, d |-> tiles[i].d, c0 |-> tiles[i].c0,
        img |-> Weights(c) + Total([k \in 1 .. i - 1 |-> 2 * UpDiv(ImageWords(c, tiles[k]), 2)])]]
PutImages(c) ==
    LET bw == BlockCols(c)
    IN  WithImages(c, Flat(c.blocks, LAMBDA b : Placed(TilesOf(c, bw, c.minTiles), b * bw)))

\* A plausible bug: a stage holds neighbouring columns.
WeightImageBlocked(c, t, x) ==
    LET s == x \div (t.P * c.W)
        p == (x % (t.P * c.W)) \div c.W
    IN  <<t.c0 + t.P * s + p, x % c.W>>
WeightImage(c, t, x) ==
    LET s == x \div (t.P * c.W)
        p == (x % (t.P * c.W)) \div c.W
    IN  <<t.c0 + t.d * p + s, x % c.W>>

(***************************************************************************)
(* Rows.                                                                   *)
(***************************************************************************)
\* Whole feeder loads of M rows, each slice from a beat on.
RowSlices(T, W, stride) ==
    LET M == Least(T, Words \div W)
        n == Max({k \in {j * M : j \in 1 .. MaxRows \div M} : (k * (IF stride = 0 THEN W ELSE stride)) % 2 = 0})
    IN  [i \in 1 .. UpDiv(T, n) |-> [r0 |-> (i - 1) * n, n |-> Least(n, T - (i - 1) * n)]]

ColGroup(c, base, T, P, d) ==
    LET half == Words \div 2
        M0 == half \div c.W
        M == IF (M0 * Stride(c)) % 2 = 1 THEN M0 - 1 ELSE M0
        db == c.db /\ c.W <= half /\ T > M0 /\ M >= 1
    IN  Group(base, T, 0, c.W, IF db THEN M ELSE Least(T, Words \div c.W), P, Max({1, d - c.W, MinPass - c.W}), c.stride, db)

\* One column tile: OUT, the loads once, then a group and a FLUSH per slice.
TileCmds(c, t, bw, load) ==
    LET b == t.c0 \div bw
        split == t.d * t.P # bw
        slices == RowSlices(c.T, c.W, c.stride)
        slice(i) ==
            LET r0 == slices[i].r0
            IN  <<Out(b * c.T * bw + r0 * bw + t.c0 - b * bw,
                      IF split THEN (t.d * t.P) \div Cells ELSE 0, IF split THEN bw - t.d * t.P ELSE 0)>>
                \o (IF i = 1 THEN load ELSE <<>>)
                \o <<ColGroup(c, r0 * Stride(c), slices[i].n, t.P, t.d), Flush>>
    IN  FlattenSeq([i \in DOMAIN slices |-> slice(i)])

Pieces(d) == Steps(d, LoadRegs)
CmdsOf(c, tiles, bw, Loading(_)) == FlattenSeq([i \in DOMAIN tiles |-> TileCmds(c, tiles[i], bw, Loading(tiles[i]))])
CmdsLoad(c) ==
    LET load(t) == [k \in DOMAIN Pieces(t.d) |->
            LET s0 == Pieces(t.d)[k]
            IN  Load(t.img + s0 * t.P * c.W, 1 + s0, Least(LoadRegs, t.d - s0), t.P * c.W)]
    IN  CmdsOf(c, PutImages(c), BlockCols(c), load)

CmdsLoadX(c) ==
    LET load(t) == [k \in DOMAIN Pieces(t.d) |->
            LET s0 == Pieces(t.d)[k]
            IN  LoadX(Weights(c) + (t.c0 + s0) * c.W, 1 + s0, Least(LoadRegs, t.d - s0), c.W, t.P, t.d * c.W, c.W)]
    IN  CmdsOf(c, Placed(TilesOf(c, c.C, 1), 0), c.C, load)

(***************************************************************************)
(* The tiles of a stage onto the nodes, and row blocks.                    *)
(***************************************************************************)
\* A tile starts at an OUT that a load follows.
ChainGroups(words) ==
    LET starts == InOrder({i \in DOMAIN words :
                    i = 1 \/ (words[i].op = "OUT" /\ i < Len(words) /\ words[i + 1].op \in Loads)})
    IN  [j \in DOMAIN starts |->
            SubSeq(words, starts[j], IF j = Len(starts) THEN Len(words) ELSE starts[j + 1] - 1)]

TileDepth(words) == Max({0} \cup {words[i].first + words[i].nreg - 1 : i \in {k \in DOMAIN words : words[k].op \in Loads}})

ChainCost(g) == Total([i \in DOMAIN g |->
    CASE g[i].op = "GROUP" -> g[i].T * g[i].P * Pass(g[i].W, TileDepth(g)) + g[i].T * g[i].W
      [] g[i].op \in Loads -> g[i].nreg * g[i].nwords * g[i].nsegs
      [] OTHER -> 0])

\* lpt: longest first onto the least loaded bin; an item's bin.
Lpt(items, n) ==
    LET before(i, j) == \/ ChainCost(items[i]) > ChainCost(items[j])
                        \/ ChainCost(items[i]) = ChainCost(items[j]) /\ i < j
        order == [k \in DOMAIN items |-> CHOOSE i \in DOMAIN items :
                    Cardinality({j \in DOMAIN items : before(j, i)}) = k - 1]
        put(a, i) ==
            LET b == CHOOSE k \in 1 .. n : \A m \in 1 .. n : a.load[k] < a.load[m] \/ (a.load[k] = a.load[m] /\ k <= m)
            IN  [load |-> [a.load EXCEPT ![b] = @ + ChainCost(items[i])], bin |-> [a.bin EXCEPT ![i] = b]]
    IN  FoldLeft(put, [load |-> [k \in 1 .. n |-> 0], bin |-> [i \in DOMAIN items |-> 0]], order).bin

\* split_chain: a tile goes to a node of the depth it was lowered for.
SplitChain(words, depths) ==
    LET groups == ChainGroups(words)
        mine(d) == LET at == InOrder({k \in DOMAIN groups : TileDepth(groups[k]) = d})
                   IN  [i \in DOMAIN at |-> groups[at[i]]]
        same(n) == {k \in DOMAIN depths : depths[k] = depths[n]}
        bins == [d \in ToSet(depths) |-> Lpt(mine(d), Cardinality({k \in DOMAIN depths : depths[k] = d}))]
        part(n) == LET d == depths[n]
                       index == Cardinality({k \in same(n) : k <= n})
                   IN  FlattenSeq([i \in DOMAIN mine(d) |-> IF bins[d][i] = index THEN mine(d)[i] ELSE <<>>])
    IN  [n \in DOMAIN depths |-> part(n)]

\* chain_slice_rows: rows r0 .. r0+n-1 of every tile.  The group size of the
\* tiler stays: a new one may not fit half a feeder.
RowOut(g, o) ==
    LET cg == CHOOSE i \in DOMAIN g : g[i].op = "GROUP"
    IN  IF o.blk # 0 THEN o.blk * Cells + o.gap ELSE TileDepth(g) * g[cg].P
\* A plausible bug (it was one, until 2026-09-18): as many rows as fit a feeder.
SliceCmdRefit(g, c, r0, n) ==
    CASE c.op = "OUT" -> [c EXCEPT !.base = @ + r0 * RowOut(g, c)]
      [] c.op = "GROUP" -> [c EXCEPT !.base = @ + r0 * c.S, !.T = n, !.M = Least(n, Words \div c.W)]
      [] OTHER -> c
SliceCmd(g, c, r0, n) ==
    CASE c.op = "OUT" -> [c EXCEPT !.base = @ + r0 * RowOut(g, c)]
      [] c.op = "GROUP" -> [c EXCEPT !.base = @ + r0 * c.S, !.T = n, !.M = Least(n, @)]
      [] OTHER -> c
ChainSliceRows(words, r0, n) ==
    LET groups == ChainGroups(words)
        cut(g) == [i \in DOMAIN g |-> SliceCmd(g, g[i], r0, n)]
    IN  FlattenSeq([k \in DOMAIN groups |-> cut(groups[k])])

\* Not what has LOADX columns, several row slices or other rows.
Sliceable(words, T) == \A g \in ToSet(ChainGroups(words)) :
    /\ Cardinality({i \in DOMAIN g : g[i].op = "GROUP"}) = 1
    /\ \A i \in DOMAIN g : g[i].op # "LOADX" /\ (g[i].op = "GROUP" => g[i].T = T)

RowBlocks(words, c) ==
    IF c.cuts = <<>> \/ ~Sliceable(words, c.T) THEN <<words>>
    ELSE [k \in 1 .. Len(c.cuts) - 1 |-> ChainSliceRows(words, c.cuts[k], c.cuts[k + 1] - c.cuts[k])]

(***************************************************************************)
(* chain_access: what a part reads (words) and writes (cells), as ranges.  *)
(***************************************************************************)
ChainReads(words) == {
    LET c == words[i]
    IN  CASE c.op = "LOAD" -> <<c.base, c.base + c.nreg * c.nwords>>
          [] c.op = "LOADX" -> <<c.base, c.base + (c.nreg - 1) * c.tgtStep + (c.nsegs - 1) * c.segStep + c.nwords>>
          [] c.op = "GROUP" -> <<c.base, c.base + (c.T - 1) * c.S + c.W>>
    : i \in {k \in DOMAIN words : words[k].op \in Loads \cup {"GROUP"}}}

\* A plausible bug: the last row of a column block is forgotten.
GroupWritesShort(words, o, c) ==
    <<o.base, o.base + (IF o.blk # 0 THEN (c.T - 1) * (o.blk * Cells + o.gap)
                        ELSE Cells * UpDiv(c.T * Max({1, TileDepth(words)}) * c.P, Cells))>>
GroupWrites(words, o, c) ==
    <<o.base, o.base + (IF o.blk # 0 THEN (c.T - 1) * (o.blk * Cells + o.gap) + o.blk * Cells
                        ELSE Cells * UpDiv(c.T * Max({1, TileDepth(words)}) * c.P, Cells))>>
ChainWrites(words) ==
    LET lastOut(i) == words[Max({k \in 1 .. i : words[k].op = "OUT"})]
    IN  {GroupWrites(words, lastOut(i), words[i]) : i \in {k \in DOMAIN words : words[k].op = "GROUP"}}

(***************************************************************************)
(* The wide GEMM of pi0_wide_gemm_golden.py: tile groups times row slices. *)
(***************************************************************************)
WideTiles(c) ==
    LET d == c.nodes[1]
        per == d * (Words \div c.W)
    IN  [t \in 1 .. c.C \div per |-> [P |-> Words \div c.W, d |-> d, c0 |-> (t - 1) * per,
                                      img |-> Weights(c) + (t - 1) * per * c.W]]
WideProgram(c, n) ==
    LET tiles == WideTiles(c)
        slices == Len(c.nodes) \div c.groups
        tg == (n - 1) \div slices
        rs == (n - 1) % slices
        r0 == ShareStart(c.T, slices, rs)
        nr == Share(c.T, slices, rs)
        M == IF c.feeder = 0 THEN Least(c.T, Words \div c.W) ELSE c.feeder
        one(t) == LET per == t.P * t.d
                  IN  <<Out(r0 * c.C + t.c0, per \div Cells, c.C - per), Load(t.img, 1, t.d, t.P * c.W),
                        Group(r0 * c.W, nr, 0, c.W, Least(M, nr), t.P, Max({1, t.d - c.W, MinPass - c.W}), 0, FALSE), Flush>>
    IN  Flat(Share(Len(tiles), c.groups, tg), LAMBDA i : one(tiles[ShareStart(Len(tiles), c.groups, tg) + i + 1]))
=============================================================================
