----------------------------- MODULE ChainNode -----------------------------
(***************************************************************************)
(* Chain nodes at work on the column tiles of a GEMM: the command executor *)
(* (colpar_node_ctrl.sv) with its loader, its feeder -- in halves, one     *)
(* filled while the other runs, when the command says so -- its stage      *)
(* memories, and where the result writer puts the records.  WAIT and POST  *)
(* are in ChunkArray.                                                      *)
(***************************************************************************)
EXTENDS TileBench

(***************************************************************************)
(* The programs: for every node, the parts it runs one after the other.    *)
(***************************************************************************)
Words0(c) == IF c.path = "loadx" THEN CmdsLoadX(c) ELSE CmdsLoad(c)
SplitBlocks(blocks, depths) ==
    LET split == [k \in DOMAIN blocks |-> SplitChain(blocks[k], depths)]
    IN  [n \in DOMAIN depths |-> [k \in DOMAIN blocks |-> split[k][n]]]
PartsOf(c) ==
    CASE c.path = "wide" -> [n \in DOMAIN c.nodes |-> <<WideProgram(c, n)>>]
      [] c.path = "bench" -> <<<<BenchProgram>>>>
      [] OTHER -> SplitBlocks(RowBlocks(Words0(c), c), c.nodes)

\* What the memory holds: the word at an address, as <<column, word>> if it
\* belongs to a weight matrix, else as <<-1, address>>.
Torn == <<-2, 0>>
Images(c) == CASE c.path = "load" -> PutImages(c) [] c.path = "wide" -> WideTiles(c) [] OTHER -> <<>>
Content(c, images, x) ==
    LET hit == {t \in images : t.img <= x /\ x < t.img + ImageWords(c, t)}
    IN  CASE c.path = "loadx" /\ x >= Weights(c) -> <<(x - Weights(c)) \div c.W, (x - Weights(c)) % c.W>>
          [] hit # {} -> LET t == CHOOSE t \in hit : TRUE IN WeightImage(c, t, x - t.img)
          [] OTHER -> <<-1, x>>
MemoryWords(c) == IF c.path = "bench" THEN (2 + Stages) * Words ELSE Weights(c) + 2 * c.C * c.W

\* The sum that belongs into a cell: the words it multiplies, in order.
Size(c) == IF c.path = "bench" THEN Len(BenchResults) ELSE c.T * c.C
Span(a, W) == [k \in 1 .. W |-> <<-1, a + k - 1>>]
Wanted(c, i) ==
    LET bw == BlockCols(c)
        b == i \div (c.T * bw)
        row == (i % (c.T * bw)) \div bw
    IN  <<Span(row * Stride(c), c.W), [k \in 1 .. c.W |-> <<b * bw + (i % bw), k - 1>>]>>
BenchWanted(e) == <<Span(e[1], e[3]), Span(e[2], e[3])>>

\* A GEMM as it is handed to the nodes, with what the tracker is told of it.
JobOf(c, parts, images, bench) ==
    [gemm |-> c,
     prog |-> [n \in DOMAIN c.nodes |-> FlattenSeq(parts[n])],
     access |-> [n \in DOMAIN c.nodes |-> [k \in DOMAIN parts[n] |->
                    [cmds |-> Len(parts[n][k]), reads |-> ChainReads(parts[n][k]), writes |-> ChainWrites(parts[n][k])]]],
     mem |-> [x \in 0 .. MemoryWords(c) - 1 |-> Content(c, images, x)],
     sums |-> [i \in 0 .. Size(c) - 1 |-> IF c.path = "bench" THEN BenchWanted(bench[i + 1]) ELSE Wanted(c, i)]]
Job(c) == JobOf(c, PartsOf(c), ToSet(Images(c)), IF c.path = "bench" THEN BenchResults ELSE <<>>)

(***************************************************************************)
(* State.                                                                  *)
(***************************************************************************)
VARIABLES
    job,        \* the GEMM, its programs and its memory
    pc,         \* per node: the command it is at
    st,         \* per node: fetch, load, go, run
    ld,         \* per node: the load the loader is busy with
    bram,       \* per node: target (0: feeder) -> address -> word
    cg,         \* per node: the rest of the column group
    tile,       \* per node: the tile the sequencer has
    wr,         \* per node: the result writer: base, block, gap, beats written
    out         \* cell -> 0: nothing, n: the sum, by node n; or one of these

NotTheSum == -1
WrittenTwice == -2

vars == <<job, pc, st, ld, bram, cg, tile, wr, out>>
gemm == job.gemm
Node == DOMAIN gemm.nodes
Cmd(n) == job.prog[n][pc[n]]
Halted(n) == pc[n] > Len(job.prog[n])
Done == \A n \in Node : Halted(n)

NoLoad == [busy |-> FALSE]
NoTile == [left |-> 0]
NoGroup == [left |-> 0]
\* A load: segments of nwords from base on, into targets first .., from word wbase.
Arm(base, first, nreg, nwords, nsegs, segStep, tgtStep, wbase) ==
    [busy |-> TRUE, base |-> base, first |-> first, nreg |-> nreg, nwords |-> nwords, nsegs |-> nsegs,
     segStep |-> segStep, tgtStep |-> tgtStep, wbase |-> wbase]

\* The words of memory a load needs, and the words of a target it writes.
Needs(l) == {l.base + r * l.tgtStep + i * l.segStep + j : r \in 0 .. l.nreg - 1, i \in 0 .. l.nsegs - 1, j \in 0 .. l.nwords - 1}
Fills(l) == {(l.wbase + x) % Words : x \in 0 .. l.nsegs * l.nwords - 1}
\* The loader takes whole beats: a segment that begins in the middle of one
\* comes out shifted.
Fetched(l, t, x) ==
    LET start == l.base + (t - l.first) * l.tgtStep + (x \div l.nwords) * l.segStep
    IN  start - (start % 2) + (x % l.nwords)

Filled(n, l, Word(_, _)) ==
    [t \in DOMAIN bram[n] |->
        IF t \in l.first .. l.first + l.nreg - 1
        THEN [a \in DOMAIN bram[n][t] |->
                LET x == (a - l.wbase) % Words IN IF a \in Fills(l) THEN Word(t, x) ELSE bram[n][t][a]]
        ELSE bram[n][t]]

TypeOK ==
    /\ gemm \in Case
    /\ pc \in [Node -> Nat \ {0}] /\ st \in [Node -> {"fetch", "load", "go", "run"}]
    /\ \A n \in Node :
        /\ pc[n] <= Len(job.prog[n]) + 1
        /\ ~Halted(n) => Fits(Cmd(n))
        /\ Halted(n) => st[n] = "fetch" /\ ~ld[n].busy
        /\ DOMAIN bram[n] = 0 .. gemm.nodes[n] /\ \A t \in DOMAIN bram[n] : DOMAIN bram[n][t] = 0 .. Words - 1
        /\ st[n] = "run" => tile[n].left > 0 /\ tile[n].M * tile[n].W <= Words /\ tile[n].P * tile[n].W <= Words
    /\ DOMAIN out = 0 .. Size(gemm) - 1 /\ \A i \in DOMAIN out : out[i] \in {NotTheSum, WrittenTwice, 0} \cup Node

Init ==
    /\ job \in {Job(c) : c \in Case}
    /\ pc = [n \in Node |-> 1] /\ st = [n \in Node |-> "fetch"]
    /\ ld = [n \in Node |-> NoLoad] /\ cg = [n \in Node |-> NoGroup] /\ tile = [n \in Node |-> NoTile]
    /\ bram = [n \in Node |-> [t \in 0 .. gemm.nodes[n] |-> [a \in 0 .. Words - 1 |-> Torn]]]
    /\ wr = [n \in Node |-> [base |-> 0, blk |-> 0, gap |-> 0, beats |-> 0]]
    /\ out = [i \in 0 .. Size(gemm) - 1 |-> 0]

(***************************************************************************)
(* Commands.                                                               *)
(***************************************************************************)
Fetch(n, op) == ~Halted(n) /\ st[n] = "fetch" /\ Cmd(n).op = op
NextCmd(n) == pc' = [pc EXCEPT ![n] = @ + 1]

RunOut(n) ==
    /\ Fetch(n, "OUT") /\ NextCmd(n)
    /\ wr' = [wr EXCEPT ![n] = [base |-> Cmd(n).base, blk |-> Cmd(n).blk, gap |-> Cmd(n).gap, beats |-> 0]]
    /\ UNCHANGED <<job, st, ld, bram, cg, tile, out>>

RunFlush(n) ==
    /\ Fetch(n, "FLUSH") /\ NextCmd(n)
    /\ UNCHANGED <<job, st, ld, bram, cg, tile, wr, out>>

\* Until the loader is done, what it writes is neither old nor new.
StartLoad(n, l) ==
    /\ ld' = [ld EXCEPT ![n] = l]
    /\ bram' = [bram EXCEPT ![n] = Filled(n, l, LAMBDA t, x : Torn)]

RunLoad(n) ==
    /\ Fetch(n, "LOAD") \/ Fetch(n, "LOADX")
    /\ LET c == Cmd(n) IN StartLoad(n, Arm(c.base, c.first, c.nreg, c.nwords, c.nsegs, c.segStep, c.tgtStep, 0))
    /\ st' = [st EXCEPT ![n] = "load"]
    /\ UNCHANGED <<job, pc, cg, tile, wr, out>>

RunTile(n) ==
    /\ Fetch(n, "TILE")
    /\ LET c == Cmd(n) IN tile' = [tile EXCEPT ![n] =
            [act |-> c.act, wt |-> c.wt, W |-> c.W, M |-> c.M, P |-> c.P, G |-> c.G, left |-> c.M]]
    /\ st' = [st EXCEPT ![n] = "run"]
    /\ UNCHANGED <<job, pc, ld, bram, cg, wr, out>>

\* Rows of a column group: the next ones, into word wbase of the feeder.
GroupRows(c, left) == Least(c.M, left)
GroupLoad(c, base, m, wbase) ==
    IF c.S = c.W THEN Arm(base, 0, 1, m * c.W, 1, c.S, 0, wbase) ELSE Arm(base, 0, 1, c.W, m, c.S, 0, wbase)

\* A group is loaded; of a double-buffered one the loader is always one ahead.
RunGroup(n) ==
    /\ Fetch(n, "GROUP")
    /\ LET c == Cmd(n)
           m == GroupRows(c, c.T)
       IN  /\ StartLoad(n, GroupLoad(c, c.base, m, 0))
           /\ cg' = [cg EXCEPT ![n] = [left |-> c.T - m, base |-> c.base + c.M * c.S, m |-> m, half |-> 0]]
    /\ st' = [st EXCEPT ![n] = "go"]
    /\ UNCHANGED <<job, pc, tile, wr, out>>

LoadDone(n) ==
    /\ ld[n].busy
    /\ bram' = [bram EXCEPT ![n] = Filled(n, ld[n], LAMBDA t, x : job.mem[Fetched(ld[n], t, x)])]
    /\ ld' = [ld EXCEPT ![n] = NoLoad]
    /\ IF st[n] = "load" THEN st' = [st EXCEPT ![n] = "fetch"] /\ NextCmd(n) ELSE UNCHANGED <<st, pc>>
    /\ UNCHANGED <<job, cg, tile, wr, out>>

\* The group that is loaded runs; with two halves the next one is loaded meanwhile.
StartTile(n) ==
    LET c == Cmd(n)
        g == cg[n]
        m == GroupRows(c, g.left)
        other == Words \div 2 - g.half
    IN  /\ st[n] = "go" /\ ~ld[n].busy
        /\ tile' = [tile EXCEPT ![n] =
                [act |-> g.half, wt |-> c.wt, W |-> c.W, M |-> g.m, P |-> c.P, G |-> c.G, left |-> g.m]]
        /\ st' = [st EXCEPT ![n] = "run"]
        /\ IF c.db /\ g.left > 0
           THEN /\ StartLoad(n, GroupLoad(c, g.base, m, other))
                /\ cg' = [cg EXCEPT ![n] = [left |-> g.left - m, base |-> g.base + c.M * c.S, m |-> m, half |-> other]]
           ELSE /\ cg' = [cg EXCEPT ![n].m = 0]
                /\ UNCHANGED <<ld, bram>>
        /\ UNCHANGED <<job, pc, wr, out>>

\* A single-buffered group loads the next rows when the ones before have run.
LoadRows(n) ==
    LET c == Cmd(n)
        g == cg[n]
        m == GroupRows(c, g.left)
    IN  /\ StartLoad(n, GroupLoad(c, g.base, m, 0))
        /\ cg' = [cg EXCEPT ![n] = [left |-> g.left - m, base |-> g.base + c.M * c.S, m |-> m, half |-> 0]]

(***************************************************************************)
(* One row of the feeder against the columns of the stages: P records, one *)
(* sum per stage, written from where the writer is.                        *)
(***************************************************************************)
Beats(n) == UpDiv(gemm.nodes[n], Cells)
CellAt(w, d, rec, s) ==
    LET beat == w.beats + rec * UpDiv(d, Cells) + s \div Cells
    IN  w.base + beat * Cells + (IF w.blk = 0 THEN 0 ELSE (beat \div w.blk) * w.gap) + (s % Cells)

RowOf(t) == t.M - t.left
\* Row passes that come too soon run into each other in the chain.
Spaced(n) == tile[n].W + tile[n].G >= Max({gemm.nodes[n], MinPass})
SumOf(n, p, s) ==
    LET t == tile[n]
    IN  <<[k \in 1 .. t.W |-> bram[n][0][(t.act + RowOf(t) * t.W + k - 1) % Words]],
          [k \in 1 .. t.W |-> bram[n][s + 1][(t.wt + p * t.W + k - 1) % Words]]>>
RowCells(n) == {CellAt(wr[n], gemm.nodes[n], p, s) : p \in 0 .. tile[n].P - 1, s \in 0 .. gemm.nodes[n] - 1}

RunRow(n) ==
    LET t == tile[n]
        d == gemm.nodes[n]
        made == [p \in 0 .. t.P - 1 |-> [s \in 0 .. d - 1 |-> CellAt(wr[n], d, p, s)]]
        from(i) == CHOOSE ps \in (0 .. t.P - 1) \X (0 .. d - 1) : made[ps[1]][ps[2]] = i
        value(i) == IF Spaced(n) /\ SumOf(n, from(i)[1], from(i)[2]) = job.sums[i] THEN n ELSE NotTheSum
        last == t.left = 1
    IN  /\ st[n] = "run"
        /\ out' = [i \in DOMAIN out |-> IF i \notin RowCells(n) THEN out[i]
                                        ELSE IF out[i] = 0 THEN value(i) ELSE WrittenTwice]
        /\ wr' = [wr EXCEPT ![n].beats = @ + t.P * Beats(n)]
        /\ tile' = [tile EXCEPT ![n].left = @ - 1]
        /\ CASE ~last -> UNCHANGED <<st, pc, ld, bram, cg>>
             [] last /\ Cmd(n).op = "TILE" -> st' = [st EXCEPT ![n] = "fetch"] /\ NextCmd(n) /\ UNCHANGED <<ld, bram, cg>>
             [] last /\ Cmd(n).op = "GROUP" /\ cg[n].m > 0 -> st' = [st EXCEPT ![n] = "go"] /\ UNCHANGED <<pc, ld, bram, cg>>
             [] last /\ Cmd(n).op = "GROUP" /\ cg[n].m = 0 /\ cg[n].left > 0 ->
                    st' = [st EXCEPT ![n] = "go"] /\ LoadRows(n) /\ UNCHANGED pc
             [] OTHER -> st' = [st EXCEPT ![n] = "fetch"] /\ NextCmd(n) /\ UNCHANGED <<ld, bram, cg>>
        /\ UNCHANGED job

Terminated == Done /\ UNCHANGED vars
Next == Terminated \/ \E n \in Node :
    RunOut(n) \/ RunFlush(n) \/ RunLoad(n) \/ RunTile(n) \/ RunGroup(n) \/ LoadDone(n) \/ StartTile(n) \/ RunRow(n)
Spec == Init /\ [][Next]_vars

(***************************************************************************)
(* Properties.                                                             *)
(***************************************************************************)
\* Whatever the depths, tiles, slices and row blocks, every sum of the product
\* is written once, into its cell, from the right row and column, and none is
\* missing at the end.
EachSumOnce == \A i \in DOMAIN out : out[i] >= 0 /\ (Done => out[i] > 0)

\* The loader never fills words of the feeder the sequencer still reads.
FeederSafe ==
    \A n \in Node : st[n] = "run" /\ ld[n].busy /\ ld[n].first = 0 =>
        \A r \in RowOf(tile[n]) .. tile[n].M - 1, k \in 0 .. tile[n].W - 1 :
            (tile[n].act + r * tile[n].W + k) % Words \notin Fills(ld[n])

\* What a part touches lies in the ranges the dependence tracker has for it.
InSome(x, ranges) == \E rg \in ranges : rg[1] <= x /\ x < rg[2]
Before(n, k) == Total([j \in 1 .. k - 1 |-> job.access[n][j].cmds])
AccessAt(n) ==
    job.access[n][CHOOSE k \in DOMAIN job.access[n] : Before(n, k) < pc[n] /\ pc[n] <= Before(n, k + 1)]
AccessesCovered ==
    gemm.path # "bench" => \A n \in Node :
        /\ ld[n].busy => \A x \in Needs(ld[n]) : InSome(x, AccessAt(n).reads)
        /\ st[n] = "run" => \A i \in RowCells(n) : InSome(i, AccessAt(n).writes)
=============================================================================
