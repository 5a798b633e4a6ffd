---------------------------- MODULE MCChainNode ----------------------------
EXTENDS ChainNode

Gemm(path, T, W, C, nodes) ==
    [path |-> path, T |-> T, W |-> W, C |-> C, stride |-> 0, blocks |-> 1, minTiles |-> 1, nodes |-> nodes,
     cuts |-> <<>>, db |-> FALSE, mixed |-> TRUE, feeder |-> 0, groups |-> 1]

MCCase == {
    Gemm("load", 3, 2, 20, <<4, 2>>),
    [Gemm("load", 7, 2, 8, <<2, 2>>) EXCEPT !.db = TRUE, !.cuts = <<0, 6, 7>>],
    [Gemm("load", 3, 4, 24, <<4>>) EXCEPT !.blocks = 2, !.mixed = FALSE],
    [Gemm("loadx", 9, 2, 8, <<2, 2>>) EXCEPT !.stride = 6, !.db = TRUE],
    Gemm("loadx", 2, 4, 8, <<4>>),
    [Gemm("wide", 5, 4, 8, <<2, 2>>) EXCEPT !.groups = 1],
    [Gemm("wide", 3, 4, 8, <<2, 2>>) EXCEPT !.groups = 2, !.feeder = 1],
    Gemm("bench", 1, 2, 2, <<2>>)}

MCBenchTiles == <<[ab |-> 1, wb |-> 0, W |-> 1, M |-> 3, P |-> 2], [ab |-> 0, wb |-> 2, W |-> 3, M |-> 2, P |-> 2]>>
MCBenchGroups == <<[ab |-> 0, wb |-> 4, W |-> 1, T |-> 5, M |-> 2, P |-> 2], [ab |-> 2, wb |-> 1, W |-> 3, T |-> 2, M |-> 2, P |-> 1]>>
MCBenchSlices == <<[o |-> 0, wb |-> 0, W |-> 2, S |-> 4, T |-> 2, M |-> 1, P |-> 2], [o |-> 0, wb |-> 5, W |-> 3, S |-> 4, T |-> 2, M |-> 2, P |-> 1]>>
MCBenchBlock == [k0 |-> 0, Wk |-> 2, Pk |-> 2, oc |-> 2, W |-> 2, T |-> 3, M |-> 2, P |-> 1]
=============================================================================
