---------------------------- MODULE MCChunkFlow ----------------------------
EXTENDS ChunkFlow

MCCuts == <<0, 2, 5>>
Opt(v, i, b, p, q, s) == [program |-> "chunk", vision |-> v, interleave |-> i, blocks |-> b, pdq |-> p, quant |-> q, sync |-> s]
OneGolden(p) == [Opt("captured", FALSE, FALSE, FALSE, FALSE, "barrier") EXCEPT !.program = p]
MCOptions == {OneGolden(p) : p \in Goldens} \cup {Opt("captured", FALSE, FALSE, FALSE, FALSE, "barrier"),
    Opt("captured", TRUE, TRUE, TRUE, TRUE, "deps"),
    Opt("synthetic", TRUE, FALSE, FALSE, TRUE, "deps"),
    Opt("captured", FALSE, TRUE, TRUE, FALSE, "deps")}
=============================================================================
