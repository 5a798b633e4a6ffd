---------------------------- MODULE MCVectorNode ----------------------------
(***************************************************************************)
(* VectorNode on the suites of vu_node_golden.py, for builds of one and two*)
(* lanes and loaders.                                                      *)
(***************************************************************************)
EXTENDS VectorNode

MCBench(suite, seed, tail, sb, nl, nd) ==
    [suite |-> suite, seed |-> seed, tail |-> tail, sb |-> sb, lanes |-> nl, loaders |-> nd]

MCBenches ==
    {MCBench("base", t, q, 3, 1, 1) : t \in {1, 5}, q \in BOOLEAN}
    \cup {MCBench("ml", 2, FALSE, 3, 2, 2), MCBench("ml", 2, TRUE, 3, 2, 1), MCBench("ml", 3, TRUE, 3, 3, 3), MCBench("ml", 1, FALSE, 4, 2, 1),
          MCBench("base", 7, FALSE, 3, 2, 2), MCBench("base", 8, FALSE, 3, 2, 1),
          MCBench("wide", 1, FALSE, 4, 1, 1), MCBench("wide", 2, TRUE, 4, 2, 2), MCBench("wide", 1, FALSE, 3, 1, 1),
          MCBench("pdq", 1, FALSE, 3, 1, 1), MCBench("pdq", 2, TRUE, 3, 2, 2),
          MCBench("attn", 1, FALSE, 3, 1, 1), MCBench("attn", 2, TRUE, 3, 2, 1),
          MCBench("smaxpair", 1, FALSE, 3, 2, 1), MCBench("smaxpair", 1, TRUE, 3, 2, 2)}
    \cup {MCBench("random", t, q, 3, 1, 1) : t \in 1 .. 4, q \in BOOLEAN}

\* The programs, once per suite, seed and tail.
MCPrograms == [b \in MCBenches |-> Assemble(Suite(b.suite, b.seed), b.tail)]

MCGeluTable == <<1, 10, 32, 54, 63>>
MCSigmTable == <<1, 8, 32, 56, 63>>
=============================================================================
