---------------------------- MODULE MCChunkArray ----------------------------
(***************************************************************************)
(* A chunk of six parts in four stages on two vector nodes and one chain   *)
(* node.  It has every kind of dependence the generator meets: a stage     *)
(* split over two nodes (1, 2), a gather from both (3), an input updated   *)
(* in place (4 on x), a buffer used again (5 on a: after the write of 1    *)
(* and the read of 3, the only thing that orders 5 after 3), a constant of *)
(* the image (w), and two results.  The span of part 1 also covers what its *)
(* neighbour of the same stage writes.                                      *)
(***************************************************************************)
EXTENDS ChunkArrayInd

CONSTANTS v1, v2, c1,               \* nodes
          x, w, a, b, s, y          \* beats

MCNode == {v1, v2, c1}
MCBeat == {x, w, a, b, s, y}
MCStageOf == <<1, 1, 2, 3, 3, 4>>
MCNodeOf == <<v1, v2, c1, v1, v2, c1>>
MCReads == <<{x}, {x}, {a, b, w}, {s, x}, {b}, {x, a}>>
MCWrites == <<{a}, {b}, {s}, {x}, {a}, {y}>>
MCWriteSpan == [p \in 1 .. 6 |-> IF p = 1 THEN {a, b} ELSE MCWrites[p]]
MCInput == {x}
MCActions == {x, y}
=============================================================================
