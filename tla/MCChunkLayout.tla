---------------------------- MODULE MCChunkLayout ----------------------------
(***************************************************************************)
(* Two channels of 16 addresses and 12 bytes of storage, beats of 2 bytes: *)
(* an area with one window and an area with one window in each channel.    *)
(***************************************************************************)
EXTENDS ChunkLayout

CONSTANTS IO, SCRATCH

MCArea == {IO, SCRATCH}
MCNumWin == [a \in MCArea |-> IF a = IO THEN 1 ELSE 2]
MCWinBase == [a \in MCArea |-> IF a = IO THEN [w \in {0} |-> 0] ELSE [w \in 0 .. 1 |-> 16 * w + 4]]
MCWinLimit == [a \in MCArea |-> IF a = IO THEN [w \in {0} |-> 4] ELSE [w \in 0 .. 1 |-> 16 * w + 12]]
MCSize == 1 .. 4
=============================================================================
