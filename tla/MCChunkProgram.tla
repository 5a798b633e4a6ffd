--------------------------- MODULE MCChunkProgram ---------------------------
(***************************************************************************)
(* Three nodes, chunks of four parts, beats of two bytes, and a map of     *)
(* four regions with a hole.  The bodies make every kind of conflict: a    *)
(* range inside a region, one that starts at a region's last beat, one of  *)
(* single bytes (reads are not rounded), one over two regions, one in the  *)
(* first bytes of the map.                                                 *)
(***************************************************************************)
EXTENDS ChunkProgram

MCRegionBase == <<2, 6, 12, 14>>
MCRegionEnd == <<6, 8, 14, 18>>
MCBody == {
    [writes |-> {<<2, 4>>}, reads |-> {<<7, 8>>}],
    [writes |-> {<<4, 8>>, <<14, 16>>}, reads |-> {<<2, 3>>, <<16, 18>>}],
    [writes |-> {<<12, 18>>}, reads |-> {<<3, 6>>}]}
=============================================================================
