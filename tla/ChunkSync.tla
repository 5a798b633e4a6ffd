------------------------------ MODULE ChunkSync ------------------------------
(***************************************************************************)
(* The synchronisation plan of one chunk, as the program generator         *)
(* (paper/sw/pi0_chunk_program.py) lays it out.                             *)
(*                                                                         *)
(* The work of a chunk is cut into parts, numbered in emission order (the  *)
(* generator's sequence number fi).  A part belongs to one stage and runs  *)
(* on one node; a node runs its parts in order.  Nodes meet only in the    *)
(* shared GDDR6: a part ends with a POST of its own flag, and starts with  *)
(* WAITs on flags of other parts.  Two ways to choose the WAITs exist      *)
(* (--sync): "barrier" waits for the whole previous stage, "deps" only for *)
(* the latest conflicting part of every other node.                        *)
(*                                                                         *)
(* The plan is sound when every two parts that touch a common beat, one of *)
(* them writing it, are ordered by the chain of POSTs and WAITs: the       *)
(* first lemmas of ChunkArrayProofs.                                       *)
(***************************************************************************)
EXTENDS Integers

CONSTANTS
    Node,       \* the nodes of the array that the chunk uses
    Beat,       \* the 32-byte beats of GDDR6 that the parts touch (flags apart)
    NumParts,   \* how many parts the chunk has
    StageOf,    \* StageOf[p]: the stage of part p, counted from 1
    NodeOf,     \* NodeOf[p]: the node part p runs on
    Reads,      \* Reads[p]: the beats part p reads
    Writes,     \* Writes[p]: the beats part p writes
    ReadSpan,   \* ReadSpan[p]: what the generator takes for its reads
    WriteSpan,  \* WriteSpan[p]: what the generator takes for its writes
    Barrier     \* TRUE for --sync barrier, FALSE for --sync deps

Part == 1 .. NumParts

\* Where a node's program stands once its last part is posted: the END record.
End == NumParts + 1

\* p and q touch a common beat and one of them writes it.
Conflict(p, q) ==
    \/ Writes[p] \cap Reads[q] # {}
    \/ Writes[p] \cap Writes[q] # {}
    \/ Reads[p] \cap Writes[q] # {}

\* The same in the eyes of the generator.
SpanConflict(p, q) ==
    \/ WriteSpan[p] \cap ReadSpan[q] # {}
    \/ WriteSpan[p] \cap WriteSpan[q] # {}
    \/ ReadSpan[p] \cap WriteSpan[q] # {}

ASSUME PlanAssumption ==
    /\ NumParts \in Nat \ {0}
    /\ StageOf \in [Part -> Nat \ {0}]
    /\ NodeOf \in [Part -> Node]
    /\ Reads \in [Part -> SUBSET Beat]
    /\ Writes \in [Part -> SUBSET Beat]
    /\ Barrier \in BOOLEAN

\* The ranges of rec_access and chain_access are supersets: a chain part is
\* bounded by the rows it writes a column block of, so the spans of two parts of
\* one stage may well overlap.
ASSUME SpanAssumption ==
    \A p \in Part : Reads[p] \subseteq ReadSpan[p] /\ Writes[p] \subseteq WriteSpan[p]

\* Parts are numbered stage by stage.
StageOrder == \A p, q \in Part : p < q => StageOf[p] <= StageOf[q]

ASSUME StageOrderAssumption == StageOrder

\* A stage gives a node at most one part, and the parts of one stage are
\* independent: split_vector_safe cuts a stage wherever they would not be.
ASSUME StageSplitAssumption ==
    \A p, q \in Part : p # q /\ StageOf[p] = StageOf[q] =>
        NodeOf[p] # NodeOf[q] /\ ~ Conflict(p, q)

\* Barrier mode chains the stages through the flags of the previous one, so a
\* stage without parts would break the chain.
NoEmptyStage ==
    Barrier => \A q \in Part : StageOf[q] > 1 =>
        \E p \in Part : StageOf[p] = StageOf[q] - 1

ASSUME NoEmptyStageAssumption == NoEmptyStage

(***************************************************************************)
(* The WAITs.                                                              *)
(***************************************************************************)
\* A plausible bug: the scan forgets that a buffer still read must not be
\* written (write after read).
HitsNoWAR(q) ==
    {p \in Part : NodeOf[p] # NodeOf[q] /\ StageOf[p] < StageOf[q] /\
                  WriteSpan[p] \cap (ReadSpan[q] \cup WriteSpan[q]) # {}}

\* What DepTracker.deps scans: parts of earlier stages, on other nodes.
Hits(q) ==
    {p \in Part : NodeOf[p] # NodeOf[q] /\ StageOf[p] < StageOf[q] /\ SpanConflict(p, q)}

\* A plausible bug: the lowest sequence number hit on a node is kept.
DepsWaitsLowest(q) ==
    {p \in Hits(q) : \A r \in Hits(q) : NodeOf[r] = NodeOf[p] => p <= r}

\* out[n2] = the highest sequence number hit on node n2.
DepsWaits(q) ==
    {p \in Hits(q) : \A r \in Hits(q) : NodeOf[r] = NodeOf[p] => r <= p}

\* Plausible bugs: only the last flag of the stage before, or the flags of the
\* stage itself (prev_flags replaced too early).
BarrierWaitsLast(q) ==
    {p \in Part : StageOf[p] = StageOf[q] - 1 /\
        \A r \in Part : StageOf[r] = StageOf[p] => r <= p}

BarrierWaitsOwn(q) == {p \in Part : StageOf[p] = StageOf[q]}

\* prev_flags: every part of the stage before, the node's own included.
BarrierWaits(q) == {p \in Part : StageOf[p] = StageOf[q] - 1}

Waits(q) == IF Barrier THEN BarrierWaits(q) ELSE DepsWaits(q)

(***************************************************************************)
(* What the WAITs, the POSTs and the program order of each node order.     *)
(***************************************************************************)
\* p has posted before q may start.
Before(p, q) ==
    IF Barrier
    THEN StageOf[p] < StageOf[q]
    ELSE \/ NodeOf[p] = NodeOf[q] /\ p < q
         \/ \E d \in Waits(q) : NodeOf[d] = NodeOf[p] /\ p <= d

\* What holds q back directly: a WAIT, or an earlier part of the same program.
Holds(r, q) == r \in Waits(q) \/ (NodeOf[r] = NodeOf[q] /\ r < q)

\* Part q of node n follows position p in n's program (p = 0: the first).
Follows(n, p, q) ==
    /\ p < q
    /\ q \in Part => NodeOf[q] = n
    /\ \A r \in Part : p < r /\ r < q => NodeOf[r] # n
=============================================================================
