---------------------------- MODULE ChunkProgram ----------------------------
(***************************************************************************)
(* How the program generator (paper/sw/pi0_chunk_program.py, main and      *)
(* DepTracker) chooses the flags a part waits for, one stage after the     *)
(* other.                                                                  *)
(*                                                                         *)
(* Accesses are byte ranges <<lo, hi>>, hi excluded.  DepTracker files     *)
(* every access under the regions of the memory map it touches (the        *)
(* buckets) and looks for conflicts in the buckets of the new access only. *)
(* ChunkSync states what the WAITs must be, in terms of the beats touched; *)
(* WaitsAsPlanned says that the tables deliver it.                         *)
(***************************************************************************)
EXTENDS Integers, Sequences, FiniteSets

CONSTANTS
    Node,       \* the nodes, numbered: the parts of a stage go in this order
    NumRegion,  \* the regions of the map, 1 .. NumRegion, in address order
    RegionBase, \* RegionBase[i]: the first byte of region i
    RegionEnd,  \* RegionEnd[i]: the byte after its last
    BEAT,       \* bytes of a beat
    Body,       \* the bodies a part may have: records [writes, reads] of ranges
    MaxPart     \* bound: parts of a chunk

Index == 1 .. NumRegion

\* The map the allocator leaves (ChunkLayout): regions one below another.
ASSUME MapAssumption ==
    /\ NumRegion \in Nat
    /\ \A i \in Index : RegionBase[i] \in Nat /\ RegionEnd[i] \in Nat
    /\ \A i \in Index : RegionBase[i] < RegionEnd[i]
    /\ \A i, j \in Index : i < j => RegionEnd[i] <= RegionBase[j]

\* Every access lies in the map; what is written is whole beats.
Span == {r \in Nat \X Nat : r[1] < r[2]}
InMap(r) == \A x \in r[1] .. r[2] - 1 : \E i \in Index : RegionBase[i] <= x /\ x < RegionEnd[i]

ASSUME BodyAssumption ==
    /\ Node \subseteq Nat /\ MaxPart \in Nat /\ BEAT \in Nat \ {0}
    /\ \A b \in Body :
        /\ b.writes \subseteq Span /\ b.reads \subseteq Span
        /\ \A r \in b.writes \cup b.reads : InMap(r)
        /\ \A r \in b.writes : r[1] % BEAT = 0 /\ r[2] % BEAT = 0

VARIABLES
    sync,       \* --sync
    parts,      \* the parts emitted: [stage, node, body, waits], in order
    stage,      \* the stage being emitted, counted from 1
    wtab,       \* DepTracker.w: wtab[i] has [lo, hi, node, seq] of the writes
    rtab,       \* DepTracker.r: the same for the reads
    prev        \* prev_flags: the parts of the stage before

vars == <<sync, parts, stage, wtab, rtab, prev>>

fi == Len(parts)
Entry == [lo : Nat, hi : Nat, node : Node, seq : Nat]
PartRec == [stage : Nat, node : Node, body : Body, waits : SUBSET Nat]

TypeOK ==
    /\ sync \in {"barrier", "deps"}
    /\ parts \in Seq(PartRec) /\ fi <= MaxPart
    /\ stage \in 1 .. MaxPart + 1
    /\ wtab \in [Index -> SUBSET Entry] /\ rtab \in [Index -> SUBSET Entry]
    /\ prev \subseteq 1 .. fi

(***************************************************************************)
(* DepTracker.                                                             *)
(***************************************************************************)
\* A plausible bug: the scan starts after the region the range begins in.
ScannedTooLate(i, lo) == \A j \in Index : j >= i => RegionBase[j] > lo

\* The scan starts at the last region whose base is not above lo (at the first
\* region when there is none): no later region starts at or below lo.
Scanned(i, lo) == \A j \in Index : j > i => RegionBase[j] > lo

\* It goes on as long as regions start below hi; those that end above lo count.
Buckets(lo, hi) ==
    {i \in Index : /\ Scanned(i, lo)
                   /\ \A j \in Index : Scanned(j, lo) /\ j <= i => RegionBase[j] < hi
                   /\ RegionEnd[i] > lo}

\* scan(ranges, table): the entries of other nodes that overlap one of them.
Scan(n, ranges, table) ==
    UNION {{e \in table[i] : e.node # n /\
            \E r \in ranges : i \in Buckets(r[1], r[2]) /\ e.lo < r[2] /\ r[1] < e.hi} :
                i \in Index}

\* A plausible bug: writes are not checked against earlier reads.
FoundNoWAR(n, body) == Scan(n, body.reads, wtab) \cup Scan(n, body.writes, wtab)

Found(n, body) ==
    Scan(n, body.reads, wtab) \cup Scan(n, body.writes, wtab) \cup Scan(n, body.writes, rtab)

\* deps: for every node the highest sequence number found.
Deps(n, body) ==
    {e.seq : e \in {f \in Found(n, body) :
                        \A g \in Found(n, body) : g.node = f.node => g.seq <= f.seq}}

\* add, for the writes and for the reads of the parts of the stage.
InStage(q) == parts[q].stage = stage

Added(q, ranges, i) ==
    {[lo |-> r[1], hi |-> r[2], node |-> parts[q].node, seq |-> q] :
        r \in {t \in ranges : i \in Buckets(t[1], t[2])}}

(***************************************************************************)
(* main: the loop over the stages.                                         *)
(***************************************************************************)
\* A part for node n: its WAITs, its body and the POST of its own flag.  What
\* it waits for comes from the tables of the stages before.
EmitPart(n, body) ==
    /\ fi < MaxPart
    /\ \A q \in 1 .. fi : InStage(q) => parts[q].node < n
    /\ parts' = Append(parts,
            [stage |-> stage, node |-> n, body |-> body,
             waits |-> IF sync = "deps" THEN Deps(n, body) ELSE prev])
    /\ UNCHANGED <<sync, stage, wtab, rtab, prev>>

\* A plausible bug: one flag too many.
CloseStageOneMore ==
    /\ \E q \in 1 .. fi : InStage(q)
    /\ stage' = stage + 1
    /\ prev' = {q \in 1 .. fi : InStage(q)} \cup {fi + 1}
    /\ UNCHANGED <<sync, parts, wtab, rtab>>

\* The end of a stage: only now its accesses go into the tables, and its flags
\* replace those of the stage before.  Every stage has parts.
CloseStage ==
    /\ \E q \in 1 .. fi : InStage(q)
    /\ stage' = stage + 1
    /\ prev' = {q \in 1 .. fi : InStage(q)}
    /\ IF sync = "deps"
       THEN /\ wtab' = [i \in Index |-> wtab[i] \cup
                    UNION {Added(q, parts[q].body.writes, i) : q \in {p \in 1 .. fi : InStage(p)}}]
            /\ rtab' = [i \in Index |-> rtab[i] \cup
                    UNION {Added(q, parts[q].body.reads, i) : q \in {p \in 1 .. fi : InStage(p)}}]
       ELSE UNCHANGED <<wtab, rtab>>
    /\ UNCHANGED <<sync, parts>>

Init ==
    /\ sync \in {"barrier", "deps"}
    /\ parts = <<>> /\ stage = 1 /\ prev = {}
    /\ wtab = [i \in Index |-> {}] /\ rtab = [i \in Index |-> {}]

Next == CloseStage \/ \E n \in Node, body \in Body : EmitPart(n, body)

Spec == Init /\ [][Next]_vars

(***************************************************************************)
(* Properties.                                                             *)
(***************************************************************************)
BeatsOf(ranges) == UNION {r[1] \div BEAT .. (r[2] - 1) \div BEAT : r \in ranges}

WriteBeats == [q \in 1 .. fi |-> BeatsOf(parts[q].body.writes)]
ReadBeats == [q \in 1 .. fi |-> BeatsOf(parts[q].body.reads)]

\* The chunk emitted so far, as ChunkSync sees it.
Plan == INSTANCE ChunkSync WITH
    Beat <- Nat,
    NumParts <- fi,
    StageOf <- [q \in 1 .. fi |-> parts[q].stage],
    NodeOf <- [q \in 1 .. fi |-> parts[q].node],
    Reads <- ReadBeats, Writes <- WriteBeats,
    ReadSpan <- ReadBeats, WriteSpan <- WriteBeats,
    Barrier <- sync = "barrier"

\* Every part waits for exactly what ChunkSync says, and the parts come in the
\* order ChunkSync assumes: nothing is lost between the buckets.
WaitsAsPlanned ==
    /\ \A q \in 1 .. fi : parts[q].waits = Plan!Waits(q)
    /\ Plan!StageOrder /\ Plan!NoEmptyStage

\* The parts that have posted before part q may start, by its WAITs, its node's
\* program and those of the parts it waits for.
Earlier ==
    LET direct(q) == parts[q].waits \cup {p \in 1 .. q - 1 : parts[p].node = parts[q].node}
        earlier[q \in 1 .. fi] == direct(q) \cup UNION {earlier[p] : p \in direct(q)}
    IN  earlier

\* Two ranges have a byte in common.
Meet(s, t) == \E a \in s, b \in t : a[1] < b[2] /\ b[1] < a[2]

\* Two parts of different stages that touch a common byte, one writing it, are
\* ordered by a chain of flags.
ConflictsChained ==
    \A q \in 1 .. fi : \A p \in 1 .. q - 1 :
        LET P == parts[p]
            Q == parts[q]
        IN  /\ P.stage < Q.stage
            /\ \/ Meet(P.body.writes, Q.body.reads \cup Q.body.writes)
               \/ Meet(P.body.reads, Q.body.writes)
            => p \in Earlier[q]
=============================================================================
