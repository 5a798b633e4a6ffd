--------------------------- MODULE ChunkArrayProofs ---------------------------
(***************************************************************************)
(* The safety properties of ChunkArray hold for every chunk, every array   *)
(* and both sync modes: its invariant IInv is inductive.                   *)
(***************************************************************************)
EXTENDS ChunkArrayInd, NumberLemmas

-----------------------------------------------------------------------------
(***************************************************************************)
(* The plan (ChunkSync): the WAITs the generator emits order every two     *)
(* conflicting parts, in both sync modes, whatever the chunk.              *)
(***************************************************************************)
\* A non-empty set of parts has a highest one: what "the latest earlier part"
\* of DepTracker needs to exist.
LEMMA HighestPart ==
    ASSUME NEW S \in SUBSET Part, S # {}
    PROVE  \E m \in S : \A p \in S : p <= m
<1>1. \A lo, hi \in Int : \A T \in SUBSET (lo .. hi) : T # {} => \E m \in T : \A p \in T : p <= m
    BY GreatestNumber
<1>2. NumParts \in Int /\ 1 \in Int /\ S \in SUBSET (1 .. NumParts)
    BY PlanAssumption DEF Part
<1> QED
    BY <1>1, <1>2

\* The types of the plan, at one part.
LEMMA PlanTypes ==
    /\ \A q \in Part : StageOf[q] \in Nat \ {0} /\ NodeOf[q] \in Node
    /\ \A q \in Part : Reads[q] \subseteq Beat /\ Writes[q] \subseteq Beat
    /\ \A q \in Part : Waits(q) \subseteq Part
    /\ Part \subseteq Nat \ {0} /\ End \in Nat \ {0} /\ End \notin Part
    BY PlanAssumption DEF Part, End, Waits, BarrierWaits, DepsWaits, Hits

\* Parts and positions are numbers, with the order of numbers.
LEMMA PartsAreNumbers ==
    ASSUME NEW p \in Part
    PROVE  p \in Nat /\ 0 < p /\ p < End
    BY PlanAssumption DEF Part, End

\* Between position p0 of a program and the one that follows it, the node has
\* no part.
LEMMA FollowsMeans ==
    ASSUME NEW n, NEW p0 \in Nat, NEW q \in Nat, Follows(n, p0, q),
           NEW r \in Part, NodeOf[r] = n
    PROVE  r < q <=> r <= p0
<1>1. r \in Nat
    BY PartsAreNumbers
<1>2. p0 < q /\ ~ (p0 < r /\ r < q)
    BY DEF Follows
<1> QED
    BY <1>1, <1>2

\* An earlier stage only has lower numbers.
LEMMA EarlierStage ==
    ASSUME NEW p \in Part, NEW q \in Part, StageOf[p] < StageOf[q]
    PROVE  p < q
<1>1. ~ (q < p)
    BY StageOrderAssumption, PlanTypes DEF StageOrder
<1>2. p # q
    BY PlanTypes
<1> QED
    BY <1>1, <1>2, PlanTypes

\* The order is one between lower and higher numbers.
LEMMA BeforeIsEarlier ==
    ASSUME NEW p \in Part, NEW q \in Part, Before(p, q)
    PROVE  p < q
<1>1. CASE Barrier
    BY <1>1, EarlierStage DEF Before
<1>2. CASE ~ Barrier
    <2>1. CASE NodeOf[p] = NodeOf[q] /\ p < q
        BY <2>1
    <2>2. CASE \E d \in Waits(q) : NodeOf[d] = NodeOf[p] /\ p <= d
        <3>1. PICK d \in Waits(q) : p <= d
            BY <2>2
        <3>2. d \in Part /\ StageOf[d] < StageOf[q]
            BY <1>2, <3>1 DEF Waits, DepsWaits, Hits
        <3>3. d < q
            BY <3>2, EarlierStage
        <3> QED
            BY <3>1, <3>2, <3>3, PlanTypes
    <2> QED
        BY <1>2, <2>1, <2>2 DEF Before
<1> QED
    BY <1>1, <1>2

\* Whatever is ordered before q is, or is ordered before, something that holds
\* q back directly: the chain of WAITs never skips a link.
LEMMA BeforeStep ==
    ASSUME NEW p \in Part, NEW q \in Part, Before(p, q)
    PROVE  \E r \in Part : Holds(r, q) /\ (p = r \/ Before(p, r))
<1>1. CASE Barrier
    <2>1. StageOf[p] < StageOf[q]
        BY <1>1 DEF Before
    <2>2. StageOf[q] > 1
        <3>1. StageOf[p] \in Nat \ {0} /\ StageOf[q] \in Nat \ {0}
            BY PlanTypes
        <3> QED
            BY <2>1, <3>1
    <2>3. PICK r \in Part : StageOf[r] = StageOf[q] - 1
        BY <1>1, <2>2, NoEmptyStageAssumption DEF NoEmptyStage
    <2>4. CASE StageOf[p] = StageOf[q] - 1
        BY <1>1, <2>4 DEF Holds, Waits, BarrierWaits
    <2>5. CASE StageOf[p] # StageOf[q] - 1
        <3>1. StageOf[p] < StageOf[r]
            BY <2>1, <2>3, <2>5, PlanTypes
        <3> QED
            BY <1>1, <2>3, <3>1 DEF Holds, Waits, BarrierWaits, Before
    <2> QED
        BY <2>4, <2>5
<1>2. CASE ~ Barrier
    <2>1. CASE NodeOf[p] = NodeOf[q] /\ p < q
        BY <2>1 DEF Holds
    <2>2. CASE \E d \in Waits(q) : NodeOf[d] = NodeOf[p] /\ p <= d
        <3>1. PICK d \in Waits(q) : NodeOf[d] = NodeOf[p] /\ p <= d
            BY <2>2
        <3>2. d \in Part
            BY <3>1, PlanTypes
        <3>3. p = d \/ (NodeOf[p] = NodeOf[d] /\ p < d)
            BY <3>1, <3>2, PlanTypes
        <3> QED
            BY <1>2, <3>1, <3>2, <3>3 DEF Holds, Before
    <2> QED
        BY <1>2, <2>1, <2>2 DEF Before
<1> QED
    BY <1>1, <1>2

\* Two parts that touch a common beat, one writing it, are ordered: the
\* lower-numbered one has posted before the other one starts.
THEOREM ConflictsOrdered ==
    ASSUME NEW p \in Part, NEW q \in Part, p < q, Conflict(p, q)
    PROVE  Before(p, q)
<1>1. StageOf[p] <= StageOf[q]
    BY StageOrderAssumption DEF StageOrder
<1>2. StageOf[p] # StageOf[q]
    <2>1. p # q
        BY PlanTypes
    <2> QED
        BY <2>1, StageSplitAssumption
<1>3. StageOf[p] < StageOf[q]
    BY <1>1, <1>2, PlanTypes
<1>4. CASE Barrier
    BY <1>3, <1>4 DEF Before
<1>5. CASE ~ Barrier
    <2>1. CASE NodeOf[p] = NodeOf[q]
        BY <1>5, <2>1 DEF Before
    <2>2. CASE NodeOf[p] # NodeOf[q]
        <3> DEFINE S == {r \in Hits(q) : NodeOf[r] = NodeOf[p]}
        <3>1. p \in S /\ S \subseteq Part
            <4>1. SpanConflict(p, q)
                BY SpanAssumption DEF Conflict, SpanConflict
            <4> QED
                BY <1>3, <2>2, <4>1 DEF Hits
        <3>2. PICK d \in S : \A r \in S : r <= d
            BY <3>1, HighestPart
        <3>3. d \in DepsWaits(q)
            BY <3>2 DEF DepsWaits
        <3>4. NodeOf[d] = NodeOf[p] /\ p <= d
            BY <3>1, <3>2
        <3> QED
            BY <1>5, <3>3, <3>4 DEF Before, Waits
    <2> QED
        BY <2>1, <2>2
<1> QED
    BY <1>4, <1>5

USE DEF nodeVars, hostVars, vars

-----------------------------------------------------------------------------
(***************************************************************************)
(* Types.                                                                  *)
(***************************************************************************)
LEMMA LoadPartType ==
    ASSUME TypeOK, NEW n \in Node, NEW q \in 1 .. End, LoadPart(n, q)
    PROVE  /\ cur' \in [Node -> 0 .. End]
           /\ todo' \in [Node -> SUBSET Part]
           /\ rd' \in [Node -> SUBSET Beat]
           /\ wq' \in [Node -> SUBSET Beat]
<1>1. q = End \/ q \in Part
    BY PlanAssumption DEF Part, End
<1>2. q \in 0 .. End
    BY PlanAssumption DEF Part, End
<1>3. /\ (IF q = End THEN {} ELSE Waits(q)) \in SUBSET Part
      /\ (IF q = End THEN {} ELSE Reads[q]) \in SUBSET Beat
      /\ (IF q = End THEN {} ELSE Writes[q]) \in SUBSET Beat
    BY <1>1, PlanTypes
<1> QED
    BY <1>2, <1>3 DEF TypeOK, LoadPart

\* A running node that has anything left to do is at one of its parts.
LEMMA RunningPart ==
    ASSUME IInv, NEW n \in Node, st[n] = "run",
           cur[n] # End \/ todo[n] # {} \/ rd[n] # {} \/ wq[n] # {}
    PROVE  cur[n] \in Part /\ NodeOf[cur[n]] = n
<1>1. cur[n] \in 1 .. End /\ cur[n] # End
    BY DEF IInv, NodesOK, NodeOK
<1>2. cur[n] \in Part
    BY <1>1, PlanAssumption DEF Part, End
<1> QED
    BY <1>2 DEF IInv, NodesOK, NodeOK

\* Every step keeps the types.
LEMMA TypeStep ==
    ASSUME IInv, [Next]_vars
    PROVE  TypeOK'
<1>0. TypeOK
    BY DEF IInv
<1>1. CASE UNCHANGED vars
    BY <1>0, <1>1 DEF TypeOK
<1>2. ASSUME NEW n \in Node, NodeStep(n) PROVE TypeOK'
    <2>1. CASE Start(n)
        <3>1. PICK q \in 1 .. End : LoadPart(n, q)
            BY <2>1 DEF Start
        <3> QED
            BY <1>0, <2>1, <3>1, LoadPartType DEF TypeOK, Start
    <2>2. CASE WaitDone(n)
        <3>1. todo' \in [Node -> SUBSET Part]
            BY <1>0, <2>2 DEF TypeOK, WaitDone
        <3> QED
            BY <1>0, <2>2, <3>1 DEF TypeOK, WaitDone
    <2>3. CASE ReadBeat(n)
        <3>1. cur[n] \in Part
            BY <2>3, RunningPart DEF ReadBeat
        <3>2. rd' \in [Node -> SUBSET Beat] /\ stale' \subseteq Part \X Beat
            BY <1>0, <2>3, <3>1 DEF TypeOK, ReadBeat
        <3> QED
            BY <1>0, <2>3, <3>2 DEF TypeOK, ReadBeat
    <2>4. CASE IssueWrite(n)
        <3>1. cur[n] \in Part
            BY <2>4, RunningPart DEF IssueWrite
        <3>2. <<cur[n], chunk>> \in Tag
            BY <1>0, <3>1 DEF TypeOK, Tag, Part
        <3>3. wq' \in [Node -> SUBSET Beat] /\ fly' \in [Node -> SUBSET (Beat \X Tag)]
            BY <1>0, <2>4, <3>2 DEF TypeOK, IssueWrite
        <3> QED
            BY <1>0, <2>4, <3>3 DEF TypeOK, IssueWrite
    <2>5. CASE PostArm(n)
        BY <1>0, <2>5 DEF TypeOK, PostArm
    <2>6. CASE PostLand(n)
        <3>1. flag' \in [Part -> 0 .. 1]
            <4>1. flag \in [Part -> 0 .. 1] /\ 1 \in 0 .. 1
                BY <1>0 DEF TypeOK
            <4>2. flag' = [flag EXCEPT ![cur[n]] = 1]
                BY <2>6 DEF PostLand
            <4> HIDE DEF Part
            <4> QED
                BY <4>1, <4>2
        <3> QED
            BY <1>0, <2>6, <3>1 DEF TypeOK, PostLand
    <2>7. CASE PostDone(n)
        <3>1. PICK q \in 1 .. End : LoadPart(n, q)
            BY <2>7 DEF PostDone
        <3> QED
            BY <1>0, <2>7, <3>1, LoadPartType DEF TypeOK, PostDone
    <2>8. CASE Halt(n)
        BY <1>0, <2>8 DEF TypeOK, Halt
    <2> QED
        BY <1>2, <2>1, <2>2, <2>3, <2>4, <2>5, <2>6, <2>7, <2>8 DEF NodeStep
<1>3. ASSUME NEW n \in Node, Land(n) PROVE TypeOK'
    <2>1. mem' \in [Beat -> Tag] /\ fly' \in [Node -> SUBSET (Beat \X Tag)]
        BY <1>0, <1>3 DEF TypeOK, Land
    <2> QED
        BY <1>0, <1>3, <2>1 DEF TypeOK, Land
<1>4. ASSUME NEW n \in Node, NodeFault(n) PROVE TypeOK'
    <2>0. err \cup {n} \subseteq Node
        BY <1>0 DEF TypeOK
    <2>1. CASE WaitFault(n)
        <3>1. todo' \in [Node -> SUBSET Part]
            BY <1>0, <2>1 DEF TypeOK, WaitFault
        <3> QED
            BY <1>0, <2>0, <2>1, <3>1 DEF TypeOK, WaitFault, Fault
    <2>2. CASE ReadFault(n)
        <3>1. cur[n] \in Part
            BY <2>2, RunningPart DEF ReadFault
        <3>2. rd' \in [Node -> SUBSET Beat] /\ stale' \subseteq Part \X Beat
            BY <1>0, <2>2, <3>1 DEF TypeOK, ReadFault
        <3> QED
            BY <1>0, <2>0, <2>2, <3>2 DEF TypeOK, ReadFault, Fault
    <2>3. CASE WriteFault(n)
        <3>1. fly' \in [Node -> SUBSET (Beat \X Tag)]
            BY <1>0, <2>3 DEF TypeOK, WriteFault
        <3> QED
            BY <1>0, <2>0, <2>3, <3>1 DEF TypeOK, WriteFault, Fault
    <2>4. CASE PostFault(n)
        BY <1>0, <2>0, <2>4 DEF TypeOK, PostFault, Fault
    <2> QED
        BY <1>4, <2>1, <2>2, <2>3, <2>4 DEF NodeFault
<1>5. CASE HostStep
    <2>1. CASE PostClear
        BY <1>0, <2>1 DEF TypeOK, PostClear
    <2>2. CASE PostInput
        BY <1>0, <2>2 DEF TypeOK, PostInput
    <2>3. CASE ClearLand
        BY <1>0, <2>3 DEF TypeOK, ClearLand
    <2>4. CASE InputLand
        <3>1. mem' \in [Beat -> Tag]
            BY <1>0, <2>4, PlanAssumption, ArrayAssumption DEF TypeOK, InputLand, Tag
        <3> QED
            BY <1>0, <2>4, <3>1 DEF TypeOK, InputLand
    <2>5. CASE ReadBarrier
        BY <1>0, <2>5 DEF TypeOK, ReadBarrier
    <2>6. CASE Go
        BY <1>0, <2>6 DEF TypeOK, Go
    <2>7. CASE PollHalted
        BY <1>0, <2>7 DEF TypeOK, PollHalted
    <2>8. CASE DumpBeat
        <3>1. got' \in [Actions -> Tag]
            BY <1>0, <2>8, ArrayAssumption DEF TypeOK, DumpBeat
        <3> QED
            BY <1>0, <2>8, <3>1 DEF TypeOK, DumpBeat
    <2>9. CASE AnswerOK
        BY <1>0, <2>9 DEF TypeOK, AnswerOK
    <2> QED
        BY <1>5, <2>1, <2>2, <2>3, <2>4, <2>5, <2>6, <2>7, <2>8, <2>9 DEF HostStep
<1>6. CASE HostOther
    <2>1. CASE Restart
        BY <1>0, <2>1, PlanAssumption DEF TypeOK, Restart, End
    <2>2. CASE Infer
        BY <1>0, <2>2, ArrayAssumption DEF TypeOK, Infer
    <2>3. CASE PollTimeout
        BY <1>0, <2>3 DEF TypeOK, PollTimeout
    <2>4. CASE HostFail
        BY <1>0, <2>4 DEF TypeOK, HostFail
    <2>5. CASE Crash
        BY <1>0, <2>5 DEF TypeOK, Crash
    <2> QED
        BY <1>6, <2>1, <2>2, <2>3, <2>4, <2>5 DEF HostOther
<1> QED
    BY <1>1, <1>2, <1>3, <1>4, <1>5, <1>6 DEF Next

-----------------------------------------------------------------------------
(***************************************************************************)
(* The nodes.                                                              *)
(***************************************************************************)
\* What no step of another node disturbs.
LEMMA NodeFrame ==
    ASSUME NodesOK, NEW m \in Node,
           st'[m] = st[m], cur'[m] = cur[m], todo'[m] = todo[m],
           rd'[m] = rd[m], wq'[m] = wq[m],
           fly'[m] \subseteq fly[m], chunk' = chunk \/ fly[m] = {},
           m \in startq' => m \in startq
    PROVE  NodeOK(m)'
    BY DEF NodesOK, NodeOK, Resting

\* A node that has just loaded its next part.
LEMMA LoadPartOK ==
    ASSUME TypeOK, NEW n \in Node, NEW p \in 0 .. End, NEW q \in 1 .. End,
           Follows(n, p, q), LoadPart(n, q),
           st'[n] = "run", n \notin startq', fly'[n] = {}
    PROVE  NodeOK(n)'
<1>1. /\ cur'[n] = q
      /\ todo'[n] = IF q = End THEN {} ELSE Waits(q)
      /\ rd'[n] = IF q = End THEN {} ELSE Reads[q]
      /\ wq'[n] = IF q = End THEN {} ELSE Writes[q]
    BY DEF LoadPart, TypeOK
<1>2. q \in Part => q # End /\ NodeOf[q] = n
    BY PlanAssumption DEF Part, End, Follows
<1>3. q # 0
    BY PlanAssumption DEF End
<1>4. q \notin Part => q = End
    BY PlanAssumption DEF Part, End
<1> QED
    BY <1>1, <1>2, <1>3, <1>4 DEF NodeOK, Resting

\* Every step keeps each node consistent with its own position.
LEMMA NodesStep ==
    ASSUME IInv, [Next]_vars
    PROVE  NodesOK'
<1>0. TypeOK /\ NodesOK /\ HostOK
    BY DEF IInv
<1> SUFFICES ASSUME NEW m \in Node PROVE NodeOK(m)'
    BY DEF NodesOK
<1>1. CASE UNCHANGED vars
    BY <1>0, <1>1, NodeFrame
<1>2. ASSUME NEW n \in Node, NodeStep(n) PROVE NodeOK(m)'
    <2>1. CASE Start(n)
        <3>1. PICK q \in 1 .. End : Follows(n, 0, q) /\ LoadPart(n, q)
            BY <2>1 DEF Start
        <3>2. CASE m = n
            <4>1. fly'[n] = {}
                BY <1>0, <2>1 DEF NodesOK, NodeOK, Start, Resting
            <4>2. st'[n] = "run" /\ n \notin startq'
                BY <1>0, <2>1 DEF Start, TypeOK
            <4>3. 0 \in 0 .. End
                BY PlanTypes
            <4> QED
                BY <1>0, <3>1, <3>2, <4>1, <4>2, <4>3, LoadPartOK
        <3>3. CASE m # n
            BY <1>0, <2>1, <3>1, <3>3, NodeFrame DEF Start, LoadPart, TypeOK
        <3> QED
            BY <3>2, <3>3
    <2>2. CASE WaitDone(n)
        <3>1. CASE m = n
            <4>1. cur[n] \in Part
                BY <2>2, RunningPart DEF WaitDone
            <4> QED
                BY <1>0, <2>2, <3>1, <4>1 DEF NodesOK, NodeOK, WaitDone, TypeOK, Resting
        <3>2. CASE m # n
            BY <1>0, <2>2, <3>2, NodeFrame DEF WaitDone, TypeOK
        <3> QED
            BY <3>1, <3>2
    <2>3. CASE ReadBeat(n)
        <3>1. CASE m = n
            <4>1. cur[n] \in Part
                BY <2>3, RunningPart DEF ReadBeat
            <4> QED
                BY <1>0, <2>3, <3>1, <4>1 DEF NodesOK, NodeOK, ReadBeat, TypeOK, Resting
        <3>2. CASE m # n
            BY <1>0, <2>3, <3>2, NodeFrame DEF ReadBeat, TypeOK
        <3> QED
            BY <3>1, <3>2
    <2>4. CASE IssueWrite(n)
        <3>1. CASE m = n
            <4>1. cur[n] \in Part
                BY <2>4, RunningPart DEF IssueWrite
            <4> QED
                BY <1>0, <2>4, <3>1, <4>1 DEF NodesOK, NodeOK, IssueWrite, TypeOK, Resting
        <3>2. CASE m # n
            BY <1>0, <2>4, <3>2, NodeFrame DEF IssueWrite, TypeOK
        <3> QED
            BY <3>1, <3>2
    <2>5. CASE PostArm(n)
        <3>1. CASE m = n
            BY <1>0, <2>5, <3>1 DEF NodesOK, NodeOK, PostArm, TypeOK, Resting
        <3>2. CASE m # n
            BY <1>0, <2>5, <3>2, NodeFrame DEF PostArm, TypeOK
        <3> QED
            BY <3>1, <3>2
    <2>6. CASE PostLand(n)
        <3>1. CASE m = n
            BY <1>0, <2>6, <3>1 DEF NodesOK, NodeOK, PostLand, TypeOK, Resting
        <3>2. CASE m # n
            BY <1>0, <2>6, <3>2, NodeFrame DEF PostLand, TypeOK
        <3> QED
            BY <3>1, <3>2
    <2>7. CASE PostDone(n)
        <3>1. PICK q \in 1 .. End : Follows(n, cur[n], q) /\ LoadPart(n, q)
            BY <2>7 DEF PostDone
        <3>2. CASE m = n
            <4>1. fly'[n] = {} /\ n \notin startq'
                BY <1>0, <2>7 DEF NodesOK, NodeOK, PostDone, Resting
            <4>2. st'[n] = "run" /\ cur[n] \in 0 .. End
                BY <1>0, <2>7 DEF PostDone, TypeOK
            <4> QED
                BY <1>0, <3>1, <3>2, <4>1, <4>2, LoadPartOK
        <3>3. CASE m # n
            BY <1>0, <2>7, <3>1, <3>3, NodeFrame DEF PostDone, LoadPart, TypeOK
        <3> QED
            BY <3>2, <3>3
    <2>8. CASE Halt(n)
        <3>1. CASE m = n
            BY <1>0, <2>8, <3>1, PlanTypes DEF NodesOK, NodeOK, Halt, TypeOK, Resting
        <3>2. CASE m # n
            BY <1>0, <2>8, <3>2, NodeFrame DEF Halt, TypeOK
        <3> QED
            BY <3>1, <3>2
    <2> QED
        BY <1>2, <2>1, <2>2, <2>3, <2>4, <2>5, <2>6, <2>7, <2>8 DEF NodeStep
<1>3. ASSUME NEW n \in Node, Land(n) PROVE NodeOK(m)'
    BY <1>0, <1>3, NodeFrame DEF Land, TypeOK
<1>4. ASSUME NEW n \in Node, NodeFault(n) PROVE NodeOK(m)'
    <2>1. CASE WaitFault(n)
        <3>1. CASE m = n
            <4>1. cur[n] \in Part
                BY <2>1, RunningPart DEF WaitFault
            <4> QED
                BY <1>0, <2>1, <3>1, <4>1 DEF NodesOK, NodeOK, WaitFault, TypeOK, Resting
        <3>2. CASE m # n
            BY <1>0, <2>1, <3>2, NodeFrame DEF WaitFault, TypeOK
        <3> QED
            BY <3>1, <3>2
    <2>2. CASE ReadFault(n)
        <3>1. CASE m = n
            <4>1. cur[n] \in Part
                BY <2>2, RunningPart DEF ReadFault
            <4> QED
                BY <1>0, <2>2, <3>1, <4>1 DEF NodesOK, NodeOK, ReadFault, TypeOK, Resting
        <3>2. CASE m # n
            BY <1>0, <2>2, <3>2, NodeFrame DEF ReadFault, TypeOK
        <3> QED
            BY <3>1, <3>2
    <2>3. CASE WriteFault(n)
        BY <1>0, <2>3, NodeFrame DEF WriteFault, TypeOK
    <2>4. CASE PostFault(n)
        <3>1. CASE m = n
            BY <1>0, <2>4, <3>1 DEF NodesOK, NodeOK, PostFault, TypeOK, Resting
        <3>2. CASE m # n
            BY <1>0, <2>4, <3>2, NodeFrame DEF PostFault, TypeOK
        <3> QED
            BY <3>1, <3>2
    <2> QED
        BY <1>4, <2>1, <2>2, <2>3, <2>4 DEF NodeFault
<1>5. CASE HostStep
    <2>1. CASE Go
        <3>1. Resting(m)
            BY <1>0, <2>1 DEF Go, HostOK, Quiet
        <3> QED
            BY <1>0, <2>1, <3>1 DEF NodesOK, NodeOK, Go, Resting
    <2>2. CASE ~ Go
        <3>1. /\ UNCHANGED <<nodeVars, fly, startq, chunk>>
            BY <1>5, <2>2 DEF HostStep, PostClear, PostInput, ClearLand, InputLand,
                              ReadBarrier, PollHalted, DumpBeat, AnswerOK
        <3> QED
            BY <1>0, <3>1, NodeFrame
    <2> QED
        BY <2>1, <2>2
<1>6. CASE HostOther
    <2>1. CASE Restart
        BY <2>1, PlanAssumption DEF Restart, NodeOK, Resting, Part, End
    <2>2. CASE Infer
        <3>1. fly[m] = {}
            BY <1>0, <2>2 DEF Infer, HostOK, Quiet, Resting, NodesOK, NodeOK
        <3> QED
            BY <1>0, <2>2, <3>1, NodeFrame DEF Infer
    <2>3. CASE PollTimeout \/ HostFail \/ Crash
        <3>1. UNCHANGED <<nodeVars, fly, startq, chunk>>
            BY <2>3 DEF PollTimeout, HostFail, Crash
        <3> QED
            BY <1>0, <3>1, NodeFrame
    <2> QED
        BY <1>6, <2>1, <2>2, <2>3 DEF HostOther
<1> QED
    BY <1>1, <1>2, <1>3, <1>4, <1>5, <1>6 DEF Next

-----------------------------------------------------------------------------
(***************************************************************************)
(* The host.                                                               *)
(***************************************************************************)
\* A node that moves is in a run: the host then polls or is gone, and has
\* nothing in flight.
LEMMA NodeMoves ==
    ASSUME IInv, NEW n \in Node, NodeStep(n) \/ Land(n) \/ NodeFault(n)
    PROVE  /\ ~ Quiet /\ InRun /\ hst \in {"poll", "down"}
           /\ clearing = {} /\ writing = {}
           /\ UNCHANGED hostVars
<1>0. TypeOK /\ NodesOK /\ HostOK
    BY DEF IInv
<1>1. n \in startq \/ ~ Resting(n)
    BY <1>0 DEF NodeStep, NodeFault, Start, WaitDone, ReadBeat, IssueWrite, PostArm, PostLand,
                PostDone, Halt, Land, WaitFault, ReadFault, WriteFault, PostFault,
                Resting, NodesOK, NodeOK
<1>2. ~ Quiet
    BY <1>1 DEF Quiet
<1>3. hst \in {"poll", "down"}
    BY <1>0, <1>2 DEF HostOK, TypeOK
<1>4. UNCHANGED hostVars
    BY DEF NodeStep, NodeFault, Start, WaitDone, ReadBeat, IssueWrite, PostArm, PostLand,
           PostDone, Halt, Land, WaitFault, ReadFault, WriteFault, PostFault
<1> QED
    BY <1>0, <1>2, <1>3, <1>4 DEF HostOK, InRun

\* Every step keeps the host bookkeeping: it is busy with flags, inputs and
\* results only while nothing runs.
LEMMA HostStays ==
    ASSUME IInv, [Next]_vars
    PROVE  HostOK'
<1>0. TypeOK /\ HostOK
    BY DEF IInv
<1>1. CASE UNCHANGED vars
    BY <1>0, <1>1 DEF HostOK, Quiet, Resting, AllHalted
<1>2. ASSUME NEW n \in Node, NodeStep(n) \/ Land(n) \/ NodeFault(n) PROVE HostOK'
    BY <1>0, <1>2, NodeMoves DEF HostOK
<1>3. CASE HostStep
    <2>1. CASE PostClear
        BY <1>0, <2>1 DEF HostOK, PostClear, Quiet, Resting
    <2>2. CASE PostInput
        BY <1>0, <2>2 DEF HostOK, PostInput, Quiet, Resting, TypeOK
    <2>3. CASE ClearLand
        BY <1>0, <2>3 DEF HostOK, ClearLand, Quiet, Resting, AllHalted
    <2>4. CASE InputLand
        BY <1>0, <2>4 DEF HostOK, InputLand, Quiet, Resting, AllHalted
    <2>5. CASE ReadBarrier
        BY <1>0, <2>5 DEF HostOK, ReadBarrier, Quiet, Resting
    <2>6. CASE Go
        BY <1>0, <2>6 DEF HostOK, Go
    <2>7. CASE PollHalted
        BY <1>0, <2>7 DEF HostOK, PollHalted, Quiet, Resting, AllHalted
    <2>8. CASE DumpBeat
        BY <1>0, <2>8 DEF HostOK, DumpBeat, Quiet, Resting, AllHalted
    <2>9. CASE AnswerOK
        BY <1>0, <2>9 DEF HostOK, AnswerOK, Quiet, Resting, AllHalted
    <2> QED
        BY <1>3, <2>1, <2>2, <2>3, <2>4, <2>5, <2>6, <2>7, <2>8, <2>9 DEF HostStep
<1>4. CASE HostOther
    <2>1. CASE Restart
        BY <1>0, <2>1 DEF HostOK, Restart, Quiet, Resting
    <2>2. CASE Infer
        BY <1>0, <2>2 DEF HostOK, Infer, Quiet, Resting, TypeOK
    <2>3. CASE PollTimeout
        BY <1>0, <2>3 DEF HostOK, PollTimeout, Quiet, Resting
    <2>4. CASE HostFail
        BY <1>0, <2>4 DEF HostOK, HostFail, Quiet, Resting
    <2>5. CASE Crash
        BY <1>0, <2>5 DEF HostOK, Crash, Quiet, Resting
    <2> QED
        BY <1>4, <2>1, <2>2, <2>3, <2>4, <2>5 DEF HostOther
<1> QED
    BY <1>1, <1>2, <1>3, <1>4 DEF Next

\* Flags that are cleared and inputs that are written stay so until the start.
LEMMA PreparedStays ==
    ASSUME IInv, [Next]_vars
    PROVE  PreparedOK'
<1>0. TypeOK /\ HostOK /\ PreparedOK
    BY DEF IInv
<1>1. CASE UNCHANGED vars
    BY <1>0, <1>1 DEF PreparedOK
<1>2. ASSUME NEW n \in Node, NodeStep(n) \/ Land(n) \/ NodeFault(n) PROVE PreparedOK'
    BY <1>2, NodeMoves DEF PreparedOK
<1>3. CASE HostStep
    <2>1. CASE PostClear
        BY <1>0, <2>1 DEF PreparedOK, PostClear
    <2>2. CASE PostInput
        BY <1>0, <2>2 DEF PreparedOK, PostInput
    <2>3. CASE ClearLand
        <3>1. PICK p \in clearing : clearing' = clearing \ {p} /\ flag' = [flag EXCEPT ![p] = 0]
            BY <2>3 DEF ClearLand
        <3>2. \A q \in Part : flag'[q] = IF q = p THEN 0 ELSE flag[q]
            BY <1>0, <3>1 DEF TypeOK
        <3>3. hst' = hst /\ toClear' = toClear /\ toWrite' = toWrite /\ writing' = writing
              /\ mem' = mem /\ chunk' = chunk
            BY <2>3 DEF ClearLand
        <3> QED
            BY <1>0, <3>1, <3>2, <3>3 DEF PreparedOK
    <2>4. CASE InputLand
        <3>1. PICK w \in writing :
                /\ \A v \in writing : v[1] = w[1] => w[2] <= v[2]
                /\ writing' = writing \ {w}
                /\ mem' = [mem EXCEPT ![w[1]] = <<0, w[2]>>]
            BY <2>4 DEF InputLand
        <3>2. /\ hst' = hst /\ toClear' = toClear /\ toWrite' = toWrite
              /\ clearing' = clearing /\ flag' = flag /\ chunk' = chunk
            BY <2>4 DEF InputLand
        <3>3. hst # "go"
            BY <1>0, <3>1 DEF HostOK
        <3>4. ASSUME hst = "write", NEW a \in Input \ toWrite
              PROVE  \/ <<a, chunk>> \in writing'
                     \/ mem'[a] = <<0, chunk>> /\ \A v \in writing' : v[1] # a
            <4>1. CASE w[1] # a
                BY <1>0, <3>1, <3>4, <4>1 DEF PreparedOK, TypeOK
            <4>2. CASE w[1] = a
                <5>1. <<a, chunk>> \in writing
                    BY <1>0, <3>4, <4>2 DEF PreparedOK
                <5>2. CASE w = <<a, chunk>>
                    <6>1. \A v \in writing : v[1] = a => v = w
                        BY <1>0, <3>1, <5>2 DEF HostOK, TypeOK
                    <6>2. mem'[a] = <<0, chunk>>
                        BY <1>0, <3>1, <5>2, ArrayAssumption DEF TypeOK
                    <6> QED
                        BY <3>1, <6>1, <6>2
                <5>3. CASE w # <<a, chunk>>
                    BY <3>1, <5>1, <5>3
                <5> QED
                    BY <5>2, <5>3
            <4> QED
                BY <4>1, <4>2
        <3> QED
            BY <1>0, <3>2, <3>3, <3>4 DEF PreparedOK
    <2>5. CASE ReadBarrier
        BY <1>0, <2>5 DEF PreparedOK, ReadBarrier
    <2>6. CASE Go \/ PollHalted \/ AnswerOK \/ DumpBeat
        BY <1>0, <2>6 DEF PreparedOK, Go, PollHalted, AnswerOK, DumpBeat
    <2> QED
        BY <1>3, <2>1, <2>2, <2>3, <2>4, <2>5, <2>6 DEF HostStep
<1>4. CASE HostOther
    BY <1>0, <1>4 DEF PreparedOK, HostOther, Restart, Infer, PollTimeout, HostFail, Crash
<1> QED
    BY <1>1, <1>2, <1>3, <1>4 DEF Next

\* No step writes a beat of the image.
LEMMA ImageStays ==
    ASSUME IInv, [Next]_vars
    PROVE  ImageOK'
<1>0. TypeOK /\ NodesOK /\ ImageOK
    BY DEF IInv
<1> SUFFICES ASSUME NEW a \in Beat \ Input, \A p \in Part : a \notin Writes[p],
                    mem[a] = <<0, 0>>
             PROVE  mem'[a] = <<0, 0>>
    BY <1>0 DEF ImageOK
<1>1. CASE mem' = mem
    BY <1>1
<1>2. ASSUME NEW n \in Node, Land(n) PROVE mem'[a] = <<0, 0>>
    <2>1. PICK w \in fly[n] : mem' = [mem EXCEPT ![w[1]] = w[2]]
        BY <1>2 DEF Land
    <2>2. w[1] # a
        BY <1>0, <2>1 DEF NodesOK, NodeOK
    <2> QED
        BY <1>0, <2>1, <2>2 DEF TypeOK
<1>3. CASE InputLand
    <2>1. PICK w \in writing : mem' = [mem EXCEPT ![w[1]] = <<0, w[2]>>]
        BY <1>3 DEF InputLand
    <2>2. w[1] # a
        BY <1>0, <2>1 DEF TypeOK
    <2> QED
        BY <1>0, <2>1, <2>2 DEF TypeOK
<1>4. mem' = mem \/ InputLand \/ \E n \in Node : Land(n)
    BY DEF Next, NodeStep, NodeFault, HostStep, HostOther,
           Start, WaitDone, ReadBeat, IssueWrite, PostArm, PostLand, PostDone, Halt,
           WaitFault, ReadFault, WriteFault, PostFault,
           PostClear, PostInput, ClearLand, ReadBarrier, Go, PollHalted, DumpBeat, AnswerOK,
           Restart, Infer, PollTimeout, HostFail, Crash
<1> QED
    BY <1>1, <1>2, <1>3, <1>4


-----------------------------------------------------------------------------
(***************************************************************************)
(* A run: how a step of node n moves the positions.                        *)
(***************************************************************************)
\* Only POSTs make parts posted, and flags say the same.
LEMMA PostedStep ==
    ASSUME IInv, NEW n \in Node, NodeStep(n) \/ Land(n), NEW p \in Part
    PROVE  /\ HasPosted(p)' <=> HasPosted(p) \/ (PostLand(n) /\ p = cur[n])
           /\ flag'[p] = 1 <=> flag[p] = 1 \/ (PostLand(n) /\ p = cur[n])
<1>0. TypeOK /\ NodesOK /\ NodeOf[p] \in Node
    BY PlanTypes DEF IInv
<1>1. CASE Start(n)
    <2>1. PICK q \in 1 .. End : Follows(n, 0, q) /\ LoadPart(n, q)
        BY <1>1 DEF Start
    <2>2. cur'[n] = q /\ st'[n] = "run" /\ n \notin startq' /\ n \in startq /\ flag' = flag
        BY <1>0, <1>1, <2>1 DEF TypeOK, LoadPart, Start
    <2>3. NodeOf[p] = n => q <= p
        BY <2>1, PlanTypes DEF Follows, Part
    <2>4. NodeOf[p] # n => (HasPosted(p)' <=> HasPosted(p))
        BY <1>0, <1>1, <2>1 DEF HasPosted, Start, LoadPart, TypeOK
    <2>5. NodeOf[p] = n => ~ HasPosted(p) /\ ~ HasPosted(p)'
        BY <2>2, <2>3, PlanTypes DEF HasPosted, Part
    <2>6. ~ PostLand(n)
        BY <1>0, <2>2 DEF PostLand, NodesOK, NodeOK, Resting
    <2> QED
        BY <2>2, <2>4, <2>5, <2>6
<1>2. CASE PostDone(n)
    <2>1. PICK q \in 1 .. End : Follows(n, cur[n], q) /\ LoadPart(n, q)
        BY <1>2 DEF PostDone
    <2>2. /\ cur'[n] = q /\ st'[n] = "run" /\ startq' = startq /\ flag' = flag
          /\ cur[n] \in Part /\ n \notin startq /\ st[n] = "posted"
        BY <1>0, <1>2, <2>1 DEF TypeOK, LoadPart, PostDone, NodesOK, NodeOK, Resting
    <2>3. NodeOf[p] = n => (p < q <=> p <= cur[n])
        BY <2>1, <2>2, PlanTypes DEF Follows, Part
    <2>4. NodeOf[p] # n => (HasPosted(p)' <=> HasPosted(p))
        BY <1>0, <1>2, <2>1 DEF HasPosted, PostDone, LoadPart, TypeOK
    <2>5. NodeOf[p] = n => (HasPosted(p)' <=> HasPosted(p))
        BY <2>2, <2>3, PlanTypes DEF HasPosted, Part
    <2>6. ~ PostLand(n)
        BY <2>2 DEF PostLand
    <2> QED
        BY <2>2, <2>4, <2>5, <2>6
<1>3. CASE PostLand(n)
    <2>1. cur[n] \in Part /\ n \notin startq
        BY <1>0, <1>3 DEF PostLand, NodesOK, NodeOK, Resting
    <2>2. flag'[p] = IF p = cur[n] THEN 1 ELSE flag[p]
        BY <1>0, <1>3, <2>1 DEF PostLand, TypeOK
    <2>3. NodeOf[cur[n]] = n
        BY <1>0, <2>1 DEF NodesOK, NodeOK
    <2>4. HasPosted(p)' <=> HasPosted(p) \/ p = cur[n]
        BY <1>0, <1>3, <2>1, <2>3 DEF PostLand, HasPosted, TypeOK
    <2> QED
        BY <1>3, <2>2, <2>4
<1>4. CASE WaitDone(n) \/ ReadBeat(n) \/ IssueWrite(n) \/ PostArm(n) \/ Halt(n) \/ Land(n)
    <2>1. cur' = cur /\ startq' = startq /\ flag' = flag
        BY <1>4 DEF WaitDone, ReadBeat, IssueWrite, PostArm, Halt, Land
    <2>2. \A m \in Node : st'[m] = "posted" <=> st[m] = "posted"
        BY <1>0, <1>4 DEF WaitDone, ReadBeat, IssueWrite, PostArm, Halt, Land, TypeOK
    <2>3. ~ PostLand(n)
        BY <1>0, <1>4 DEF WaitDone, ReadBeat, IssueWrite, PostArm, Halt, Land, PostLand,
                          NodesOK, NodeOK
    <2> QED
        BY <1>0, <2>1, <2>2, <2>3 DEF HasPosted
<1> QED
    BY <1>1, <1>2, <1>3, <1>4 DEF NodeStep

\* What has posted now had begun before this step.
LEMMA PostedHadBegun ==
    ASSUME IInv, NEW n \in Node, NodeStep(n) \/ Land(n), NEW p \in Part, HasPosted(p)'
    PROVE  HasBegun(p)
<1>0. TypeOK /\ NodesOK /\ NodeOf[p] \in Node
    BY PlanTypes DEF IInv
<1>1. CASE HasPosted(p)
    BY <1>0, <1>1 DEF HasPosted, HasBegun, NodesOK, NodeOK
<1>2. CASE PostLand(n) /\ p = cur[n]
    BY <1>0, <1>2 DEF PostLand, HasBegun, NodesOK, NodeOK, Resting
<1> QED
    BY <1>1, <1>2, PostedStep

\* A part begins in this step only as the current part of n, its WAITs done.
LEMMA BegunStep ==
    ASSUME IInv, NEW n \in Node, NodeStep(n) \/ Land(n), NEW p \in Part, HasBegun(p)'
    PROVE  \/ HasBegun(p)
           \/ NodeOf[p] = n /\ n \notin startq' /\ cur'[n] = p /\ todo'[n] = {}
<1>0. TypeOK /\ NodesOK /\ NodeOf[p] \in Node
    BY PlanTypes DEF IInv
<1>1. CASE NodeOf[p] # n
    BY <1>0, <1>1 DEF HasBegun, NodeStep, Start, LoadPart, WaitDone, ReadBeat, IssueWrite, PostArm,
                      PostLand, PostDone, Halt, Land, TypeOK
<1>2. CASE NodeOf[p] = n /\ p < cur'[n]
    <2>1. CASE Start(n)
        <3>1. PICK q \in 1 .. End : Follows(n, 0, q) /\ LoadPart(n, q)
            BY <2>1 DEF Start
        <3>2. cur'[n] = q
            BY <1>0, <3>1 DEF TypeOK, LoadPart
        <3>3. p < q => NodeOf[p] # n
            BY <3>1, PlanTypes DEF Follows, Part
        <3> QED
            BY <1>2, <3>2, <3>3
    <2>2. CASE PostDone(n)
        <3>1. PICK q \in 1 .. End : Follows(n, cur[n], q) /\ LoadPart(n, q)
            BY <2>2 DEF PostDone
        <3>2. cur'[n] = q
            BY <1>0, <3>1 DEF TypeOK, LoadPart
        <3>3. p <= cur[n]
            <4>1. cur[n] \in Nat /\ q \in Nat
                BY <1>0, PlanTypes DEF TypeOK
            <4> QED
                BY <1>2, <3>1, <3>2, <4>1, FollowsMeans
        <3>4. todo[n] = {} /\ n \notin startq
            BY <1>0, <2>2 DEF PostDone, NodesOK, NodeOK, Resting
        <3>5. p < cur[n] \/ p = cur[n]
            BY <1>0, <3>3 DEF TypeOK, Part
        <3> QED
            BY <1>2, <3>4, <3>5 DEF HasBegun
    <2>3. CASE ~ Start(n) /\ ~ PostDone(n)
        <3>1. cur' = cur /\ startq' = startq
            BY <2>3 DEF NodeStep, WaitDone, ReadBeat, IssueWrite, PostArm, PostLand, Halt, Land
        <3> QED
            BY <1>2, <3>1 DEF HasBegun
    <2> QED
        BY <2>1, <2>2, <2>3
<1> QED
    BY <1>1, <1>2 DEF HasBegun

\* Only a write that lands adds to what has landed.
LEMMA LandedStep ==
    ASSUME IInv, NEW n \in Node, NodeStep(n), NEW p \in Part, NEW a
    PROVE  HasLanded(p, a)' <=> HasLanded(p, a)
<1>0. TypeOK /\ NodesOK /\ NodeOf[p] \in Node
    BY PlanTypes DEF IInv
<1>1. CASE NodeOf[p] # n
    BY <1>0, <1>1 DEF HasLanded, NodeStep, Start, LoadPart, WaitDone, ReadBeat, IssueWrite, PostArm,
                      PostLand, PostDone, Halt, TypeOK
<1>2. CASE NodeOf[p] = n
    <2>1. CASE Start(n)
        <3>1. PICK q \in 1 .. End : Follows(n, 0, q) /\ LoadPart(n, q)
            BY <2>1 DEF Start
        <3>2. cur'[n] = q /\ (q # End => wq'[n] = Writes[q])
            BY <1>0, <3>1 DEF TypeOK, LoadPart
        <3>3. p < q => NodeOf[p] # n
            BY <3>1, PlanTypes DEF Follows, Part
        <3>4. p = q => wq'[n] = Writes[p]
            BY <3>2, PlanTypes
        <3> QED
            BY <1>2, <2>1, <3>2, <3>3, <3>4 DEF HasLanded, Start
    <2>2. CASE WaitDone(n)
        <3>1. wq[n] = Writes[cur[n]]
            BY <1>0, <2>2, RunningPart DEF WaitDone, NodesOK, NodeOK
        <3> QED
            BY <1>0, <1>2, <2>2, <3>1 DEF HasLanded, WaitDone
    <2>3. CASE ReadBeat(n)
        BY <2>3 DEF HasLanded, ReadBeat
    <2>4. CASE IssueWrite(n)
        <3>1. PICK b \in wq[n] \ rd[n] :
                /\ wq' = [wq EXCEPT ![n] = @ \ {b}]
                /\ fly' = [fly EXCEPT ![n] = @ \cup {<<b, <<cur[n], chunk>>>>}]
            BY <2>4 DEF IssueWrite
        <3>2. wq'[n] = wq[n] \ {b} /\ fly'[n] = fly[n] \cup {<<b, <<cur[n], chunk>>>>}
            BY <1>0, <3>1 DEF TypeOK
        <3>3. (a \notin wq[n] /\ \A w \in fly[n] : w[1] # a)
                <=> (a \notin wq'[n] /\ \A w \in fly'[n] : w[1] # a)
            <4>1. CASE a = b
                <5> DEFINE v == <<b, <<cur[n], chunk>>>>
                <5>1. v \in fly'[n] /\ v[1] = a
                    BY <3>2, <4>1
                <5>2. a \in wq[n]
                    BY <3>1, <4>1
                <5> HIDE DEF v
                <5> QED
                    BY <5>1, <5>2
            <4>2. CASE a # b
                <5> DEFINE v == <<b, <<cur[n], chunk>>>>
                <5>1. v[1] # a /\ fly'[n] = fly[n] \cup {v}
                    BY <3>2, <4>2
                <5>2. a \notin wq'[n] <=> a \notin wq[n]
                    BY <3>2, <4>2
                <5> HIDE DEF v
                <5> QED
                    BY <5>1, <5>2
            <4> QED
                BY <4>1, <4>2
        <3> QED
            BY <1>2, <2>4, <3>3 DEF HasLanded, IssueWrite
    <2>5. CASE PostArm(n) \/ PostLand(n) \/ Halt(n)
        BY <2>5 DEF HasLanded, PostArm, PostLand, Halt
    <2>6. CASE PostDone(n)
        <3>1. PICK q \in 1 .. End : Follows(n, cur[n], q) /\ LoadPart(n, q)
            BY <2>6 DEF PostDone
        <3>2. /\ cur'[n] = q /\ (q # End => wq'[n] = Writes[q])
              /\ cur[n] \in Part /\ n \notin startq /\ n \notin startq'
              /\ todo[n] = {} /\ wq[n] = {} /\ fly[n] = {}
            BY <1>0, <2>6, <3>1 DEF TypeOK, LoadPart, PostDone, NodesOK, NodeOK, Resting
        <3>3. p < q <=> p <= cur[n]
            <4>1. cur[n] \in Nat /\ q \in Nat
                BY <3>2, PartsAreNumbers
            <4> QED
                BY <1>2, <3>1, <4>1, FollowsMeans
        <3>4. p = q => wq'[n] = Writes[p]
            BY <3>2, PlanTypes
        <3>5. p <= cur[n] <=> p < cur[n] \/ p = cur[n]
            <4>1. p \in Nat /\ cur[n] \in Nat
                BY <3>2, PartsAreNumbers
            <4> QED
                BY <4>1
        <3>6. HasLanded(p, a) <=> a \in Writes[p] /\ p <= cur[n]
            BY <1>2, <3>2, <3>5 DEF HasLanded
        <3>7. HasLanded(p, a)' <=> a \in Writes[p] /\ p < q
            BY <1>2, <3>2, <3>4 DEF HasLanded
        <3> QED
            BY <3>3, <3>6, <3>7
    <2> QED
        BY <2>1, <2>2, <2>3, <2>4, <2>5, <2>6 DEF NodeStep
<1> QED
    BY <1>1, <1>2

\* What a part that has posted wrote is in the memory.
LEMMA PostedLanded ==
    ASSUME IInv, NEW p \in Part, HasPosted(p), NEW a \in Writes[p]
    PROVE  HasLanded(p, a)
<1>1. NodeOf[p] \in Node /\ NodesOK
    BY PlanTypes DEF IInv
<1> QED
    BY <1>1 DEF HasPosted, HasLanded, NodesOK, NodeOK

\* A part whose write has landed has begun.
LEMMA LandedBegun ==
    ASSUME NEW p \in Part, NEW a, HasLanded(p, a)
    PROVE  HasBegun(p)
    BY DEF HasLanded, HasBegun

-----------------------------------------------------------------------------
(***************************************************************************)
(* A run: flags, WAITs, order and memory.                                  *)
(***************************************************************************)
LEMMA FlagsStep ==
    ASSUME IInv, err = {}, NEW n \in Node, NodeStep(n) \/ Land(n)
    PROVE  FlagsOK'
<1>1. \A p \in Part : flag[p] = 1 <=> HasPosted(p)
    BY NodeMoves DEF IInv, CleanRunOK, FlagsOK
<1>2. \A p \in Part : flag'[p] = 1 <=> HasPosted(p)'
    BY <1>1, PostedStep
<1> QED
    BY <1>2 DEF FlagsOK

\* A WAIT is ticked off only for a part that has posted.
LEMMA WaitsStep ==
    ASSUME IInv, err = {}, NEW n \in Node, NodeStep(n) \/ Land(n)
    PROVE  WaitsOK'
<1>0. TypeOK /\ FlagsOK /\ WaitsOK /\ InRun
    BY NodeMoves DEF IInv, CleanRunOK
<1> SUFFICES ASSUME NEW m \in Node, m \notin startq', cur'[m] \in Part,
                    NEW w \in Waits(cur'[m]) \ todo'[m]
             PROVE  HasPosted(w)'
    BY DEF WaitsOK
<1>1. w \in Part
    BY PlanTypes
<1>2. SUFFICES HasPosted(w)
    BY <1>1, PostedStep
<1>3. CASE Start(n) \/ PostDone(n)
    <2>1. PICK q \in 1 .. End : LoadPart(n, q)
        BY <1>3 DEF Start, PostDone
    <2>2. m # n
        BY <1>0, <2>1, PlanTypes DEF LoadPart, TypeOK
    <2> QED
        BY <1>0, <1>3, <2>1, <2>2 DEF WaitsOK, Start, PostDone, LoadPart, TypeOK
<1>4. CASE WaitDone(n)
    <2>1. PICK u \in todo[n] : flag[u] >= 1 /\ todo' = [todo EXCEPT ![n] = @ \ {u}]
        BY <1>4 DEF WaitDone
    <2>2. u \in Part /\ flag[u] = 1
        BY <1>0, <2>1 DEF TypeOK
    <2>3. HasPosted(u)
        BY <1>0, <2>2 DEF FlagsOK
    <2>4. w # u => w \notin todo[m]
        BY <1>0, <2>1 DEF TypeOK
    <2>5. cur' = cur /\ startq' = startq
        BY <1>4 DEF WaitDone
    <2> QED
        BY <1>0, <2>3, <2>4, <2>5 DEF WaitsOK
<1>5. CASE ~ Start(n) /\ ~ PostDone(n) /\ ~ WaitDone(n)
    <2>1. cur' = cur /\ startq' = startq /\ todo' = todo
        BY <1>5 DEF NodeStep, ReadBeat, IssueWrite, PostArm, PostLand, Halt, Land
    <2> QED
        BY <1>0, <2>1 DEF WaitsOK
<1> QED
    BY <1>3, <1>4, <1>5

\* A part begins only when everything ordered before it has posted: its own
\* node went there in order, or a WAIT of it was satisfied.
LEMMA OrderStep ==
    ASSUME IInv, err = {}, NEW n \in Node, NodeStep(n) \/ Land(n)
    PROVE  OrderOK'
<1>0. (OrderOK /\ InRun /\ InRun' /\ WaitsOK') \/ ~ InRun'
    BY NodeMoves, WaitsStep DEF IInv, CleanRunOK
<1> SUFFICES ASSUME InRun', NEW p \in Part, NEW q \in Part, Before(p, q), HasBegun(q)'
             PROVE  HasPosted(p)'
    BY DEF OrderOK, Before
<1>1. CASE HasBegun(q)
    BY <1>0, <1>1, PostedStep DEF OrderOK
<1>2. CASE NodeOf[q] = n /\ n \notin startq' /\ cur'[n] = q /\ todo'[n] = {}
    <2>1. PICK r \in Part : Holds(r, q) /\ (p = r \/ Before(p, r))
        BY BeforeStep
    <2>2. HasPosted(r)'
        BY <1>0, <1>2, <2>1 DEF Holds, WaitsOK, HasPosted
    <2>3. CASE p = r
        BY <2>2, <2>3
    <2>4. CASE Before(p, r)
        BY <1>0, <2>2, <2>4, PostedHadBegun, PostedStep DEF OrderOK
    <2> QED
        BY <2>1, <2>3, <2>4
<1> QED
    BY <1>1, <1>2, BegunStep

\* A write that lands is the latest of its beat: every earlier writer has
\* posted, and no later one has begun.
LEMMA MemoryStep ==
    ASSUME IInv, err = {}, NEW n \in Node, NodeStep(n) \/ Land(n)
    PROVE  MemoryOK'
<1>0. TypeOK /\ NodesOK /\ OrderOK /\ MemoryOK /\ InRun /\ chunk' = chunk
    BY NodeMoves DEF IInv, CleanRunOK
<1> SUFFICES ASSUME NEW a \in Beat PROVE BeatOK(a)'
    BY DEF MemoryOK
<1>1. BeatOK(a)
    BY <1>0 DEF MemoryOK
<1>2. CASE NodeStep(n)
    <2>1. mem' = mem
        BY <1>2 DEF NodeStep, Start, WaitDone, ReadBeat, IssueWrite, PostArm, PostLand, PostDone, Halt
    <2>2. \A p \in Part : HasLanded(p, a)' <=> HasLanded(p, a)
        BY <1>2, LandedStep
    <2> QED
        BY <1>0, <1>1, <2>1, <2>2 DEF BeatOK
<1>3. CASE Land(n)
    <2>1. PICK w \in fly[n] : /\ mem' = [mem EXCEPT ![w[1]] = w[2]]
                              /\ fly' = [fly EXCEPT ![n] = @ \ {w}]
        BY <1>3 DEF Land
    <2> DEFINE p0 == cur[n]
    <2>2. /\ p0 \in Part /\ NodeOf[p0] = n /\ n \notin startq /\ st[n] = "run"
          /\ todo[n] = {} /\ w[2] = <<p0, chunk>> /\ w[1] \in Writes[p0] /\ w[1] \notin wq[n]
        BY <1>0, <2>1 DEF NodesOK, NodeOK, Resting
    <2>3. /\ UNCHANGED <<nodeVars, startq>>
          /\ fly'[n] = fly[n] \ {w}
          /\ \A m \in Node : m # n => fly'[m] = fly[m]
        BY <1>0, <1>3, <2>1 DEF Land, TypeOK
    <2>4. \A v \in fly[n] : v[1] = w[1] => v = w
        BY <1>0, <2>1, <2>2 DEF NodesOK, NodeOK, TypeOK
    <2>5. CASE a # w[1]
        <3>1. mem'[a] = mem[a]
            BY <1>0, <2>1, <2>5 DEF TypeOK
        <3>2. (\A v \in fly'[n] : v[1] # a) <=> (\A v \in fly[n] : v[1] # a)
            BY <2>3, <2>5
        <3>3. ASSUME NEW p \in Part PROVE HasLanded(p, a)' <=> HasLanded(p, a)
            BY <2>3, <3>2, PlanTypes DEF HasLanded
        <3> QED
            BY <1>0, <1>1, <3>1, <3>3 DEF BeatOK
    <2>6. CASE a = w[1]
        <3>1. mem'[a] = <<p0, chunk'>>
            BY <1>0, <2>1, <2>2, <2>6 DEF TypeOK
        <3>2. HasLanded(p0, a)'
            <4>1. \A v \in fly'[n] : v[1] # a
                BY <2>3, <2>4, <2>6
            <4> QED
                BY <2>2, <2>3, <2>6, <4>1 DEF HasLanded
        <3>3. ASSUME NEW r \in Part, HasLanded(r, a)', p0 < r PROVE FALSE
            <4>1. r # p0
                BY <3>3, PartsAreNumbers
            <4>2. HasLanded(r, a)
                <5>1. CASE NodeOf[r] = n
                    BY <2>2, <2>3, <3>3, <4>1, <5>1 DEF HasLanded
                <5>2. CASE NodeOf[r] # n
                    BY <2>3, <3>3, <5>2, PlanTypes DEF HasLanded
                <5> QED
                    BY <5>1, <5>2
            <4>3. Before(p0, r)
                <5>1. Conflict(p0, r)
                    BY <2>2, <2>6, <3>3 DEF Conflict, HasLanded
                <5> QED
                    BY <2>2, <3>3, <5>1, ConflictsOrdered
            <4>4. HasPosted(p0)
                BY <1>0, <2>2, <4>2, <4>3, LandedBegun DEF OrderOK
            <4> QED
                BY <2>2, <4>4, PartsAreNumbers DEF HasPosted
        <3>4. ASSUME NEW r \in Part, HasLanded(r, a)' PROVE r <= p0
            BY <2>2, <3>3, <3>4, PartsAreNumbers
        <3> QED
            BY <2>2, <2>3, <3>1, <3>2, <3>4 DEF BeatOK
    <2> QED
        BY <2>5, <2>6
<1> QED
    BY <1>2, <1>3

\* The read of a beat by the part a node is at, before that part posts.
LEMMA ReadIsRight ==
    ASSUME IInv, err = {}, InRun, NEW n \in Node, st[n] = "run", todo[n] = {},
           NEW a \in rd[n]
    PROVE  Right(cur[n], a, mem[a], chunk)
<1> DEFINE q == cur[n]
<1>0. TypeOK /\ NodesOK /\ OrderOK /\ MemoryOK /\ ImageOK
    BY DEF IInv, CleanRunOK
<1>1. q \in Part /\ NodeOf[q] = n
    BY RunningPart
<1>2. n \notin startq /\ a \in Reads[q] /\ (a \in Writes[q] => a \in wq[n]) /\ a \in Beat
    BY <1>0, <1>1, PlanTypes DEF NodesOK, NodeOK, Resting
<1>3. HasBegun(q) /\ ~ HasPosted(q)
    BY <1>1, <1>2, PartsAreNumbers DEF HasBegun, HasPosted
<1>4. ASSUME NEW p \in Part, p < q, a \in Writes[p] PROVE HasLanded(p, a)
    <2>1. Before(p, q)
        BY <1>1, <1>2, <1>4, ConflictsOrdered DEF Conflict
    <2> QED
        BY <1>0, <1>1, <1>3, <1>4, <2>1, PostedLanded DEF OrderOK
<1>5. ASSUME NEW r \in Part, HasLanded(r, a) PROVE r < q
    <2>1. r # q
        BY <1>1, <1>2, <1>5, PartsAreNumbers DEF HasLanded
    <2>2. ASSUME q < r PROVE FALSE
        <3>1. Before(q, r)
            BY <1>1, <1>2, <1>5, <2>2, ConflictsOrdered DEF Conflict, HasLanded
        <3> QED
            BY <1>0, <1>1, <1>3, <1>5, <3>1, LandedBegun DEF OrderOK
    <2> QED
        BY <1>1, <2>1, <2>2, PartsAreNumbers
<1>6. BeatOK(a)
    BY <1>0, <1>2 DEF MemoryOK
<1>7. CASE \E p \in Part : /\ HasLanded(p, a) /\ mem[a] = <<p, chunk>>
                           /\ \A r \in Part : HasLanded(r, a) => r <= p
    BY <1>4, <1>5, <1>7 DEF Right, IsSource, HasLanded
<1>8. CASE (\A r \in Part : ~ HasLanded(r, a)) /\ (a \in Input => mem[a] = <<0, chunk>>)
    <2>1. \A p \in Part : p < q => a \notin Writes[p]
        BY <1>4, <1>8
    <2>2. a \notin Input => mem[a] = <<0, 0>>
        BY <1>0, <1>1, <1>2, <2>1, ImageAssumption DEF ImageOK
    <2> QED
        BY <1>8, <2>1, <2>2 DEF Right
<1> QED
    BY <1>6, <1>7, <1>8 DEF BeatOK

\* Reading back once all have halted.
LEMMA DumpIsRight ==
    ASSUME IInv, hst = "dump", NEW a \in Actions
    PROVE  Right(End, a, mem[a], chunk)
<1>0. /\ TypeOK /\ NodesOK /\ MemoryOK /\ ImageOK /\ HostOK
      /\ InRun /\ a \in Beat
    BY ArrayAssumption DEF IInv, CleanRunOK, HostOK, InRun
<1>1. ASSUME NEW p \in Part PROVE HasPosted(p) /\ p < End
    BY <1>0, PartsAreNumbers, PlanTypes DEF HasPosted, HostOK, Quiet, AllHalted, NodesOK, NodeOK
<1>2. ASSUME NEW p \in Part, a \in Writes[p] PROVE HasLanded(p, a)
    BY <1>1, <1>2, PostedLanded
<1>3. BeatOK(a)
    BY <1>0 DEF MemoryOK
<1>4. CASE \E p \in Part : /\ HasLanded(p, a) /\ mem[a] = <<p, chunk>>
                           /\ \A r \in Part : HasLanded(r, a) => r <= p
    BY <1>1, <1>2, <1>4 DEF Right, IsSource, HasLanded
<1>5. CASE (\A r \in Part : ~ HasLanded(r, a)) /\ (a \in Input => mem[a] = <<0, chunk>>)
    <2>1. \A p \in Part : a \notin Writes[p]
        BY <1>2, <1>5
    <2>2. a \notin Input => mem[a] = <<0, 0>>
        BY <1>0, <2>1 DEF ImageOK
    <2> QED
        BY <1>5, <2>1, <2>2 DEF Right
<1> QED
    BY <1>3, <1>4, <1>5 DEF BeatOK

\* The host between the start and the answer leaves a run as it is.
LEMMA HostKeepsRun ==
    ASSUME IInv, HostStep \/ HostOther, ~ Go, ~ Restart, InRun'
    PROVE  InRun /\ UNCHANGED <<nodeVars, fly, startq, flag, mem, chunk>>
<1>0. HostOK /\ TypeOK
    BY DEF IInv
<1>1. CASE PostClear \/ PostInput \/ ReadBarrier \/ Infer \/ AnswerOK \/ HostFail
    BY <1>0, <1>1 DEF PostClear, PostInput, ReadBarrier, Infer, AnswerOK, HostFail, InRun, HostOK
<1>2. CASE ClearLand
    BY <1>0, <1>2 DEF ClearLand, InRun, HostOK, Quiet, Resting
<1>3. CASE InputLand
    BY <1>0, <1>3 DEF InputLand, InRun, HostOK, Quiet, Resting
<1>4. CASE PollHalted \/ PollTimeout \/ DumpBeat
    BY <1>0, <1>4 DEF PollHalted, PollTimeout, DumpBeat, InRun
<1>5. CASE Crash
    <2>1. UNCHANGED <<nodeVars, fly, startq, flag, mem, chunk>> /\ hst' = "down" /\ hst # "down"
        BY <1>5 DEF Crash
    <2>2. ~ Quiet
        BY <2>1 DEF InRun, Quiet, Resting
    <2>3. hst = "poll"
        BY <1>0, <2>1, <2>2 DEF HostOK, TypeOK
    <2> QED
        BY <2>1, <2>3 DEF InRun
<1> QED
    BY <1>1, <1>2, <1>3, <1>4, <1>5 DEF HostStep, HostOther

\* A step that touches neither nodes nor flags nor memory keeps the facts
\* about the run.
LEMMA RunFrame ==
    ASSUME UNCHANGED <<nodeVars, fly, startq, flag, mem, chunk>>,
           FlagsOK, WaitsOK, OrderOK, MemoryOK, InRun' => InRun
    PROVE  FlagsOK' /\ WaitsOK' /\ OrderOK' /\ MemoryOK'
<1>1. \A p \in Part : (HasPosted(p)' <=> HasPosted(p)) /\ (HasBegun(p)' <=> HasBegun(p))
    BY DEF HasPosted, HasBegun
<1>2. \A p \in Part, a \in Beat : HasLanded(p, a)' <=> HasLanded(p, a)
    BY DEF HasLanded
<1>3. FlagsOK'
    BY <1>1 DEF FlagsOK
<1>4. WaitsOK'
    BY <1>1, PlanTypes DEF WaitsOK
<1>5. OrderOK'
    BY <1>1 DEF OrderOK, Before
<1>6. MemoryOK'
    BY <1>2 DEF MemoryOK, BeatOK
<1> QED
    BY <1>3, <1>4, <1>5, <1>6

\* The facts about an error-free run are inductive.
LEMMA CleanRunStep ==
    ASSUME IInv, [Next]_vars
    PROVE  CleanRunOK'
<1>0. TypeOK /\ NodesOK /\ HostOK /\ PreparedOK /\ CleanRunOK
    BY DEF IInv
<1> SUFFICES ASSUME err' = {}
             PROVE  FlagsOK' /\ WaitsOK' /\ OrderOK' /\ MemoryOK' /\ stale' = {}
    BY DEF CleanRunOK
<1>1. CASE UNCHANGED vars
    BY <1>0, <1>1, RunFrame DEF CleanRunOK, InRun, Quiet, Resting
<1>2. ASSUME NEW n \in Node, NodeStep(n) \/ Land(n)
      PROVE  FlagsOK' /\ WaitsOK' /\ OrderOK' /\ MemoryOK' /\ stale' = {}
    <2>1. err = {}
        BY <1>2 DEF NodeStep, Start, WaitDone, ReadBeat, IssueWrite, PostArm, PostLand, PostDone,
                    Halt, Land
    <2>2. stale = {}
        BY <1>0, <2>1 DEF CleanRunOK
    <2>3. stale' = {}
        <3>1. CASE ReadBeat(n)
            BY <2>1, <2>2, <3>1, NodeMoves, ReadIsRight DEF ReadBeat, NodeStep
        <3>2. CASE ~ ReadBeat(n)
            BY <1>2, <2>2, <3>2 DEF NodeStep, Start, WaitDone, IssueWrite, PostArm, PostLand,
                                    PostDone, Halt, Land
        <3> QED
            BY <3>1, <3>2
    <2> QED
        BY <1>2, <2>1, <2>3, FlagsStep, WaitsStep, OrderStep, MemoryStep
<1>3. ASSUME NEW n \in Node, NodeFault(n) PROVE FALSE
    BY <1>3 DEF NodeFault, WaitFault, ReadFault, WriteFault, PostFault, Fault
<1>4. CASE Restart
    <2>1. ~ InRun' /\ stale' = {}
        BY <1>4 DEF Restart, InRun
    <2> QED
        BY <2>1 DEF FlagsOK, WaitsOK, OrderOK, MemoryOK
<1>5. CASE Go
    <2>1. /\ startq' = Node /\ flag' = flag /\ mem' = mem /\ chunk' = chunk
          /\ err = {} /\ stale' = stale /\ hst = "go"
        BY <1>5 DEF Go
    <2>2. \A p \in Part : ~ HasPosted(p)' /\ ~ HasBegun(p)'
        BY <2>1, PlanTypes DEF HasPosted, HasBegun
    <2>3. \A p \in Part, a \in Beat : ~ HasLanded(p, a)'
        BY <2>1, PlanTypes DEF HasLanded
    <2>4. FlagsOK'
        BY <1>0, <2>1, <2>2 DEF FlagsOK, PreparedOK
    <2>5. WaitsOK' /\ OrderOK'
        BY <2>1, <2>2 DEF WaitsOK, OrderOK, Before
    <2>6. MemoryOK'
        BY <1>0, <2>1, <2>3 DEF MemoryOK, BeatOK, PreparedOK
    <2> QED
        BY <1>0, <2>1, <2>4, <2>5, <2>6 DEF CleanRunOK
<1>6. CASE (HostStep \/ HostOther) /\ ~ Go /\ ~ Restart
    <2>1. err = {} /\ stale' = stale
        BY <1>6 DEF HostStep, HostOther, PostClear, PostInput, ClearLand, InputLand, ReadBarrier,
                    PollHalted, DumpBeat, AnswerOK, Infer, PollTimeout, HostFail, Crash
    <2>2. CASE InRun'
        BY <1>0, <1>6, <2>1, <2>2, HostKeepsRun, RunFrame DEF CleanRunOK
    <2>3. CASE ~ InRun'
        BY <1>0, <2>1, <2>3 DEF CleanRunOK, FlagsOK, WaitsOK, OrderOK, MemoryOK
    <2> QED
        BY <2>2, <2>3
<1> QED
    BY <1>1, <1>2, <1>3, <1>4, <1>5, <1>6 DEF Next

\* While an OK answer stands no node runs, so nothing is read.
LEMMA OkIsQuiet ==
    ASSUME IInv, reply = "ok", NEW n \in Node, NodeStep(n) \/ Land(n) \/ NodeFault(n)
    PROVE  UNCHANGED stale
<1>1. n \notin startq /\ Resting(n)
    BY DEF IInv, HostOK, Quiet
<1> QED
    BY <1>1 DEF Resting, NodeStep, Land, NodeFault, Start, WaitDone, ReadBeat, IssueWrite,
                PostArm, PostLand, PostDone, Halt, WaitFault, ReadFault, WriteFault, PostFault

\* What is read back, and what is answered, is right.
LEMMA DumpStep ==
    ASSUME IInv, [Next]_vars
    PROVE  DumpOK' /\ ActionsCurrent'
<1>0. /\ TypeOK /\ HostOK /\ DumpOK /\ ActionsCurrent
      /\ hst = "dump" => stale = {}
    BY DEF IInv, CleanRunOK, HostOK
<1>1. CASE UNCHANGED <<hst, toDump, got, chunk, reply>> /\ (reply = "ok" => UNCHANGED stale)
    BY <1>0, <1>1 DEF DumpOK, ActionsCurrent, ResultRight, Right, IsSource
<1>2. CASE DumpBeat
    <2>1. PICK a \in toDump : toDump' = toDump \ {a} /\ got' = [got EXCEPT ![a] = mem[a]]
        BY <1>2 DEF DumpBeat
    <2>2. hst = "dump" /\ a \in Actions /\ chunk' = chunk /\ reply' = "none" /\ hst' = "dump"
        BY <1>0, <1>2 DEF DumpBeat, HostOK, TypeOK
    <2>3. Right(End, a, mem[a], chunk)
        BY <2>2, DumpIsRight
    <2>4. \A b \in Actions : got'[b] = IF b = a THEN mem[a] ELSE got[b]
        BY <1>0, <2>1, <2>2 DEF TypeOK
    <2>5. \A b \in Actions \ toDump' : Right(End, b, got'[b], chunk)
        BY <1>0, <2>1, <2>2, <2>3, <2>4 DEF DumpOK
    <2> QED
        BY <2>2, <2>5 DEF DumpOK, ActionsCurrent, Right, IsSource
<1>3. CASE AnswerOK
    BY <1>0, <1>3 DEF AnswerOK, DumpOK, ActionsCurrent, ResultRight, Right, IsSource
<1>4. CASE PollHalted
    BY <1>0, <1>4 DEF PollHalted, DumpOK, ActionsCurrent, HostOK
<1>5. CASE Restart \/ Infer \/ PollTimeout \/ HostFail
    BY <1>5 DEF Restart, Infer, PollTimeout, HostFail, DumpOK, ActionsCurrent
<1>6. CASE Crash
    BY <1>0, <1>6 DEF Crash, DumpOK, ActionsCurrent, ResultRight, Right, IsSource
<1>7. CASE PostClear \/ PostInput \/ ClearLand \/ InputLand \/ ReadBarrier \/ Go
    BY <1>0, <1>7 DEF PostClear, PostInput, ClearLand, InputLand, ReadBarrier, Go,
                      DumpOK, ActionsCurrent, ResultRight, HostOK, Right, IsSource
<1>8. ASSUME NEW n \in Node, NodeStep(n) \/ Land(n) \/ NodeFault(n)
      PROVE  UNCHANGED <<hst, toDump, got, chunk, reply>> /\ (reply = "ok" => UNCHANGED stale)
    BY <1>8, NodeMoves, OkIsQuiet
<1>9. CASE UNCHANGED vars
    BY <1>1, <1>9
<1> QED
    BY <1>1, <1>2, <1>3, <1>4, <1>5, <1>6, <1>7, <1>8, <1>9 DEF Next, HostStep, HostOther

-----------------------------------------------------------------------------
(***************************************************************************)
(* The theorems.                                                           *)
(***************************************************************************)
LEMMA InitInv ==
    ASSUME Init
    PROVE  IInv
<1>1. Quiet /\ ~ InRun
    BY DEF Init, Quiet, Resting, InRun
<1>2. TypeOK
    BY PlanAssumption, ArrayAssumption, PlanTypes DEF Init, TypeOK, Tag
<1>3. NodesOK
    BY PlanTypes DEF Init, NodesOK, NodeOK, Resting
<1>4. HostOK /\ PreparedOK /\ ImageOK /\ DumpOK /\ ActionsCurrent
    BY DEF Init, HostOK, PreparedOK, ImageOK, DumpOK, ActionsCurrent
<1>5. CleanRunOK
    BY <1>1 DEF Init, CleanRunOK, FlagsOK, WaitsOK, OrderOK, MemoryOK
<1> QED
    BY <1>2, <1>3, <1>4, <1>5 DEF IInv

\* IInv is an inductive invariant.
THEOREM Invariance == Spec => []IInv
<1>1. Init => IInv
    BY InitInv
<1>2. IInv /\ [Next]_vars => IInv'
    BY TypeStep, NodesStep, HostStays, PreparedStays, ImageStays, CleanRunStep, DumpStep DEF IInv
<1> QED
    BY <1>1, <1>2, PTL DEF Spec

\* Every variable has its type, for every plan and array.
THEOREM TypeCorrect == Spec => []TypeOK
<1>1. IInv => TypeOK
    BY DEF IInv
<1> QED
    BY <1>1, Invariance, PTL

\* Without an AXI error no part ever reads a beat too early or too late.
THEOREM ReadsAreFresh == Spec => []NoStaleRead
<1>1. IInv => NoStaleRead
    BY DEF IInv, CleanRunOK, NoStaleRead
<1> QED
    BY <1>1, Invariance, PTL

\* An OK answer carries this chunk's actions, with errors, crashes, timeouts
\* and failed transfers in any earlier or later step.
THEOREM AnswersAreCurrent == Spec => []ActionsCurrent
<1>1. IInv => ActionsCurrent
    BY DEF IInv
<1> QED
    BY <1>1, Invariance, PTL

\* The host prepares and starts a run only while every node rests.
THEOREM HostIsExclusive == Spec => []HostExclusive
<1>1. IInv => HostExclusive
    BY DEF IInv, HostOK, NodesOK, NodeOK, Quiet, Resting, HostExclusive
<1> QED
    BY <1>1, Invariance, PTL

\* A beat in flight from one node is touched by no other.
THEOREM NoRaces == Spec => []NoRace
<1>1. ASSUME IInv PROVE NoRace
    <2> SUFFICES ASSUME err = {}, NEW m \in Node, NEW n \in Node, m # n, NEW w \in fly[m]
                 PROVE  /\ \A v \in fly[n] : v[1] # w[1]
                        /\ todo[n] = {} => w[1] \notin rd[n] \cup wq[n]
        BY DEF NoRace
    <2> DEFINE p == cur[m]
    <2> DEFINE q == cur[n]
    <2>1. NodesOK /\ HostOK /\ OrderOK /\ TypeOK
        BY <1>1 DEF IInv, CleanRunOK
    <2>2. /\ p \in Part /\ NodeOf[p] = m /\ w[1] \in Writes[p]
          /\ st[m] = "run" /\ todo[m] = {} /\ m \notin startq
        BY <2>1 DEF NodesOK, NodeOK, Resting
    <2>3. InRun
        BY <2>1, <2>2 DEF InRun, HostOK, Quiet, Resting, TypeOK
    <2>4. HasBegun(p) /\ ~ HasPosted(p)
        BY <2>2, PartsAreNumbers DEF HasBegun, HasPosted
    <2>5. ASSUME q \in Part, todo[n] = {}, st[n] = "run",
                 w[1] \in Reads[q] \cup Writes[q]
          PROVE  FALSE
        <3>1. NodeOf[q] = n /\ n \notin startq
            BY <2>1, <2>5 DEF NodesOK, NodeOK, Resting
        <3>2. HasBegun(q) /\ ~ HasPosted(q)
            BY <2>5, <3>1, PartsAreNumbers DEF HasBegun, HasPosted
        <3>3. p < q \/ q < p
            BY <2>2, <2>5, <3>1, PartsAreNumbers
        <3>4. Conflict(p, q) /\ Conflict(q, p)
            BY <2>2, <2>5 DEF Conflict
        <3>5. Before(p, q) \/ Before(q, p)
            BY <2>2, <2>5, <3>3, <3>4, ConflictsOrdered
        <3> QED
            BY <2>1, <2>2, <2>3, <2>4, <2>5, <3>2, <3>5 DEF OrderOK
    <2>6. ASSUME NEW v \in fly[n], v[1] = w[1] PROVE FALSE
        BY <2>1, <2>5, <2>6 DEF NodesOK, NodeOK
    <2>7. ASSUME todo[n] = {}, w[1] \in rd[n] \cup wq[n] PROVE FALSE
        <3>1. q \in Part
            <4>1. q \in 0 .. End /\ q # 0 /\ q # End
                BY <2>1, <2>7 DEF NodesOK, NodeOK, TypeOK
            <4> QED
                BY <4>1, PlanAssumption DEF Part, End
        <3>2. st[n] = "run"
            BY <2>1, <2>7, <3>1, PlanTypes, PartsAreNumbers DEF NodesOK, NodeOK, TypeOK
        <3> QED
            BY <2>1, <2>5, <2>7, <3>1, <3>2 DEF NodesOK, NodeOK
    <2> QED
        BY <2>6, <2>7
<1> QED
    BY <1>1, Invariance, PTL

\* No flag is taken back while the host polls.
THEOREM FlagsAreMonotone == Spec => FlagsMonotone
<1>1. ASSUME IInv, [Next]_vars, hst = "poll", hst' = "poll", NEW p \in Part
      PROVE  flag[p] <= flag'[p]
    <2>0. TypeOK /\ HostOK /\ TypeOK'
        BY <1>1, TypeStep DEF IInv
    <2>1. CASE flag' = flag
        BY <2>0, <2>1 DEF TypeOK
    <2>2. ASSUME NEW n \in Node, PostLand(n) PROVE flag[p] <= flag'[p]
        BY <2>0, <2>2 DEF PostLand, TypeOK
    <2>3. ~ ClearLand
        BY <1>1, <2>0 DEF ClearLand, HostOK
    <2>4. flag' = flag \/ ClearLand \/ \E n \in Node : PostLand(n)
        BY <1>1 DEF Next, NodeStep, NodeFault, HostStep, HostOther,
               Start, WaitDone, ReadBeat, IssueWrite, PostArm, PostDone, Halt, Land,
               WaitFault, ReadFault, WriteFault, PostFault,
               PostClear, PostInput, InputLand, ReadBarrier, Go, PollHalted, DumpBeat, AnswerOK,
               Restart, Infer, PollTimeout, HostFail, Crash
    <2> QED
        BY <2>1, <2>2, <2>3, <2>4
<1>2. IInv /\ [Next]_vars =>
        [hst = "poll" /\ hst' = "poll" => \A p \in Part : flag[p] <= flag'[p]]_vars
    BY <1>1
<1> QED
    BY <1>2, Invariance, PTL DEF Spec, FlagsMonotone

-----------------------------------------------------------------------------
(***************************************************************************)
(* Refinement.                                                             *)
(***************************************************************************)
LEMMA ServiceInit ==
    ASSUME Init
    PROVE  Service!Init
    BY DEF Init, Service!Init

\* Every step is a step of the abstract service or invisible to it.
LEMMA ServiceStep ==
    ASSUME IInv, IInv', [Next]_vars
    PROVE  [Service!Next]_Service!vars
<1> DEFINE mapped == <<hst, chunk, reply, got>>
           Same == UNCHANGED mapped /\ (reply = "ok" => UNCHANGED stale)
<1>0. HostOK /\ HostOK' /\ ActionsCurrent /\ ActionsCurrent' /\ TypeOK
    BY DEF IInv
<1>1. CASE Same
    BY <1>1 DEF Service!vars, ResultRight, Right, IsSource
<1>2. CASE Restart
    BY <1>2 DEF Restart, Service!Next, Service!StartUp
<1>3. CASE Infer
    BY <1>0, <1>3 DEF Infer, Service!Next, Service!Ask
<1>4. CASE ReadBarrier \/ Go \/ DumpBeat
    BY <1>0, <1>4 DEF ReadBarrier, Go, DumpBeat, HostOK, Service!vars
<1>5. CASE PollHalted
    BY <1>0, <1>5 DEF PollHalted, HostOK, Service!vars, Service!Next, Service!AnswerErr
<1>6. CASE PollTimeout
    BY <1>0, <1>6 DEF PollTimeout, Service!Next, Service!AnswerErr
<1>7. CASE AnswerOK
    BY <1>0, <1>7 DEF AnswerOK, ActionsCurrent, Service!Next, Service!AnswerOK
<1>8. CASE HostFail
    BY <1>0, <1>8 DEF HostFail, Service!Next, Service!AnswerErr
<1>9. CASE Crash
    BY <1>0, <1>9 DEF Crash, TypeOK, Service!Next, Service!AnswerErr, Service!Stop,
                      ResultRight, Right, IsSource
<1>10. CASE PostClear \/ PostInput \/ ClearLand \/ InputLand
    BY <1>1, <1>10 DEF PostClear, PostInput, ClearLand, InputLand
<1>11. ASSUME NEW n \in Node, NodeStep(n) \/ Land(n) \/ NodeFault(n)
       PROVE  Same
    BY <1>11, NodeMoves, OkIsQuiet
<1>12. CASE UNCHANGED vars
    BY <1>1, <1>12
<1> QED
    BY <1>1, <1>2, <1>3, <1>4, <1>5, <1>6, <1>7, <1>8, <1>9, <1>10, <1>11, <1>12
    DEF Next, HostStep, HostOther

\* Host, nodes and memory together implement the service of ChunkService.
THEOREM ServiceImplemented == Spec => ImplementsService
<1>1. Init => Service!Init
    BY ServiceInit
<1>2. IInv /\ IInv' /\ [Next]_vars => [Service!Next]_Service!vars
    BY ServiceStep
<1> QED
    BY <1>1, <1>2, Invariance, PTL DEF Spec, ImplementsService, Service!Spec

=============================================================================
