----------------------------- MODULE VectorNode -----------------------------
(***************************************************************************)
(* The vector node (vu_node_ml.sv) over a program of operation records:    *)
(* decode, chunks of rows over the lanes, operand words steered into the   *)
(* lanes' slot memories by the loaders, the lanes' runs, their beat        *)
(* packers, the two-stage drain into the two beat writers, the flush, and  *)
(* the writers (vu_beat_writer.sv, vu_wr_merge.sv) with their queues,      *)
(* bursts and answers.                                                     *)
(* Row striding and WAIT / POST are not here (ChunkArray has the latter).  *)
(***************************************************************************)
EXTENDS VectorSuites, VectorLane

CONSTANTS
    Benches,        \* [suite, seed, tail, sb, lanes, loaders]: program and build
    Programs,       \* the program of a bench
    MaxRpl,         \* most rows of a lane per chunk
    WrDepth,        \* beats a writer queues
    WrMargin,       \* beats free at which it is almost full
    Burst, MaxOpen, \* beats of a burst, bursts in flight
    Stale           \* what a slot word nobody loaded holds

ASSUME BuildAssumption == \A b \in Benches : b.lanes % b.loaders = 0

VARIABLES
    bench, prog,    \* this run's build and program
    pc, st,         \* record being executed, and where it is
    rowsLeft,       \* rows of the record not done
    slot, pend,     \* slot being loaded, loaders not done with it
    slots,          \* words of the slot memories, per lane and slot
    lane,           \* the lanes' runs and buffers
    drain,          \* per writer: what each lane has still to be drained
    issued,         \* per writer: what stage 0 of the drain has read for stage 1
    pushing,        \* per writer: the beat on its way into the queue
    epos, ecarry,   \* where the element region stands in a beat, and that beat
    spack,          \* records of the partial summary beat
    wq, wnext,      \* the writers' queues and next addresses
    bus,            \* bursts raised and not answered, with the beats sent
    mem,            \* beats written
    lenErr, dropped \* a row too long for the slots; a beat lost

ctl == <<bench, prog, pc, st, rowsLeft>>
load == <<slot, pend, slots>>
packing == <<drain, issued, pushing, epos, ecarry, spack>>
wr == <<wq, wnext, bus, mem, dropped>>
vars == <<bench, prog, pc, st, rowsLeft, slot, pend, slots, lane, drain, issued, pushing, epos, ecarry, spack, wq, wnext, bus, mem, lenErr, dropped>>

Lanes == 1 .. bench.lanes
Loaders == 1 .. bench.loaders
Rec == prog[pc]
cmd == Rec.spec
L == cmd.L

(***************************************************************************)
(* What the decoder derives from a record, and the geometry of a chunk.    *)
(***************************************************************************)
PadWidth ==
    CASE cmd.op \in {"RMS_STAT", "SMAX_SUM"} -> 0
      [] cmd.op \in {"QUANT", "SMAX_Q8"} -> 1
      [] cmd.op \in {"LN_STAT", "ROPE_A", "EULER"} \/ (cmd.op = "DEQUANT" /\ cmd.ofp32) -> 4
      [] OTHER -> IF Rec.qtail THEN 1 ELSE 2

Span == IF L % WordEls = 0 THEN L ELSE L + WordEls - 1
Log2Up(v) == CHOOSE n \in 0 .. 20 : v <= 2 ^ n /\ (n = 0 \/ 2 ^ (n - 1) < v)
Rejected == cmd.R # 0 /\ (L = 0 \/ Log2Up(Span) > bench.sb \/ (cmd.xrot /\ L % 2 = 1))

Lesser2(a, b) == IF a < b THEN a ELSE b
Rpl == Lesser2(MaxRpl, 2 ^ (bench.sb - Log2Up(Span)))
RowsC == Lesser2(rowsLeft, bench.lanes * Rpl)
NElem == RowsC * L
ROff == cmd.R - rowsLeft
EOff == ROff * L
RowsL(l) == Clip(RowsC - (l - 1) * Rpl, 0, Rpl)
Enabled(l) == RowsL(l) > 0

\* First and last word of a lane's elements or rows, counted from the chunk's.
Start(sh, l) == (l - 1) * Rpl * (IF sh = "E" THEN L ELSE 1)
Phase(sh) == (IF sh = "E" THEN EOff ELSE ROff) % WordEls
Wlo(sh, l) == IF sh = "C" THEN 0 ELSE (Phase(sh) + Start(sh, l)) \div WordEls
Whi(sh, l) ==
    CASE sh = "C" -> (L - 1) \div WordEls
      [] sh = "E" -> (Phase(sh) + Lesser2(l * Rpl * L, NElem) - 1) \div WordEls
      [] sh = "R" -> (Phase(sh) + Start(sh, l) + RowsL(l) - 1) \div WordEls
Pos0(sh, l) == (Phase(sh) + Start(sh, l)) % WordEls

\* Bytes of a lane's elements, in the last beat; where each lane starts.
\* A plausible bug (the silicon's of 2026-09-17): every lane has lane 1's.
LaneBytesOfFirst(l) ==
    ((IF cmd.op = "LN_STAT" THEN RowsL(1) % BEAT ELSE (RowsL(1) % BEAT) * (L % BEAT)) * PadWidth) % BEAT
LaneBytes(l) ==
    ((IF cmd.op = "LN_STAT" THEN RowsL(l) % BEAT ELSE (RowsL(l) % BEAT) * (L % BEAT)) * PadWidth) % BEAT
OffQ(l) == (epos + SumAll([i \in 1 .. l - 1 |-> LaneBytes(i)])) % BEAT
OffEnd == OffQ(bench.lanes + 1)

(***************************************************************************)
(* Memory reads: words of an operand on the beat grid.                     *)
(***************************************************************************)
FieldAt(o, e) ==
    LET byte == e * Width(o.fmt) + (CASE o.fmt = "sum" /\ o.fld = "max" -> 4
                                      [] o.fmt = "sum" /\ o.fld = "amax" -> 6
                                      [] OTHER -> 0)
        b == o.base + byte \div BEAT
        at == IF b \in DOMAIN Rec.img THEN {f \in Rec.img[b] : f[1] = byte % BEAT} ELSE {}
    IN  IF at = {} THEN 0 ELSE (CHOOSE f \in at : TRUE)[3]
Word(o, g) == [i \in 1 .. WordEls |-> FieldAt(o, g * WordEls + i - 1)]

Desc(s) == Rec.desc[s]
SlotWords == 2 ^ bench.sb \div WordEls
NextSlot(s, shapes) ==
    LET more == {x \in s .. Len(Slots) : Desc(x).sh \in shapes}
    IN  IF more = {} THEN Len(Slots) + 1 ELSE CHOOSE x \in more : \A y \in more : x <= y
LoaderOf(l) == (l - 1) \div (bench.lanes \div bench.loaders) + 1

\* The loader's part of a chunk's elements or rows; of a column operand each
\* takes everything.
PerLoader(sh) == (bench.lanes \div bench.loaders) * Rpl * (IF sh = "E" THEN L ELSE 1)
Total(sh) == CASE sh = "C" -> L [] sh = "E" -> NElem [] sh = "R" -> RowsC
Lo(sh, n) == IF sh = "C" THEN 0 ELSE (n - 1) * PerLoader(sh)
Hi(sh, n) == IF sh = "C" THEN L ELSE Lesser2(n * PerLoader(sh), Total(sh))
Armed(s) == IF s > Len(Slots) THEN {} ELSE {n \in Loaders : Lo(Desc(s).sh, n) < Total(Desc(s).sh)}
OffOf(sh) == CASE sh = "C" -> 0 [] sh = "E" -> EOff [] sh = "R" -> ROff

LoadedWords(n, s, l) ==
    LET sh == Desc(s).sh
        first == OffOf(sh) + Lo(sh, n)
        woff == first \div WordEls - OffOf(sh) \div WordEls
        words == woff .. woff + (first + Hi(sh, n) - Lo(sh, n) - 1) \div WordEls - first \div WordEls
        mine == {aw \in words : Wlo(sh, l) <= aw /\ aw <= Whi(sh, l)}
        addr(aw) == (aw - Wlo(sh, l)) % SlotWords
    IN  [a \in {addr(aw) : aw \in mine} |->
            LET aw == CHOOSE x \in mine : addr(x) = a /\ \A y \in mine : addr(y) = a => y <= x
            IN  Word(Desc(s), OffOf(sh) \div WordEls + aw)]

\* An operand as the lane reads it: row i, element j, from 0.
PointerOf(s, l, i, j) ==
    LET e == Pos0("E", l) + i * L + j
        half == L \div 2
    IN  CASE Desc(s).sh = "C" -> j
          [] Desc(s).sh = "R" -> Pos0("R", l) + i
          [] Desc(s).sh = "E" /\ s = 1 /\ cmd.xrot -> IF j < half THEN e + half ELSE e - half
          [] OTHER -> e
Signed(v) == IF v >= 2 ^ (AccBits - 1) THEN v - 2 ^ AccBits ELSE v
Operand32(s, l, i, j) ==
    LET p == PointerOf(s, l, i, j) % 2 ^ bench.sb
        q == slots[l][s][p \div WordEls][(p % WordEls) + 1]
    IN  IF Desc(s).sh = "K" THEN Desc(s).base
        ELSE IF (s = 1 /\ Desc(s).fmt = "int32") \/ (s = 4 /\ cmd.pdq) THEN Signed(q) ELSE q
ElementAt(l, i, j) ==
    [x |-> Operand32(1, l, i, j), b |-> Operand32(2, l, i, j), c |-> Operand32(3, l, i, j), d |-> Operand32(4, l, i, j),
     e |-> Operand32(5, l, i, j), rs |-> Operand32(6, l, i, j), mask |-> Operand32(7, l, i, j)]

(***************************************************************************)
(* Packers: fields into beats.                                             *)
(***************************************************************************)
Pack(P, v) ==
    LET w == PadWidth
        f == IF v = 0 THEN {} ELSE {<<P.pos, w, v>>}
    IN  IF P.pos + w = BEAT
        THEN [P EXCEPT !.beats = Append(@, P.pack \cup f), !.pack = {}, !.pos = 0]
        ELSE [P EXCEPT !.pack = @ \cup f, !.pos = @ + w]
PackAll(P, vals) == FoldLeft(Pack, P, vals)
SumBeat(recs) == {f \in RecordFields(recs) : f[3] # 0}
NoRecord == Summary(NoTracker, 0)

IdleLane == [run |-> 0, out |-> <<>>, pos |-> 0, pack |-> {}, beats |-> <<>>, sums |-> <<>>, part |-> FALSE, done |-> TRUE]

(***************************************************************************)
(* Writers: queues that refuse nobody, bursts of what waits, data and      *)
(* answers in the order of the bursts.                                     *)
(***************************************************************************)
Writers == {"e", "s"}  \* elements, summaries

\* A plausible bug: the margin counts the beat being issued and one behind it only.
AlmostFullLate(w) == WrDepth - Len(wq[w]) <= WrMargin - 1
AlmostFull(w) == WrDepth - Len(wq[w]) <= WrMargin

\* The beats on their way arrive; one that finds its queue full is gone.
Push ==
    /\ wq' = [w \in Writers |-> IF Len(wq[w]) = WrDepth THEN wq[w] ELSE wq[w] \o pushing[w]]
    /\ dropped' = (dropped \/ \E w \in Writers : pushing[w] # <<>> /\ Len(wq[w]) = WrDepth)

BurstsOf(w) == {i \in DOMAIN bus : bus[i].w = w}
Unsent(i) == bus[i].n - Len(bus[i].beats)
Avail(w) == Len(wq[w]) - MapThenSumSet(Unsent, BurstsOf(w))

\* A burst of beats that no burst has yet.
Raise(w) ==
    /\ Avail(w) > 0
    /\ Cardinality(BurstsOf(w)) < MaxOpen
    /\ Avail(w) >= Burst \/ AlmostFull(w) \/ st = "flushw"
    /\ LET n == Lesser2(Avail(w), Burst)
       IN  /\ bus' = Append(bus, [w |-> w, at |-> wnext[w], n |-> n, beats |-> <<>>])
           /\ wnext' = [wnext EXCEPT ![w] = @ + n]
    /\ UNCHANGED <<ctl, load, lane, packing, wq, mem, lenErr, dropped>>

\* The memory takes a beat, of the first burst that has some to send.
Send ==
    \E i \in DOMAIN bus :
        /\ Unsent(i) > 0
        /\ \A k \in 1 .. i - 1 : Unsent(k) = 0
        /\ bus' = [bus EXCEPT ![i].beats = Append(@, Head(wq[bus[i].w]))]
        /\ wq' = [wq EXCEPT ![bus[i].w] = Tail(@)]
        /\ UNCHANGED <<ctl, load, lane, packing, wnext, mem, lenErr, dropped>>

Answer ==
    /\ bus # <<>>
    /\ Unsent(1) = 0
    /\ bus' = Tail(bus)
    /\ LET u == Head(bus)
       IN  mem' = [b \in u.at .. u.at + u.n - 1 |-> u.beats[b - u.at + 1]] @@ mem
    /\ UNCHANGED <<ctl, load, lane, packing, wq, wnext, lenErr, dropped>>

Idle(w) == wq[w] = <<>> /\ BurstsOf(w) = {}

(***************************************************************************)
(* Control.                                                                *)
(***************************************************************************)
Fetch ==
    /\ st = "fetch"
    /\ pc <= Len(prog)
    /\ rowsLeft' = cmd.R
    /\ wnext' = [e |-> Rec.out, s |-> Rec.sum]
    /\ lenErr' = Rejected
    /\ st' = IF Rejected THEN "halt" ELSE "loadc"
    /\ slot' = IF Rejected THEN slot ELSE NextSlot(1, {"C"})
    /\ pend' = IF Rejected THEN {} ELSE Armed(slot')
    /\ UNCHANGED <<bench, prog, pc, slots, lane, packing, wq, bus, mem, dropped>>

End ==
    /\ st = "fetch"
    /\ pc > Len(prog)
    /\ st' = "halt"
    /\ UNCHANGED <<bench, prog, pc, rowsLeft, load, lane, packing, wr, lenErr>>

\* Loader n fills the slot of its lanes; when all are done, the next slot.
Load(n) ==
    /\ n \in pend
    /\ slots' = [l \in Lanes |->
                   IF LoaderOf(l) = n /\ (Desc(slot).sh = "C" \/ Enabled(l))
                   THEN [slots[l] EXCEPT ![slot] = LoadedWords(n, slot, l) @@ @]
                   ELSE slots[l]]
    /\ slot' = IF pend # {n} THEN slot ELSE NextSlot(slot + 1, IF st = "loadc" THEN {"C"} ELSE {"E", "R"})
    /\ pend' = IF pend # {n} THEN pend \ {n} ELSE Armed(slot')
    /\ UNCHANGED <<ctl, lane, packing, wr, lenErr>>

Loaded == slot > Len(Slots)

ChunkOrFlush ==
    /\ st = "chunk" \/ (st = "loadc" /\ Loaded)
    /\ IF rowsLeft = 0
       THEN st' = "flush" /\ UNCHANGED <<slot, pend>>
       ELSE st' = "loade" /\ slot' = NextSlot(1, {"E", "R"}) /\ pend' = Armed(slot')
    /\ UNCHANGED <<bench, prog, pc, rowsLeft, slots, lane, packing, wr, lenErr>>

GoRun ==
    /\ st = "loade"
    /\ Loaded
    /\ st' = "run"
    /\ lane' = [l \in Lanes |-> [IdleLane EXCEPT !.pos = IF Enabled(l) THEN OffQ(l) ELSE 0, !.done = FALSE]]
    /\ UNCHANGED <<bench, prog, pc, rowsLeft, load, packing, wr, lenErr>>

\* A lane runs a row; what it emits waits for the packer.
RunRow(l) ==
    /\ st = "run"
    /\ lane[l].run < RowsL(l)
    /\ Len(lane[l].out) <= 1
    /\ lane' = [lane EXCEPT ![l].run = @ + 1,
                            ![l].out = @ \o LaneOut(cmd, Rec.qtail, [j \in 1 .. L |-> ElementAt(l, lane[l].run, j - 1)])]
    /\ UNCHANGED <<ctl, load, packing, wr, lenErr>>

Collect(l) ==
    /\ st = "run"
    /\ lane[l].out # <<>>
    /\ LET entry == Head(lane[l].out)
           P == [lane[l] EXCEPT !.out = Tail(@)]
       IN  lane' = [lane EXCEPT ![l] = IF entry.kind = "elem" THEN PackAll(P, entry.v) ELSE [P EXCEPT !.sums = Append(@, entry.v)]]
    /\ UNCHANGED <<ctl, load, packing, wr, lenErr>>

\* Rows run, nothing on its way, every summary seen: the partial beat is
\* padded and the lane is done.
Close(P) ==
    [P EXCEPT !.done = TRUE, !.part = (P.pos # 0), !.pos = 0, !.pack = {},
              !.beats = IF P.pos # 0 THEN Append(@, P.pack) ELSE @]
\* A plausible bug (the first build of the tail): a lane counts as done with
\* its last elements still on their way.
FinishEarly(l) ==
    /\ st = "run"
    /\ ~ lane[l].done
    /\ lane[l].run = RowsL(l)
    /\ Len(lane[l].sums) = RowsL(l)
    /\ lane' = [lane EXCEPT ![l] = Close(@)]
    /\ UNCHANGED <<ctl, load, packing, wr, lenErr>>
Finish(l) ==
    /\ st = "run"
    /\ ~ lane[l].done
    /\ lane[l].run = RowsL(l)
    /\ lane[l].out = <<>>
    /\ Len(lane[l].sums) = RowsL(l)
    /\ lane' = [lane EXCEPT ![l] = Close(@)]
    /\ UNCHANGED <<ctl, load, packing, wr, lenErr>>

\* The lanes' buffers in lane order; a lane's first beat takes the partial
\* beat before it, its own partial beat is carried on.
LaneBeats(P) == [i \in DOMAIN P.beats |-> [beat |-> P.beats[i], first |-> i = 1, part |-> P.part /\ i = Len(P.beats)]]
StartDrain ==
    /\ st = "run"
    /\ \A l \in Lanes : lane[l].done
    /\ st' = "drain"
    /\ drain' = [e |-> [l \in Lanes |-> LaneBeats(lane[l])], s |-> [l \in Lanes |-> lane[l].sums]]
    /\ UNCHANGED <<bench, prog, pc, rowsLeft, load, lane, issued, pushing, epos, ecarry, spack, wr, lenErr>>

\* Stage 0 reads the next entry of the current lane or goes to the next lane,
\* unless the writer is almost full.
Reads(w) == drain[w] # <<>> /\ ~ AlmostFull(w)
Rest(d) == IF Head(d) = <<>> THEN Tail(d) ELSE <<Tail(Head(d))>> \o Tail(d)
Entry0(d) == IF Head(d) = <<>> THEN <<>> ELSE <<Head(Head(d))>>

\* Stage 1 merges what stage 0 read the clock before into the carried beat or
\* the summary beat; a beat that is whole goes on.
ElementMerged ==
    LET u == issued.e[1]
        v == u.beat \cup (IF u.first THEN ecarry ELSE {})
    IN  CASE issued.e = <<>> -> [left |-> ecarry, whole |-> <<>>]
          [] issued.e # <<>> /\ u.part -> [left |-> v, whole |-> <<>>]
          [] OTHER -> [left |-> {}, whole |-> <<v>>]
WithRecord(r) ==
    IF Len(spack) + 1 = WordEls
    THEN [left |-> <<>>, whole |-> <<SumBeat(Append(spack, r))>>]
    ELSE [left |-> Append(spack, r), whole |-> <<>>]
SummaryMerged == IF issued.s = <<>> THEN [left |-> spack, whole |-> <<>>] ELSE WithRecord(issued.s[1])

HandOn(e, s) ==
    /\ ecarry' = e.left /\ spack' = s.left
    /\ pushing' = [e |-> e.whole, s |-> s.whole]
    /\ Push

\* A clock of the drain, of both writers at once: what stage 1 handed on goes to
\* the queue, what stage 0 read to stage 1, and stage 0 reads.
Drain ==
    /\ st = "drain"
    /\ \E w \in Writers : Reads(w) \/ issued[w] # <<>> \/ pushing[w] # <<>>
    /\ drain' = [w \in Writers |-> IF Reads(w) THEN Rest(drain[w]) ELSE drain[w]]
    /\ issued' = [w \in Writers |-> IF Reads(w) THEN Entry0(drain[w]) ELSE <<>>]
    /\ HandOn(ElementMerged, SummaryMerged)
    /\ UNCHANGED <<ctl, load, lane, epos, wnext, bus, mem, lenErr>>

EndDrain ==
    /\ st = "drain"
    /\ \A w \in Writers : drain[w] = <<>> /\ issued[w] = <<>> /\ pushing[w] = <<>>
    /\ rowsLeft' = rowsLeft - RowsC
    /\ epos' = OffEnd
    /\ st' = "chunk"
    /\ UNCHANGED <<bench, prog, pc, load, lane, drain, issued, pushing, ecarry, spack, wr, lenErr>>

\* A clock of the flush: the carried beat, and a zero record that pads the
\* summary beat, once the beat before is in its queue.
CarryGoes == epos # 0 /\ pushing.e = <<>> /\ ~ AlmostFull("e")
RecordGoes == spack # <<>> /\ pushing.s = <<>> /\ ~ AlmostFull("s")
FlushPartial ==
    /\ st = "flush"
    /\ CarryGoes \/ RecordGoes \/ \E w \in Writers : pushing[w] # <<>>
    /\ HandOn(IF CarryGoes THEN [left |-> {}, whole |-> <<ecarry>>] ELSE [left |-> ecarry, whole |-> <<>>],
              IF RecordGoes THEN WithRecord(NoRecord) ELSE [left |-> spack, whole |-> <<>>])
    /\ epos' = IF CarryGoes THEN 0 ELSE epos
    /\ UNCHANGED <<ctl, load, lane, drain, issued, wnext, bus, mem, lenErr>>
Flush ==
    /\ st = "flush"
    /\ epos = 0
    /\ spack = <<>>
    /\ \A w \in Writers : pushing[w] = <<>>
    /\ st' = "flushw"
    /\ UNCHANGED <<bench, prog, pc, rowsLeft, load, lane, packing, wr, lenErr>>
NextRecord ==
    /\ st = "flushw"
    /\ \A w \in Writers : Idle(w)
    /\ pc' = pc + 1
    /\ st' = "fetch"
    /\ UNCHANGED <<bench, prog, rowsLeft, load, lane, packing, wr, lenErr>>

Halted == st = "halt" /\ UNCHANGED vars

Init ==
    /\ bench \in Benches
    /\ prog = Programs[bench]
    /\ pc = 1
    /\ st = "fetch"
    /\ rowsLeft = 0
    /\ slot = Len(Slots) + 1
    /\ pend = {}
    /\ slots = [l \in Lanes |-> [s \in DOMAIN Slots |-> [w \in 0 .. SlotWords - 1 |-> [i \in 1 .. WordEls |-> Stale]]]]
    /\ lane = [l \in Lanes |-> IdleLane]
    /\ drain = [w \in Writers |-> <<>>]
    /\ issued = [w \in Writers |-> <<>>]
    /\ pushing = [w \in Writers |-> <<>>]
    /\ epos = 0
    /\ ecarry = {}
    /\ spack = <<>>
    /\ wq = [e |-> <<>>, s |-> <<>>]
    /\ wnext = [e |-> 0, s |-> 0]
    /\ bus = <<>>
    /\ mem = <<>>
    /\ lenErr = FALSE
    /\ dropped = FALSE

Next ==
    \/ Fetch \/ End
    \/ \E n \in Loaders : Load(n)
    \/ ChunkOrFlush \/ GoRun
    \/ \E l \in Lanes : RunRow(l) \/ Collect(l) \/ Finish(l)
    \/ StartDrain \/ Drain \/ EndDrain
    \/ FlushPartial \/ Flush \/ NextRecord
    \/ \E w \in Writers : Raise(w)
    \/ Send \/ Answer
    \/ Halted

Spec == Init /\ [][Next]_vars

(***************************************************************************)
(* Properties.                                                             *)
(***************************************************************************)
EDepth == (2 ^ bench.sb * 4) \div BEAT + 1

\* Nothing on its way to memory is lost: no lane has more beats than its buffer
\* holds (lane_ovf), and no beat of the drain or the flush meets a full queue
\* (o_error), although stage 0 looks at the queue two clocks before the beat is
\* there, with others on their way, and the memory may take its time.
NoBeatLost ==
    /\ \A l \in Lanes : Len(lane[l].beats) <= EDepth
    /\ ~ dropped

\* The beats written are the golden ones, whatever the number of lanes and
\* loaders: those of a record that is done are all in memory and as they
\* must be, nothing else is written, and the node stops early only at a row
\* that may need more words than a slot has.
Expected(i) == prog[i].exp
MayStraddle(i) == LET sp == prog[i].spec IN sp.L + WordEls - 1 > 2 ^ bench.sb
MemAsExpected ==
    /\ \A i \in 1 .. pc - 1 : \A b \in DOMAIN Expected(i) : b \in DOMAIN mem /\ mem[b] = Expected(i)[b]
    /\ \A b \in DOMAIN mem : \E i \in 1 .. Lesser2(pc, Len(prog)) : b \in DOMAIN Expected(i)
    /\ lenErr => MayStraddle(pc)

(***************************************************************************)
(* What the outputs of a record are worth, against exact arithmetic.       *)
(***************************************************************************)
ValueOf(c, fb) ==
    LET e8 == (c \div 2 ^ fb) % 2 ^ EB
        m == (2 ^ fb + (c % 2 ^ fb)) * 2 ^ (e8 - 1)
    IN  CASE e8 = 0 -> 0
          [] e8 # 0 /\ (c \div 2 ^ (fb + EB)) % 2 = 1 -> -m
          [] OTHER -> m
Bf16Value(c) == ValueOf(c, BM - 1)          \* in units of 2^(1 - Bias - (BM - 1))
Fp32Value(c) == ValueOf(c, MW - 1)          \* in units of 2^(1 - Bias - (MW - 1))
Signed8(c) == IF c >= 2 ^ B8 THEN c - 2 ^ (B8 + 1) ELSE c

\* The elements of a row and the statistic of its summary as memory has them.
ReadBack(base, byte) ==
    LET at == {f \in mem[base + byte \div BEAT] : f[1] = byte % BEAT}
    IN  IF at = {} THEN 0 ELSE (CHOOSE f \in at : TRUE)[3]
RowOutput(i, r) ==
    LET s == prog[i].spec IN [j \in 1 .. s.L |-> ReadBack(prog[i].out, ((r - 1) * s.L + j - 1) * OutBytes(s))]
RowScale(i, r) == Fp32Value(ReadBack(prog[i].sum, 8 * (r - 1)))

\* A bf16 code within one unit of its last place of an exact value scaled by
\* 2^up, give or take slack; zero below the normals, the largest code above.
Close16(c, exact, up, slack) ==
    LET v == Bf16Value(c) * 2 ^ up
        ulp == 2 ^ Largest(<<0, (Magnitude(c) \div 2 ^ (BM - 1)) - 1>>) * 2 ^ up
    IN  \/ Abs(v - exact) <= ulp + slack
        \/ c = 0 /\ Abs(exact) <= 2 ^ (BM + up)
        \/ Magnitude(c) = MaxCode /\ Abs(exact) >= Abs(v) /\ (exact > 0 <=> v > 0)

\* The row's probabilities (codes of value V) keep the order of the logits and
\* leave nothing to masked keys; together they are one, give or take tol.
IsDistribution(p, w, V(_), scale, one, tol) ==
    LET xs == [j \in DOMAIN p |-> Bf16Value(w.x[j])]
        live == {j \in DOMAIN p : w.mask[j] = 1}
    IN  /\ \A j \in DOMAIN p \ live : V(p[j]) = 0
        /\ \A j, k \in live : xs[j] <= xs[k] => V(p[j]) <= V(p[k])
        /\ Abs(scale * SumAll([j \in DOMAIN p |-> V(p[j])]) - one) <= tol

RowAccurate(s, w, y, scale) ==
    LET J == DOMAIN y
    IN  CASE s.op = "ADD" ->
               \A j \in J : Close16(y[j], Bf16Value(w.x[j]) * 2 ^ (MW - BM)
                                          + (IF s.bfp32 THEN Fp32Value(w.b[j]) ELSE Bf16Value(w.b[j]) * 2 ^ (MW - BM)), MW - BM, 0)
          [] s.op = "ROPE_B" ->
               \A j \in J : LET rot == Bf16Value(w.x[j]) * Fp32Value(w.c[j])
                                up == Bias + MW - 2
                            IN  Close16(y[j], rot + Fp32Value(w.e[j]) * 2 ^ (Bias + BM - 2), up, Abs(rot) \div 2 ^ (MW - 2))
          [] s.op = "QUANT" ->
               \A j \in J : LET A == Bf16Value(w.rs[1])
                                x == Bf16Value(w.x[j])
                                q == Signed8(y[j])
                            IN  IF Abs(x) <= A THEN 4 * Abs(q * A - Levels8 * x) <= 3 * A
                                ELSE A = 0 \/ Abs(q) = Levels8
          [] s.op = "SMAX_OUT" -> IsDistribution(y, w, Bf16Value, 1, 2 ^ (Bias + BM - 2), 2 ^ (Bias + BM - 4))
          [] s.op = "SMAX_Q8" ->
               LET code(c) == IF s.bfp32 THEN c ELSE Signed8(c)
               IN  IsDistribution(y, w, code, scale, 2 ^ (Bias + MW - 2), Len(y) * scale)
          [] s.op \in {"GELU", "SILU"} ->
               \A j \in J : Abs(Bf16Value(y[j])) <= Abs(Bf16Value(w.x[j])) /\ Bf16Value(y[j]) * Bf16Value(w.x[j]) >= 0
          [] OTHER -> TRUE

\* What a record has written is right as arithmetic, not only equal to what the
\* golden model computes with the same numbers: sums and rotations to one unit
\* in the last place, codes to three quarters of a step, probabilities in the
\* order of their logits and summing to one, gates between 0 and their operand.
OutputsAccurate ==
    st = "fetch" /\ pc > 1 /\ ~ (prog[pc - 1].qtail /\ Bf16Out(prog[pc - 1].spec)) =>
        LET s == prog[pc - 1].spec
        IN  s.op \in {"ADD", "ROPE_B", "QUANT", "SMAX_OUT", "SMAX_Q8", "GELU", "SILU"} =>
                \A r \in 1 .. s.R :
                    RowAccurate(s, RowOf(s, r), RowOutput(pc - 1, r), RowScale(pc - 1, r))
=============================================================================
