----------------------------- MODULE ChunkArray -----------------------------
(***************************************************************************)
(* One chunk after another on the node array: the resident host process    *)
(* (host/pi0_chunk_run.cpp, serve), the nodes that run their programs      *)
(* (colpar_node_ctrl.sv, vu_node_ml.sv, each with a node_sync.sv), and the *)
(* GDDR6 memory with its flag words, the only place where they meet.       *)
(*                                                                         *)
(* Data is abstracted to provenance: a beat holds the tag <<p, c>> of the  *)
(* part p and the chunk c that wrote it, <<0, c>> when the host wrote it   *)
(* as an input of chunk c, and <<0, 0>> when it still holds the image that *)
(* was loaded before.  A write is in flight from the moment the node's     *)
(* writer accepts it until it lands in the memory and is acknowledged.     *)
(***************************************************************************)
EXTENDS ChunkSync, FiniteSets

CONSTANTS
    Input,      \* the beats the host writes before every chunk
    Actions,    \* the beats the host reads back (region "actions")
    FaultyNode, \* the nodes whose AXI transactions may answer with an error
    MaxChunk,   \* bound: how many chunks are asked for
    MaxPosted   \* bound: how many posted host writes are in flight at once

ASSUME ArrayAssumption ==
    /\ Input \subseteq Beat
    /\ Actions \subseteq Beat
    /\ FaultyNode \subseteq Node
    /\ MaxChunk \in Nat
    /\ MaxPosted \in Nat \ {0}

\* A beat that a part reads before any part has written it, and that is no
\* input, belongs to the image (weights, tables): no part writes it, ever.
\* Otherwise the second chunk would find the first one's result there.
ASSUME ImageAssumption ==
    \A q \in Part : \A a \in Reads[q] \ Input :
        (\A p \in Part : p < q => a \notin Writes[p])
            => \A p \in Part : a \notin Writes[p]

VARIABLES
    st,         \* st[n]: where the controller of node n stands
    cur,        \* cur[n]: the part it runs (0: none yet, End: the END record)
    todo,       \* todo[n]: WAITs of that part not satisfied yet
    rd,         \* rd[n]: beats the part still has to read
    wq,         \* wq[n]: beats the part still has to write
    fly,        \* fly[n]: <<beat, tag>> of the writes n has in flight
    startq,     \* nodes the start pulse has not reached yet
    err,        \* nodes whose sticky error bit is set
    flag,       \* flag[p]: low 32 bits of part p's flag word
    mem,        \* mem[a]: the tag beat a holds
    hst,        \* where the host process stands
    toClear,    \* flags serve still has to clear
    toWrite,    \* inputs serve still has to write
    clearing,   \* flag clears posted, not landed
    writing,    \* <<beat, chunk>> of input writes posted, not landed
    toDump,     \* actions serve still has to read back
    got,        \* got[a]: the tag read back for action a
    chunk,      \* the number of the latest infer command
    reply,      \* what serve answered to it
    stale       \* history: <<part, beat>> of reads that saw a wrong tag

nodeVars == <<st, cur, todo, rd, wq>>
hostVars == <<hst, toClear, toWrite, clearing, writing, toDump, got, chunk, reply>>
vars == <<nodeVars, fly, startq, err, flag, mem, hostVars, stale>>

Tag == (0 .. NumParts) \X (0 .. MaxChunk)

TypeOK ==
    /\ st \in [Node -> {"reset", "run", "post", "posted", "halt"}]
    /\ cur \in [Node -> 0 .. End]
    /\ todo \in [Node -> SUBSET Part]
    /\ rd \in [Node -> SUBSET Beat]
    /\ wq \in [Node -> SUBSET Beat]
    /\ fly \in [Node -> SUBSET (Beat \X Tag)]
    /\ startq \subseteq Node
    /\ err \subseteq Node
    /\ flag \in [Part -> 0 .. 1]
    /\ mem \in [Beat -> Tag]
    /\ hst \in {"down", "idle", "write", "go", "poll", "dump"}
    /\ toClear \subseteq Part
    /\ toWrite \subseteq Input
    /\ clearing \subseteq Part
    /\ writing \subseteq Input \X (0 .. MaxChunk)
    /\ toDump \subseteq Actions
    /\ got \in [Actions -> Tag]
    /\ chunk \in 0 .. MaxChunk
    /\ reply \in {"none", "ok", "err"}
    /\ stale \subseteq Part \X Beat

(***************************************************************************)
(* What position q of chunk c has to find in beat a: the tag of the latest *)
(* earlier part that writes a; the input or the image when there is none.  *)
(***************************************************************************)
IsSource(p, q, a) ==
    /\ p < q /\ a \in Writes[p]
    /\ \A r \in Part : r < q /\ a \in Writes[r] => r <= p

Right(q, a, tag, c) ==
    \/ \E p \in Part : IsSource(p, q, a) /\ tag = <<p, c>>
    \/ /\ \A p \in Part : p < q => a \notin Writes[p]
       /\ tag = <<0, IF a \in Input THEN c ELSE 0>>

(***************************************************************************)
(* Nodes.                                                                  *)
(***************************************************************************)
AllHalted == \A n \in Node : st[n] = "halt"
Resting(n) == st[n] \in {"reset", "halt"}
Quiet == startq = {} /\ \A n \in Node : Resting(n)

\* Load the part at position q of n's program: its WAITs, its body.
LoadPart(n, q) ==
    /\ cur' = [cur EXCEPT ![n] = q]
    /\ todo' = [todo EXCEPT ![n] = IF q = End THEN {} ELSE Waits(q)]
    /\ rd' = [rd EXCEPT ![n] = IF q = End THEN {} ELSE Reads[q]]
    /\ wq' = [wq EXCEPT ![n] = IF q = End THEN {} ELSE Writes[q]]

\* The start pulse reaches node n: the controller takes the restart in any
\* state, drops its halt output and fetches from the program base again.  The
\* writer is not reset.
Start(n) ==
    /\ n \in startq
    /\ startq' = startq \ {n}
    /\ st' = [st EXCEPT ![n] = "run"]
    /\ \E q \in 1 .. End : Follows(n, 0, q) /\ LoadPart(n, q)
    /\ UNCHANGED <<fly, err, flag, mem, hostVars, stale>>

\* A plausible bug: a strict comparison, which no flag ever satisfies.
WaitDoneStrict(n) ==
    /\ st[n] = "run"
    /\ \E w \in todo[n] :
        /\ flag[w] > 1
        /\ todo' = [todo EXCEPT ![n] = @ \ {w}]
    /\ UNCHANGED <<st, cur, rd, wq, fly, startq, err, flag, mem, hostVars, stale>>

\* A WAIT is satisfied: node_sync reads the flag word and finds it >= 1.  A
\* poll that finds less changes nothing.  The WAITs of a part are satisfied
\* one by one; all are needed, so their order does not matter.
WaitDone(n) ==
    /\ st[n] = "run"
    /\ \E w \in todo[n] :
        /\ flag[w] >= 1
        /\ todo' = [todo EXCEPT ![n] = @ \ {w}]
    /\ UNCHANGED <<st, cur, rd, wq, fly, startq, err, flag, mem, hostVars, stale>>

\* The body reads one beat.
ReadBeat(n) ==
    /\ st[n] = "run" /\ todo[n] = {}
    /\ \E a \in rd[n] :
        /\ rd' = [rd EXCEPT ![n] = @ \ {a}]
        /\ stale' = IF Right(cur[n], a, mem[a], chunk)
                    THEN stale ELSE stale \cup {<<cur[n], a>>}
    /\ UNCHANGED <<st, cur, todo, wq, fly, startq, err, flag, mem, hostVars>>

\* The body hands one beat to the writer.  Reading and writing overlap; a beat
\* that is updated in place is read before it is written.
IssueWrite(n) ==
    /\ st[n] = "run" /\ todo[n] = {}
    /\ \E a \in wq[n] \ rd[n] :
        /\ wq' = [wq EXCEPT ![n] = @ \ {a}]
        /\ fly' = [fly EXCEPT ![n] = @ \cup {<<a, <<cur[n], chunk>>>>}]
    /\ UNCHANGED <<st, cur, todo, rd, startq, err, flag, mem, hostVars, stale>>

\* A write of node n reaches the memory.
Land(n) ==
    /\ \E w \in fly[n] :
        /\ mem' = [mem EXCEPT ![w[1]] = w[2]]
        /\ fly' = [fly EXCEPT ![n] = @ \ {w}]
    /\ UNCHANGED <<nodeVars, startq, err, flag, hostVars, stale>>

\* A plausible bug: the POST does not wait for the write responses.
PostArmNoDrain(n) ==
    /\ st[n] = "run" /\ cur[n] \in Part
    /\ todo[n] = {} /\ rd[n] = {} /\ wq[n] = {}
    /\ st' = [st EXCEPT ![n] = "post"]
    /\ UNCHANGED <<cur, todo, rd, wq, fly, startq, err, flag, mem, hostVars, stale>>

\* The POST record: armed only once the writer is idle, no write of the node
\* being unacknowledged (S_POSTW, C_POSTW).
PostArm(n) ==
    /\ st[n] = "run" /\ cur[n] \in Part
    /\ todo[n] = {} /\ rd[n] = {} /\ wq[n] = {}
    /\ fly[n] = {}
    /\ st' = [st EXCEPT ![n] = "post"]
    /\ UNCHANGED <<cur, todo, rd, wq, fly, startq, err, flag, mem, hostVars, stale>>

\* The flag word is written ...
PostLand(n) ==
    /\ st[n] = "post"
    /\ flag' = [flag EXCEPT ![cur[n]] = 1]
    /\ st' = [st EXCEPT ![n] = "posted"]
    /\ UNCHANGED <<cur, todo, rd, wq, fly, startq, err, mem, hostVars, stale>>

\* ... and its write response lets the program go on.
PostDone(n) ==
    /\ st[n] = "posted"
    /\ st' = [st EXCEPT ![n] = "run"]
    /\ \E q \in 1 .. End : Follows(n, cur[n], q) /\ LoadPart(n, q)
    /\ UNCHANGED <<fly, startq, err, flag, mem, hostVars, stale>>

\* The END record.
Halt(n) ==
    /\ st[n] = "run" /\ cur[n] = End
    /\ st' = [st EXCEPT ![n] = "halt"]
    /\ UNCHANGED <<cur, todo, rd, wq, fly, startq, err, flag, mem, hostVars, stale>>

(***************************************************************************)
(* AXI error responses set the sticky error bit of the node and nothing    *)
(* else: the node goes on as if the transaction had worked.                *)
(***************************************************************************)
Fault(n) == n \in FaultyNode /\ err' = err \cup {n}

\* The polled word is garbage and happens to satisfy the comparison.
WaitFault(n) ==
    /\ Fault(n)
    /\ st[n] = "run"
    /\ \E w \in todo[n] : todo' = [todo EXCEPT ![n] = @ \ {w}]
    /\ UNCHANGED <<st, cur, rd, wq, fly, startq, flag, mem, hostVars, stale>>

\* The body reads garbage.
ReadFault(n) ==
    /\ Fault(n)
    /\ st[n] = "run" /\ todo[n] = {}
    /\ \E a \in rd[n] :
        /\ rd' = [rd EXCEPT ![n] = @ \ {a}]
        /\ stale' = stale \cup {<<cur[n], a>>}
    /\ UNCHANGED <<st, cur, todo, wq, fly, startq, flag, mem, hostVars>>

\* A write is answered but not done.
WriteFault(n) ==
    /\ Fault(n)
    /\ \E w \in fly[n] : fly' = [fly EXCEPT ![n] = @ \ {w}]
    /\ UNCHANGED <<nodeVars, startq, flag, mem, hostVars, stale>>

\* The POST is answered but not done.
PostFault(n) ==
    /\ Fault(n)
    /\ st[n] = "post"
    /\ st' = [st EXCEPT ![n] = "posted"]
    /\ UNCHANGED <<cur, todo, rd, wq, fly, startq, flag, mem, hostVars, stale>>

NodeStep(n) ==
    \/ Start(n) \/ WaitDone(n) \/ ReadBeat(n) \/ IssueWrite(n)
    \/ PostArm(n) \/ PostLand(n) \/ PostDone(n) \/ Halt(n)

NodeFault(n) == WaitFault(n) \/ ReadFault(n) \/ WriteFault(n) \/ PostFault(n)

(***************************************************************************)
(* The host: one serve process at a time.                                  *)
(***************************************************************************)
\* A plausible bug: a new process that does not reset the array.
RestartNoReset ==
    /\ hst = "down"
    /\ hst' = "idle" /\ reply' = "none"
    /\ UNCHANGED <<nodeVars, fly, startq, err, flag, mem, stale,
                   toClear, toWrite, clearing, writing, toDump, got, chunk>>

\* A new process: load nothing (the image stays), soft-reset the array, set
\* the program bases and the start mask, print READY.  The reset returns every
\* controller, writer and sync unit to its initial state and clears the error
\* bits; a write still in flight has landed before or never does.
Restart ==
    /\ hst = "down"
    /\ hst' = "idle" /\ reply' = "none"
    /\ st' = [n \in Node |-> "reset"]
    /\ cur' = [n \in Node |-> 0]
    /\ todo' = [n \in Node |-> {}]
    /\ rd' = [n \in Node |-> {}]
    /\ wq' = [n \in Node |-> {}]
    /\ fly' = [n \in Node |-> {}]
    /\ startq' = {} /\ err' = {} /\ stale' = {}
    /\ clearing' = {} /\ writing' = {}
    /\ UNCHANGED <<flag, mem, toClear, toWrite, toDump, got, chunk>>

\* A plausible bug: one flag too many, the beat below the flag area.
InferOffByOne ==
    /\ hst = "idle" /\ chunk < MaxChunk
    /\ hst' = "write"
    /\ chunk' = chunk + 1 /\ reply' = "none"
    /\ toClear' = 0 .. NumParts /\ toWrite' = Input
    /\ UNCHANGED <<nodeVars, fly, startq, err, flag, mem, clearing, writing, toDump, got, stale>>

\* An "infer" line.
Infer ==
    /\ hst = "idle" /\ chunk < MaxChunk
    /\ hst' = "write"
    /\ chunk' = chunk + 1 /\ reply' = "none"
    /\ toClear' = Part /\ toWrite' = Input
    /\ UNCHANGED <<nodeVars, fly, startq, err, flag, mem, clearing, writing, toDump, got, stale>>

\* Post the next flag clear: all flags, in order, before any input.
PostClear ==
    /\ hst = "write" /\ Cardinality(clearing) + Cardinality(writing) < MaxPosted
    /\ \E p \in toClear :
        /\ \A r \in toClear : p <= r
        /\ toClear' = toClear \ {p}
        /\ clearing' = clearing \cup {p}
    /\ UNCHANGED <<nodeVars, fly, startq, err, flag, mem,
                   hst, toWrite, writing, toDump, got, chunk, reply, stale>>

\* Post the next input beat.
PostInput ==
    /\ hst = "write" /\ Cardinality(clearing) + Cardinality(writing) < MaxPosted
    /\ toClear = {}
    /\ \E a \in toWrite :
        /\ toWrite' = toWrite \ {a}
        /\ writing' = writing \cup {<<a, chunk>>}
    /\ UNCHANGED <<nodeVars, fly, startq, err, flag, mem,
                   hst, toClear, clearing, toDump, got, chunk, reply, stale>>

\* A posted flag clear reaches the memory.
ClearLand ==
    /\ \E p \in clearing :
        /\ clearing' = clearing \ {p}
        /\ flag' = [flag EXCEPT ![p] = 0]
    /\ UNCHANGED <<nodeVars, fly, startq, err, mem,
                   hst, toClear, toWrite, writing, toDump, got, chunk, reply, stale>>

\* A posted input reaches the memory; writes to one beat stay in order.
InputLand ==
    /\ \E w \in writing :
        /\ \A v \in writing : v[1] = w[1] => w[2] <= v[2]
        /\ writing' = writing \ {w}
        /\ mem' = [mem EXCEPT ![w[1]] = <<0, w[2]>>]
    /\ UNCHANGED <<nodeVars, fly, startq, err, flag,
                   hst, toClear, toWrite, clearing, toDump, got, chunk, reply, stale>>

\* A plausible bug: no read before the start, so the inputs or the clears may
\* still be on their way.
ReadBarrierInputs ==
    /\ hst = "write"
    /\ toClear = {} /\ toWrite = {} /\ clearing = {}
    /\ hst' = "go"
    /\ UNCHANGED <<nodeVars, fly, startq, err, flag, mem,
                   toClear, toWrite, clearing, writing, toDump, got, chunk, reply, stale>>

ReadBarrierClears ==
    /\ hst = "write"
    /\ toClear = {} /\ toWrite = {} /\ writing = {}
    /\ hst' = "go"
    /\ UNCHANGED <<nodeVars, fly, startq, err, flag, mem,
                   toClear, toWrite, clearing, writing, toDump, got, chunk, reply, stale>>

\* The halt vector is read once before the start: a PCIe read returns only
\* after every posted write before it has landed.
ReadBarrier ==
    /\ hst = "write"
    /\ toClear = {} /\ toWrite = {}
    /\ clearing = {} /\ writing = {}
    /\ hst' = "go"
    /\ UNCHANGED <<nodeVars, fly, startq, err, flag, mem,
                   toClear, toWrite, clearing, writing, toDump, got, chunk, reply, stale>>

\* The start write: a pulse to every node of the mask.
Go ==
    /\ hst = "go"
    /\ hst' = "poll"
    /\ startq' = Node
    /\ UNCHANGED <<nodeVars, fly, err, flag, mem,
                   toClear, toWrite, clearing, writing, toDump, got, chunk, reply, stale>>

\* Plausible bugs: the error vector is not looked at, or any halt bit will do.
PollHaltedNoErr ==
    /\ hst = "poll"
    /\ startq = {} /\ AllHalted
    /\ hst' = "dump" /\ toDump' = Actions
    /\ UNCHANGED <<nodeVars, fly, startq, err, flag, mem,
                   toClear, toWrite, clearing, writing, got, chunk, reply, stale>>

PollHaltedAny ==
    /\ hst = "poll"
    /\ startq = {} /\ \E n \in Node : st[n] = "halt"
    /\ err = {}
    /\ hst' = "dump" /\ toDump' = Actions
    /\ UNCHANGED <<nodeVars, fly, startq, err, flag, mem,
                   toClear, toWrite, clearing, writing, got, chunk, reply, stale>>

\* The poll finds every node of the mask halted; then it reads the error
\* vector.  A poll takes a PCIe round trip, far longer than the start pulse
\* takes to drop the halt bits: it never sees those of the chunk before.
PollHalted ==
    /\ hst = "poll"
    /\ startq = {} /\ AllHalted
    /\ IF err = {}
       THEN hst' = "dump" /\ toDump' = Actions /\ reply' = reply
       ELSE hst' = "idle" /\ toDump' = {} /\ reply' = "err"
    /\ UNCHANGED <<nodeVars, fly, startq, err, flag, mem,
                   toClear, toWrite, clearing, writing, got, chunk, stale>>

\* A plausible bug: after a timeout the process takes the next line.
PollTimeoutGoOn ==
    /\ hst = "poll"
    /\ startq # {} \/ ~ AllHalted
    /\ hst' = "idle" /\ reply' = "err"
    /\ UNCHANGED <<nodeVars, fly, startq, err, flag, mem,
                   toClear, toWrite, clearing, writing, toDump, got, chunk, stale>>

\* Timeout, or a signal, before all have halted: the answer is ERR and the
\* process ends, because nodes may still be running.
PollTimeout ==
    /\ hst = "poll"
    /\ startq # {} \/ ~ AllHalted
    /\ hst' = "down" /\ reply' = "err"
    /\ UNCHANGED <<nodeVars, fly, startq, err, flag, mem,
                   toClear, toWrite, clearing, writing, toDump, got, chunk, stale>>

\* Read back one beat of the actions.
DumpBeat ==
    /\ hst = "dump"
    /\ \E a \in toDump :
        /\ toDump' = toDump \ {a}
        /\ got' = [got EXCEPT ![a] = mem[a]]
    /\ UNCHANGED <<nodeVars, fly, startq, err, flag, mem,
                   hst, toClear, toWrite, clearing, writing, chunk, reply, stale>>

\* A plausible bug: the answer goes out before the last beat is read.
AnswerEarly ==
    /\ hst = "dump"
    /\ hst' = "idle" /\ reply' = "ok" /\ toDump' = {}
    /\ UNCHANGED <<nodeVars, fly, startq, err, flag, mem,
                   toClear, toWrite, clearing, writing, got, chunk, stale>>

\* All are read: answer OK.
AnswerOK ==
    /\ hst = "dump" /\ toDump = {}
    /\ hst' = "idle" /\ reply' = "ok"
    /\ UNCHANGED <<nodeVars, fly, startq, err, flag, mem,
                   toClear, toWrite, clearing, writing, toDump, got, chunk, stale>>

\* An exception while writing the inputs or reading the actions: ERR, and the
\* loop goes on with the next line.  What is posted already still lands.
HostFail ==
    /\ hst \in {"write", "dump"}
    /\ hst' = "idle" /\ reply' = "err"
    /\ toClear' = {} /\ toWrite' = {} /\ toDump' = {}
    /\ UNCHANGED <<nodeVars, fly, startq, err, flag, mem, clearing, writing, got, chunk, stale>>

\* The process is killed at any moment, or ends between two commands.
Crash ==
    /\ hst # "down"
    /\ hst' = "down"
    /\ reply' = IF hst = "idle" THEN reply ELSE "err"
    /\ toClear' = {} /\ toWrite' = {} /\ toDump' = {}
    /\ UNCHANGED <<nodeVars, fly, startq, err, flag, mem, clearing, writing, got, chunk, stale>>

HostStep ==
    \/ PostClear \/ PostInput \/ ClearLand \/ InputLand
    \/ ReadBarrier \/ Go \/ PollHalted \/ DumpBeat \/ AnswerOK

HostOther == Restart \/ Infer \/ PollTimeout \/ HostFail \/ Crash

Init ==
    /\ st = [n \in Node |-> "reset"]
    /\ cur = [n \in Node |-> 0]
    /\ todo = [n \in Node |-> {}]
    /\ rd = [n \in Node |-> {}]
    /\ wq = [n \in Node |-> {}]
    /\ fly = [n \in Node |-> {}]
    /\ startq = {} /\ err = {} /\ stale = {}
    /\ flag \in [Part -> 0 .. 1]
    /\ mem = [a \in Beat |-> <<0, 0>>]
    /\ hst = "down"
    /\ toClear = {} /\ toWrite = {} /\ toDump = {}
    /\ clearing = {} /\ writing = {}
    /\ got = [a \in Actions |-> <<0, 0>>]
    /\ chunk = 0 /\ reply = "none"

Next ==
    \/ \E n \in Node : NodeStep(n) \/ Land(n) \/ NodeFault(n)
    \/ HostStep \/ HostOther

Spec == Init /\ [][Next]_vars

\* Clocked logic takes every step it can take; the host process runs on.  It
\* may be asked for nothing, and is never obliged to give up or fail.
Fairness ==
    /\ \A n \in Node : WF_vars(NodeStep(n)) /\ WF_vars(Land(n))
    /\ WF_vars(HostStep)

FairSpec == Spec /\ Fairness

(***************************************************************************)
(* Properties.                                                             *)
(***************************************************************************)
\* Without an error bit, no part ever reads a beat too early or too late: it
\* finds what the latest earlier writer of the same chunk put there.
NoStaleRead == err = {} => stale = {}

\* What was read back was computed in this very chunk, from reads that were all
\* right.
ResultRight == stale = {} /\ \A a \in Actions : Right(End, a, got[a], chunk)

\* An OK answer carries the actions of the chunk that was asked for, whatever
\* happened to earlier chunks, processes and writes.
ActionsCurrent == reply = "ok" => ResultRight

\* The host clears flags and writes inputs only while no node runs, and never
\* starts the array on top of a run: not after an error answer, a timeout, a
\* killed process or an exception either.
HostExclusive ==
    /\ hst \in {"idle", "write", "go", "dump"} => Quiet /\ \A n \in Node : fly[n] = {}
    /\ clearing # {} \/ writing # {} => Quiet

\* A beat that one node has in flight is touched by no other node.
NoRace ==
    err = {} => \A m, n \in Node : m # n =>
        \A w \in fly[m] :
            /\ \A v \in fly[n] : v[1] # w[1]
            /\ todo[n] = {} => w[1] \notin rd[n] \cup wq[n]

\* "They are monotone within a chunk": a flag that is set stays set while the
\* host polls, so a WAIT that was satisfied stays satisfied.
FlagsMonotone ==
    [][hst = "poll" /\ hst' = "poll" => \A p \in Part : flag[p] <= flag'[p]]_vars

\* The abstract service this system implements: an answer counts as the
\* answer to the chunk only if the result is right.
Service == INSTANCE ChunkService WITH
    svc <- CASE hst = "down" -> "down"
             [] hst = "idle" -> "ready"
             [] OTHER -> "busy",
    asked <- chunk,
    answer <- IF reply = "ok" /\ ResultRight THEN chunk ELSE 0

\* Every step of host, nodes and memory is a step of the service or invisible.
ImplementsService == Service!Spec

\* And every command is answered: no WAIT of a chunk waits for ever.
AnswersService == Service!FairSpec
=============================================================================
