# Verification of the pi0 chunk array

The repository runs one *chunk* of the pi0 policy on an FPGA: a program generator
lays the network out over a GDDR6 map and cuts it into instruction streams for an
array of nodes; the nodes run their streams and meet only through *flags* in the
shared memory; a resident host process writes the inputs of a chunk over PCIe,
starts the array, polls until every node has halted and reads the actions back;
a Python runtime and an RPC server put that behind a robot client.

This directory holds TLA+ modules of that system, TLC configurations that check
them on small instances, and theorems that TLAPS proves for every value of the
constants. `PROJECT.json` lists the components, the runs, the hazards, the theorems
and, for every definition, the source lines it models. Paths below are relative
to the repository.

## 1. The system

### Components

**Program generator** (`paper/sw/pi0_chunk_program.py`, with `pi0_chunk_layout.py`
for the memory map and `pi0_chunk_layers.py`, `pi0_chunk_tiler.py` for the
arithmetic). State while it runs: the memory map (sorted regions, allocation
pointer, round-robin windows), the dependence tracker (past accesses, per
region), the sequence number `fi`, one word list per node. Operations: `alloc`;
per *stage*, cut the work over nodes (`split_vector_safe`, column groups), collect
the byte accesses of every part, choose the flags each part waits for
(`DepTracker.deps` in `--sync deps`, all flags of the previous stage in `--sync
barrier`), append WAITs, body and POST to the node's words. Hard: the plan is
right only if *every* pair of conflicting parts on different nodes is ordered, by
a flag or through a chain of them; a missing one shows on hardware as a rare wrong
number. Correct when conflicting parts are ordered, no cycle of WAITs exists,
regions are disjoint, a round-robin buffer is not reused too early.

**Resident host process** (`host/pi0_chunk_run.cpp`, `serve`). State: the command
it is in, the mapped BARs, the cached bridge page, what it has posted. Operations:
set-up with soft reset, `infer` (clear all flags, write inputs, read barrier,
start, poll, read the error vector, dump the actions, answer), timeout, exception,
end. Hard: posted writes, a run that outlives its process, a half-done command
followed by the next. Correct when it touches flags and inputs only while nothing
runs, and an `OK` is about the chunk that was asked for.

**Chain node** (`colpar_node_ctrl.sv`, `colpar_chain_node.sv`, `row_sequencer`,
`colpar_result_port.sv`, `colpar_prog_fetch.sv`, `colpar_tile_loader.sv`) and
**vector node** (`vector_unit/vu_node_ml.sv` and its loaders). State: the position
in the program, the record in hand, the buffers, the settle counters, the
halt/error outputs. Operations: restart, fetch, load, compute, write out, flush,
WAIT, POST, END. Hard: double buffering, a restart in any state, the drain before
a POST, reads in flight when the program changes.

**node_sync.sv**. State: the FSM of one WAIT or POST, the sticky error. A WAIT
polls a flag word until it is at least the operand; a POST writes the flag and
awaits its response. An AXI error sets the error bit and nothing else.

**Write path** (`colpar_result_writer.sv`, `vu_beat_writer.sv`, `vu_wr_merge.sv`):
counters of beats available, assigned and credited to bursts, bursts outstanding;
idle only when all of them are zero. **Read path** (`axi_id_reorder.sv`,
`axi_stripe.sv`, `vu_rd_fanout.sv`, `colpar_nap_mux.sv`): arbitration, striping
over eight channels, and responses put back in request order per AXI ID.

**Host window** (`pi0_chip_ctrl.sv`, `pi0_host_gddr_bridge.sv`, `Dev` in
`pi0_chunk_run.cpp`): one-cycle start pulses to the nodes of a mask, halt and error
vectors, the soft reset, a page register in front of GDDR6 that the host caches.

**Runtime, policy server, robot client** (`paper/sw/pi0_chip_runtime.py`,
`glue/level3/*`). State: the cached child process per argument set, the two files
`inputs.bin` and `actions.bin`, the server's lock and counters. Hard: a child that
died, a late or cut answer, two requests over the same files.

**Lowering** (`paper/sw/pi0_chunk_layers.py`, `pi0_chunk_tiler.py`, the passes and
`main` of `pi0_chunk_program.py`; the same builders make the golden programs of
`pi0_attn_golden.py`, `pi0_siglip_golden.py`, ...). Builders emit, stage by stage,
records for the vector nodes and tiles for the chain nodes, and compute the chip
reference of every array with numpy beside them. Passes then interleave the
cameras, cut stages into row blocks, fuse a dequantisation into the gate behind it
and a quantisation into the record before it. Hard: an offset, a stride or a scale
vector of the wrong block is a legal program that computes a slightly wrong number;
a fusion moves what another record still reads. Correct when every record reads what
the reference uses there, in any order the flags allow, also in the second chunk.

**Arithmetic of a lane** (`vector_unit_ref.py`, `vu_lane.sv`, `vu_pdq.sv`): one datapath
that every operation passes with its own operands, truncating sums and products,
tables for root, exponential and gates. Correct when the lane and the reference agree
bit by bit, and when the numbers are as accurate as the formats allow.

**Quantisation page export** (`scripts/export_pi0_int8_quant_bank_pages.py`). State: the
output directory, the pages, plan and entries so far. It checks a calibration against
a weight store, encodes the scale of every output channel as multiplier and shift,
writes pages, plan, manifest. Hard: it refuses or dies halfway, its directory is
used again, its inputs are edited by hand. Correct when the manifest it publishes is
about the files beside it, and every channel finds its record.

**Not behaviour of the running system**: time models, quantisation studies, synthesis and
board scripts, the older session backend.

### Interactions

    robot client --RPC--> policy server --lines on stdin/stdout--> serve
    serve --posted writes, reads (BAR1, paged)--> GDDR6     (flags, inputs, actions)
    serve --registers (BAR0)--> chip control --pulse--> nodes --halt, error--> chip control
    node --reads, writes, flag polls, flag writes--> GDDR6 <-- the other nodes

The nodes share nothing but GDDR6. The host shares GDDR6 with them and the
registers with the chip control.

### What makes each component correct

| component | properties | state |
|---|---|---|
| synchronisation plan | conflicting parts are ordered (`ConflictsOrdered`) | proved |
| nodes on GDDR6 | `NoStaleRead`, `NoRace`, `FlagsMonotone` | checked, proved |
| serve | `HostExclusive`, `ActionsCurrent` | checked, proved |
| the whole, seen by the runtime | `ImplementsService`; `AnswersService` | checked, proved; checked |
| dependence tracker | `WaitsAsPlanned`: the tables deliver the plan; `ConflictsChained` | checked, proved |
| allocator | `NoSharedStorage`, `InsertNeverRaises`, `LookupExact` | checked, proved |
| cut of a vector stage | `PartsIndependent`, `SlicesAligned`, `RowsOnce` | checked, proved |
| runtime and server | `OwnActions`, `RtcOwn`, `PipeAligned`; `AllAnswered` | checked, proved; checked |
| lowering and passes | `ValuesAsReference`, `ExpectationsMet` | checked |
| tiles, dealing, row blocks, chain node | `FeederSafe`, `AccessesCovered`; `EachSumOnce` | checked, proved; checked |
| vector node, its lanes and writers | `MemAsExpected`, `OutputsAccurate`, `NoBeatLost` | checked |
| quantisation page export | `PublishedCoherent`, `UnboundScalesTraceable`, `PagesServeChannels`, `ScalesEncoded` | checked, proved |
| credits of the result writer, ID reorder, host window | no beat lost; order per ID; a beat goes to its page | not modelled |

## 2. The modules

| module | content |
|---|---|
| `ChunkSync` | constants only: parts, stages, nodes, accesses, the WAITs of both sync modes, and the order `Before` they give |
| `ChunkArray` | EXTENDS `ChunkSync`: host, nodes and memory as a state machine, and its properties |
| `ChunkService` | abstract specification: one `infer` at a time, answered once, `OK` only about the chunk asked for |
| `ChunkArrayInd` | the inductive invariant `IInv` of `ChunkArray` |
| `ChunkLayout` | the allocator of the memory map: windows, the table of regions, lookup |
| `ChunkProgram` | the generator's loop over the stages with the tables of `DepTracker`; INSTANCEs `ChunkSync` over the chunk emitted so far |
| `StageSplit` | `split_vector_safe`: sub-stages, and the slices of their records |
| `PolicyServer` | the request threads of the policy server, the runtime and its child; its child is `ChunkService` |
| `LayerStages`, `VisionStages` | the builders of Gemma and SigLIP layers, of both vision ends and of the action head: stages, and the reference beside them |
| `ChunkPasses` | the chunk put together by `main`, interleaving, row blocks, the two fusions |
| `GoldenStages` | the programs of the golden scripts, from the same builders |
| `ChunkFlow` | EXTENDS these: the program run on a memory of values |
| `GemmTiler` | a GEMM as commands: tiles, slices, dealing to nodes, row blocks, reported ranges |
| `TileBench` | the program of the tile test bench and its results |
| `ChainNode` | EXTENDS these: chain nodes running the commands |
| `XfNumbers` | the number format of the vector unit: rounding, conversion, sums, products, tables |
| `VectorOps`, `VectorLane` | each operation as the reference has it; the lane's datapath and microcode |
| `VectorSuites` | the programs the vector node is verified with, memory image and expected beats |
| `VectorNode` | EXTENDS these: decode, loaders, lanes, packers, drain, writers |
| `QuantRecords`, `QuantInputs` | scale encoding and record packing; the checks of manifests and files |
| `QuantBench` | the fixture of the exporter's self-test and its edits |
| `QuantExport` | EXTENDS these: the export as a process over a directory |
| `MC...` | the instance of the module of that name that its run checks |
| `NumberLemmas` | what the proofs share: products, quotients, least and greatest members of sets of numbers, lists, folds |
| `ChunkArrayProofs`, `ChunkLayoutProofs`, `ChunkProgramProofs`, `StageSplitProofs`, `PolicyServerProofs`, `ChainNodeProofs`, `QuantExportProofs` | theorems and their proofs |

### ChunkSync and the generator

A *part* is what the generator gives one node in one stage: its WAITs, its body,
one POST of the flag with the part's sequence number. `StageOf`, `NodeOf`,
`Reads` and `Writes` stand for what the generator computes about it; accesses are
sets of 32-byte beats. Assumptions say what the rest of the generator provides:
parts are numbered stage by stage (`StageOrderAssumption`); a stage gives a node
at most one part and its parts do not conflict (`StageSplitAssumption`, the reason
for `split_vector_safe`); in barrier mode no stage is empty
(`NoEmptyStageAssumption`); the ranges it works with, `ReadSpan` and `WriteSpan`, may be
wider than what the part touches but never narrower (`SpanAssumption`: `chain_access`
takes the rows of a column block from end to end). `Hits` and `DepsWaits` are `DepTracker.deps`: the latest
conflicting part of an earlier stage on every *other* node; `BarrierWaits` is
`prev_flags`. `DepsWaits` is sound although it waits for one part per node only,
because a node posts its parts in order.

Three modules discharge most of these assumptions from the code of the generator:

- `ChunkProgram` gives the order of the parts and the WAITs. `parts` is what has
  been emitted (`fi` its length), `wtab` and `rtab` are `DepTracker.w` and `.r`, `prev` is
  `prev_flags`. `EmitPart` is one round of the loop over the parts of a stage,
  `CloseStage` what follows the loop. Accesses are byte ranges here and beats in
  `ChunkSync`; `BodyAssumption` says when that comes to the same (writes are whole
  beats, everything lies in a region). The code computes the WAITs of all parts of a
  stage first; as the tables change between stages only, `EmitPart` may compute them
  part by part. Barrier mode does not keep the tables.
- `StageSplit` gives the independence of the parts of a vector stage. `recs` are the
  records, `start` and `next` are `start` and `j`, `subs` the finished sub-stages. A
  record is rows of data: an operand or result moves by `step` bytes a row. The
  words of a record, its opcode and arithmetic are left out. `RecordAssumption`
  and `OwnRowsAssumption` are what the lowering passes provide: buffers start on a beat
  and a record reads and writes different buffers or the same rows.
- `ChunkLayout` gives the map (`MapAssumption` of `ChunkProgram`): `regions`, `next`, `rr` are
  the fields of `ChunkMem`; the sorted list of the code is a set, ordered by the bases,
  and `IsBelow`, `IsAbove`, `RegionOf` are what `bisect` finds in it. `outcome` is the
  exception that ends the generator. An address above the storage of a channel names
  a byte further down (`Storage`, from the docstring of the file: measured on silicon).

### ChunkArray and the running system

| variables | code |
|---|---|
| `st`, `cur`, `todo`, `rd`, `wq` | the state of each node's controller: where it stands, the part in hand, its WAITs, reads and writes still to be done |
| `fly` | beats taken by the node's writer and not acknowledged |
| `startq`, `err` | start pulses on their way; sticky error bits |
| `flag`, `mem` | GDDR6: the flag words and the data beats, as tags of who wrote them |
| `hst`, `toClear`, `toWrite`, `clearing`, `writing`, `toDump`, `got`, `chunk`, `reply` | serve: the step of `infer`, what is still to be posted, what is posted and not landed, what has been read back, the answer |
| `stale` | history: reads that found another tag than the right one |

Data is provenance: a beat holds `<<part, chunk>>` of its last writer, so a read can
be judged right or wrong (`Right`: the latest earlier writer of the same chunk,
else the input of this chunk, else the image).

`Start`, `WaitDone`, `ReadBeat`, `IssueWrite`, `PostArm`, `PostLand`, `PostDone` and
`Halt` are the controllers at the granularity of single beats; `Land` is the
memory side of the writer. `PostArm` has the guard `fly[n] = {}`: both controllers
arm the POST only when the writer is idle. The `...Fault` actions are AXI error
responses: the unit sets the error bit and goes on. `Infer` ... `AnswerOK` are the
lines of `serve` in order; `PollTimeout` ends the process, `HostFail` is its catch
block, `Crash` a kill or the end of input, `Restart` a new process. A soft reset
clears the nodes and drops what they have in flight (a write that does reach the
memory is one that landed before).

What is abstracted, and why it is sound here:

- The WAITs of a part are satisfied in any order: all are needed.
- Reads and writes of a body interleave freely, except that a beat updated in
  place is read first. That is weaker than the order in the code, so it has all
  its behaviours. What happens inside a body is in `ChainNode` and `VectorNode`.
- `ReadBarrier` uses a PCIe ordering rule (a read returns after earlier posted
  writes); it is outside the repository.
- `PollHalted` happens only once every pulse has been delivered. A poll is a PCIe
  round trip, a pulse some cycles (comment at `pi0_chip_ctrl.sv:84`).
- `ImageAssumption`: a beat that is neither input nor written by an earlier part is
  not written by a later one either; else the second chunk would read the first
  one's data in place of the image.
- `MaxChunk` bounds the number of commands, `MaxPosted` how many host writes are in
  flight; neither is a limit of the program.

### ChunkService

`ImplementsService` maps `serve`, nodes and memory to it. The mapping counts an `OK`
as an answer about `chunk` only when every read of the run was right and every
action read back is the one of this chunk (`ResultRight`); otherwise the step has no
counterpart and the refinement fails.

### PolicyServer

| variables | code |
|---|---|
| `thread`, `rtc`, `code`, `body` | per request: where `do_POST` stands, the `rtc_config` it carries, the status it got and whose actions |
| `lock`, `applied`, `config` | `State.lock`, `State.rtc_applied`, `policy.config.rtc_config` |
| `unbuilt` | history: the request whose configuration the policy was given without a processor |
| `inputs`, `actions` | the two fixed files, by the number of the request whose data they hold |
| `cached` | an entry in `_SERVERS` |
| `cmd`, `line` | the child's stdin and stdout |
| `svc`, `asked`, `reply`, `answer` | the child, as `ChunkService` has it: each step of the child is a step of that module, and `ChunkArray` is shown to implement it |
| `job`, `undumped`, `board` | history: whose inputs the child took; whose actions file it could not open; whether a chunk failed and the operator repaired the board |

`Acquire` is the lock and `apply_rtc`, `Fail` the except branch of `do_POST`, which every exception of the
policy and the runtime reaches. `apply_rtc` may raise on both sides of its assignment:
`RtcInvalid` before it, `RtcHalfApplied` in `init_rtc_processor()` after it
(`pi0_policy_rpc_server.py:60-62`). Then the policy has the new configuration and `rtc_applied` still
says the old one, so a request that carries the old one returns early and meets a configuration
that is not its own. `RtcOwn` says how far this goes: such a request meets only the configuration
of a client that was answered 500, and with it nothing but the policy's own check
(`_rtc_enabled()`, `pi0_fpga_policy.py:341`), which refuses every request as long as the policy has one
(`"rtc"` stands for an enabled configuration, what `lerobot_rollout` sends). Nothing is computed under a
configuration the client did not ask for, but requests without RTC are answered 500 until
one with RTC has been applied and one without follows. Files are opened, which empties them, and filled in separate steps.
`ChildOKUndumped` is the dump to a stream nobody checks (`pi0_chunk_run.cpp:567`): the file keeps
the actions of an earlier request and the answer is OK. `OwnActions` makes an exception of just
these requests, recorded in `undumped`; for all others it claims that a client gets its own actions.
A client that gives up (`request_timeout_s`) changes nothing in the server, so it is not an
action: its request goes on, and the client may send another. The health page only reads.
Until the board is repaired everything may go wrong at any time; after that nothing does, which
makes `RepairedServes` the strongest chance a recovery can get.

### LayerStages, VisionStages, ChunkPasses, GoldenStages, ChunkFlow

What the builders emit and what they compute with numpy are written down separately, as
in the source. A *record* names the regions and offsets it reads and writes; a
*reference* entry says from which elements of which arrays an array is computed. Both
have the names of the source (`"hq"` the array, `"HQ"` the region). Data is cells: a row
of a wide matrix is one cell, a Gemma head two (the halves RoPE swaps), a SigLIP head and
an MLP sub-block one.

| variables | code |
|---|---|
| `opts` | the command line: fusions, row blocks, interleaving, `--sync`, where the vision input comes from |
| `prog` | the program these give, never changed: its stages, what each waits for, the cells of every region, the reference, what is compared in the end |
| `pos` | the last stage each kind of node has run |
| `mem` | GDDR6: a cell holds the array, the index and the chunk of the element it is; a row result the array and row; a summary the elements it covers |
| `chunk` | the request: between two chunks only `ChunkIO.encode` writes |

`RunStage` runs the records of a stage. Every operand is compared with the reference
(`Matches`), the row summary with the elements it must be of (`RowReduction`), of a fused
record also what the fused operation would have read. A record that reads anything
else writes `Wrong`, and `ValuesAsReference` says that this never happens;
`ExpectationsMet` that what the generator still expects after the fusions is in memory
in the end. Stages of different kinds run in any order their dependences allow.
A stage is one step: that parts within a stage do not disturb each other is `StageSplit`.

### GemmTiler, TileBench, ChainNode

`GemmTiler` follows a GEMM from its size to the words of every node: the shares of the
depths (`split_cols_mixed`), images, row slices, column groups in halves of the feeder,
`chain_groups` and `lpt`, row blocks, and the ranges `chain_access` reports.
`ChainNode` runs the words: `pc` and `st` are the command and the state of the executor,
`ld` the load under way, `bram` the feeder and the stage memories, `cg` what is left of a
column group, `tile` the sequencer's, `wr` the result writer's block and gap. From
`StartLoad` to `LoadDone` the words being loaded are neither old nor new, so a sequencer
that reads them makes a wrong sum. A load or a group that is done stays done until the executor
asks (a level), so a done pulse that comes late or too early is not exercised. `out` says for every cell of the product which node
wrote the right sum there, or that something is wrong. `EachSumOnce` then covers the
whole way; the spacing of row passes is part of it (`Spaced`). `Fits` is what the memories of a
node ask of a command; the node itself checks none of it.

Words come in beats of two, so rows must begin on a beat: `CaseAssumption` has every K even
in words. The tiler does not assert it; every K of the network is a multiple of 32. It also has
what the tilers assert of a matrix (columns in whole groups of every depth) and what makes sense of
their arguments (tiles are asked for only if there are columns for them, a row block has rows);
`GoldenAssumption` and `BenchAssumption` are the assertions of the two golden scripts, and the
one `--n-stage` the wide GEMM has for all its nodes. The
rates of the depths are kept as exact fractions. `AccessesCovered` is about parts of
the generator, so not about the hand-made bench.

### XfNumbers, VectorOps, VectorLane, VectorSuites, VectorNode

Formats and tables are parameters, and small: an internal mantissa of 7 bits in place of
24, 3 of bf16 in place of 8, exponents of 4 bits, tables of 4 entries in place of 2048.
The reference functions of `vector_unit_ref.py` (`VectorOps`) and the lane (`VectorLane`, with its
own order of sums, its identities for unused stages and its row-end microcode) stay
different formulas over shared numbers, as they are in the source. The tables of the gates
are sampled, not computed from the error function.

`VectorSuites` lays a program out in memory as `vu_node_golden.py` does: a beat is a set of
fields <<byte, width, value>>, a field of value zero is none, records get images of their
own, draws are short fixed sequences.

| variables | code |
|---|---|
| `pc`, `st`, `rowsLeft` | the record, the state of the node's FSM, rows still to be done |
| `slot`, `pend`, `slots` | slot being loaded, loaders still at it, the slot memories |
| `lane` | per lane: rows run, results in the pipe, packer, its beats and summaries |
| `drain`, `issued`, `pushing` | per writer: what the lanes still hold, what stage 0 of the drain has read, the beat on its way into the queue |
| `epos`, `ecarry`, `spack` | the partial element and summary beats carried from lane to lane and chunk to chunk |
| `wq`, `wnext`, `bus` | the two beat writers; bursts not answered |
| `mem`, `lenErr`, `dropped` | beats written; a row refused as too long; a beat pushed into a full queue |

`RunRow`, `Collect` and `Finish` let lanes get ahead of each other; `Load(n)` does the same for
loaders. A packer takes the elements of a row at once, the pipe holds what two rows
leave, the summary of a quantised row stands just before its elements (in the lane: a
pipe's length before). `Drain` is a clock of both drains: stage 0 looks at the queue and reads, stage 1
merges what was read the clock before, the beat it handed on then reaches the queue; so two
beats may be on their way that stage 0 does not see. The memory takes beats and answers between any two
clocks, or not for a long time. `WrMargin` is the least that serves two stages, 2; the build has two more
(`AFULL_MARGIN`). `wq` includes the register behind the FIFO, and a burst is decided on what the queue has
now, not a clock before. Left out are row striding (`e_blk`, `e_gap`) and the polling of WAITs.

### QuantRecords, QuantInputs, QuantBench, QuantExport

| variables | code |
|---|---|
| `files` | weight store and calibration files: content by path |
| `wman`, `cman` | the weight and the calibration manifest |
| `out` | the files under the output directory |
| `run` | how far the export is, why it refused, its pages, plan and entries |

`Start` is the check of both manifests, `RefuseEntry` any `raise` on an entry's inputs,
`RefuseChannel` one on a scale or bias the record cannot hold, `ExportEntry` the writes for one
matrix, then plan, manifest and summary, each a step of its own; `Kill` comes between any
two, `KillWriting` inside the write of a payload. `Edit` and `Recalibrate` change the inputs
between two runs in the same directory: the edits of the exporter's self-test and the ones
its comments discuss; during a run the inputs stay as they are. Optional fields are
sequences of at most one. A hash is the content itself; `StoreAssumption` says that the store was
exported with the hashes of its own scales. Scales are exact fractions; the
rounding of float32 and of `log2` is left out, with which the loop that lowers the shift
never fires.

Two things the model reaches that a reader should know. A refusal leaves payloads without
a `quant.json` (comment at line 107); in a directory used before, the earlier `quant.json` is
still there and names payloads that may be overwritten by then, so `PublishedCoherent` is
about the run that publishes. And a weight store whose scales, hashes and extrema are
restamped together passes all checks, as the comment in the code says;
`UnboundScalesTraceable` makes exactly this exception, and says that such an export names a
weight manifest that is not the store's.

## 3. The runs

One instance, `MCChunkArray`: six parts in four stages on two vector nodes and one
chain node, six data beats. It has every kind of dependence the generator
meets: a stage split in two, a gather from both, an in-place update of an input, a
buffer used again after a read on another node (the *only* order between these two
parts is the write-after-read dependence), a constant of the image. Two chunks make the
flags, the buffers and the answers of the first one visible to the second; two posted
writes are enough for them to land in either order; one node may have AXI errors.

| run | question |
|---|---|
| `chunk_array_deps` | with `--sync deps`: is every read right, is there no race, does the host keep out of a run, is an `OK` about its chunk, are flags monotone, is the service implemented? (1.6 million states) |
| `chunk_array_barrier` | with `--sync barrier`, is `IInv` invariant, from which the same follows? (1.3 million states) |
| `chunk_array_deps_live` | is every `infer` answered, i.e. is no set of WAITs circular? |

These runs check deadlock freedom too: the host can always be restarted, so a
deadlock would be an error of the model. So do the runs of the nodes and of the values, where
the end is a step that changes nothing. The runs of the generator and of the exporter do
not: these programs end.

| run | question and bounds |
|---|---|
| `chunk_layout` | every sequence of requests for 1 to 4 bytes until the generator ends: an area of one window and one of two, in two channels whose addresses alias. Windows of 4 and 8 bytes fill up after a few requests, so round robin, wrap-around, a window that is skipped and the failure all occur (622 states) |
| `chunk_program` | every chunk of up to four parts on three nodes, from three bodies, in both modes. Four parts are the least for a chain over two other nodes and back; the bodies have ranges inside a region, over two, next to a hole, at the first and last beat, and reads of single bytes (62,786 states) |
| `stage_split` | every stage of up to three of seven records on three nodes, with beats of 32 bytes and the row counts of the code (34 tokens, 68 head rows). Two records are needed for a cut, three for a cut in the middle and for a record that changes the granularity of those before it (1,533 states) |
| `policy_server` | four requests, all of which may be under way at once: does a client get its own actions and configuration, is no answer left in the pipe for the wrong request, is every request answered? Three suffice for one that fails, one that waits and one that follows; the fourth starts on what all of them left behind (150,810 states) |
| `policy_server_repair` | the finding below, with two requests |
| `chunk_flow` | four command lines (all passes, none, two mixtures; both vision inputs; both sync modes) with two cameras of two tokens, one language row, two action tokens, one layer of each kind and two Euler steps; six golden programs. Two heads and two sub-blocks tell the first from the later ones, two steps the x_t of a step from the noise, two chunks a region that is not rewritten (888 states, of up to some hundred cells each) |
| `chain_node` | eight GEMMs on one or two nodes of depths 2 and 4 with memories of 8 words: mixed depths with a remainder, row blocks in halves of the feeder, blocks of columns with a gap, LOADX columns with a stride and several row slices, both forms of the wide GEMM, the bench (3,034 states) |
| `vector_node` | the suites of the node's bench (base, multi-lane, wide, dequantising prefix, attention, softmax pairs, random) on one to three lanes and loaders, with and without the quantising tail; slots of 8 or 16 elements, words of 2, so chunks, straddled words, partial beats at every lane boundary and a refused row occur; queues of 4 with a margin of 2 and bursts of 2; one bench has slots of 16 and 32-bit outputs, so a lane drains four beats in a row, which a margin of 1 would lose (140,283 states) |
| `quant_export` | the two matrices of the self-test on pages of two channels and two cores (three pages: cores wrap, the last is half full), the self-test's calibrations and further ones, any two edits, two runs (95,539 states) |

`vector_node` needs two yardsticks, since a node that does what its golden model does may
share its mistakes. `MemAsExpected` compares with the golden beats; `OutputsAccurate` with
exact integer arithmetic: sums and rotations within a unit in the last place, codes
within three quarters of a step, probabilities in the order of their logits, none for
masked keys, and with a sum near one, gates between zero and their operand.

**Finding** (`policy_server_repair`, expected to be violated). For a node error or a chunk timeout
the documentation has the operator look at the error bits, soft reset and load the image again
(`glue/level3/README.md:101`). After a timeout the child has ended (`pi0_chunk_run.cpp:564`) but is
still in `_SERVERS` (`pi0_chip_runtime.py:180`), so the repaired board is never asked again: every
request is answered 500 until somebody restarts the policy server, whose health page says that it
is well.

Fairness of `PolicyServer`: weak, for each request's thread and for the child, whose wait for the nodes
`--timeout-s` bounds. Requests are finite in number, so weak fairness gets each of them the lock;
Python's lock promises no order among waiting threads, and with an endless stream of requests
one of them could wait for ever.

Fairness of `ChunkArray`: weak, for each node's controller, each node's writer, and the
host's own steps. The first two are clocked logic behind arbiters that serve every
requester; the third is a process that runs. Nothing is assumed of timeouts,
crashes, exceptions, AXI errors or new commands: they may happen or not. The
liveness runs have no AXI errors and one chunk; a node whose flag write is lost
would stop the array, and only the timeout answers then.

Every property has a mutant: a plausible bug in one action or operator under which
TLC finds it violated. They stand before the definition they change. Three are bugs that
comments of the source tell of: `SliceCmdRefit` (a row block that took a new group size),
`LaneBytesOfFirst` (lanes placed by the first lane's bytes), `FinishEarly` (a lane done with
its quantised elements still on their way).

## 4. The proofs

`ChunkArrayProofs!ConflictsOrdered`: under the assumptions of `ChunkSync`, of two
conflicting parts the earlier has posted before the later may start, in both
modes. Deps mode: the latest hit on the earlier part's node is at or after it, and
that node posts in order. Barrier mode: by stages, each part waits for all flags of
the stage before, and no stage is empty.

`ChunkArrayProofs!Invariance`: `IInv` is an invariant. The safety properties are not
inductive; what they need is a description of a run in progress:

- `NodesOK`: each controller's fields agree (a write in flight belongs to the part in
  hand, was not read since, the part is not posted);
- `HostOK`, `PreparedOK`: outside of polling nothing moves; what is not still to be
  cleared or written, or in flight, is cleared and written;
- `FlagsOK`, `WaitsOK`, `OrderOK`: a flag is set exactly if its part has posted, a WAIT
  that is ticked off was for a posted part, a part begins only after all parts
  `Before` it have posted;
- `MemoryOK`, `ImageOK`: a beat holds its latest landed write of this chunk, else the
  input or image; 
- `DumpOK`, and `ActionsCurrent` itself.

The middle group and `MemoryOK` hold as long as no error bit is set (`CleanRunOK`).
`OrderOK` is carried from part to part by the lemma `BeforeStep`; with
`ConflictsOrdered` it gives that the tag in memory is the right one when a part
reads (`ReadIsRight`). From `IInv` follow `TypeCorrect`, `ReadsAreFresh`,
`AnswersAreCurrent`, `HostIsExclusive`, `NoRaces`, `FlagsAreMonotone`, and
`ServiceImplemented`, the refinement of `ChunkService`. All of it is for any number
of nodes, beats, parts, chunks and posted writes, in both modes, with errors, timeouts
and restarts, from the named assumptions only (`PlanAssumption`,
`StageOrderAssumption`, `StageSplitAssumption`, `NoEmptyStageAssumption`,
`ArrayAssumption`, `ImageAssumption`).

`ChunkProgramProofs!WaitsArePlanned`: at any time the tables hold, for each region,
exactly the accesses of the closed stages that have a byte in it; so the entries
found in the buckets of a range are the parts that `ChunkSync` calls `Hits`
(`BucketsExact`: the buckets are the regions the range has a byte in, because regions are
disjoint and in order), and the highest number per node is `DepsWaits`. From
`MapAssumption` and `BodyAssumption`. `ChunkIsChained` is the same order as
`ConflictsOrdered`, seen from the tables and for byte ranges (`ConflictsChained`): of two parts on
different nodes that touch a common byte, the earlier is reached by the WAITs of the later.

`ChunkLayoutProofs`: regions lie in their windows, one after the other below `next`.
Hence no two overlap, the checks of `_insert` never raise, a lookup that takes one
candidate finds the right one, and, as windows lie inside the storage of a channel, no
byte of storage has two addresses in use. From `LayoutAssumption`,
`InsideChannelAssumption` (the assertion in the file) and `WindowsApartAssumption` (the
tables in the file).

`StageSplitProofs`: every finished sub-stage was found free of hazards or has a single
record. The loop never looks at single records, so `PartsAreIndependent` needs that the
slices of *one* record never clash (`OwnSlicesApart`): cuts are multiples of the
granularity, these are whole beats in every row-indexed buffer (`SliceMultiple`), and the
last, shorter slice has nothing after it. `SlicesAreAligned` is the claim of
`slice_gran`'s docstring that "checking one multiple checks them all". The
recursion of `Split` is unfolded by induction over the records, through the
well-foundedness of strict inclusion (`LeastNumber`). `RowsAreCutOnce`: the slices of a record
begin where the one before ends, so each row is in exactly one of them. From `RecordAssumption`
and `OwnRowsAssumption`.

`PolicyServerProofs`: the invariant says who holds the lock (`LockOK`), that the policy has what
`rtc_applied` says or what the last request that could not be built left there (`RtcOK`), whose inputs lie in
the files (`InputsOK`), and where the exchange of a waiting request stands: told, taken by the child,
answered, or given up by a child that ended (`PipeOK`); when nobody waits the pipe is empty and the
child idle. That the pipe carries no request number then does no harm, because a thread
leaves only with the answer in hand or after the end of the child. `ActionsAreOwn`, `RtcIsOwn`
and `PipeIsAligned` follow, for any number of requests; from `RequestAssumption`.

`ChainNodeProofs`: the invariant (`TileRuns`, `GroupReady`) says where the loader is when the
sequencer runs: at rest, or at most one group of rows ahead in the *other* half of the
feeder, with no more words than the half has. So `FeederIsSafe`: no word the sequencer has still to read is
filled. It needs that the commands fit the memories (`Fits`: the rows of a double-buffered group fit
half a feeder, columns a stage memory), and neither the tilers' callers nor the node check that.
`ProgramsFit` proves it of every program of every GEMM, so `Invariance`, `TypeCorrect` and `FeederIsSafe` have no
hypothesis but the assumptions on `Case`. On the way: a class of nodes gets a whole number of
columns whatever its rate (`SharesIn`), and tiles cut as evenly as `ClassTilesFit` and
`UniformTilesFit` do have a column each and no more than a stage holds; row slices have rows
(`SlicesOfRows`); every group the tiler makes fits, for any rows, width, stride and depth
(`TilerGroupsFit`), and still does when its rows are cut (`SlicedGroupsFit`; the bug of
`SliceCmdRefit` broke this one); dealing tiles to nodes adds nothing, wherever `Lpt` puts them
(`SplitProgram`). The lists are put together by folds, whose values the prover gets from
`FoldKeeps` and `FoldMeets` of `NumberLemmas`: a least counterexample in place of induction.

`AccessesAreCovered` of the same module: what a part reads and writes at run time lies in the ranges
`chain_access` reports of it, so the tracker misses no WAIT on account of a range. A range is computed
from three commands that stand apart: the cells of a column group from the last OUT before it, the
group's rows, and a depth that is that of the deepest load of the *whole part*. Two things are
shown.

- Of the programs (`PartsSound`): every part has the shape this needs (`Sound`). A column group is led by an
  OUT with nothing but loads between, a block of this OUT is one row of the tile, and the deepest load
  of the part is that of the node's own depth. `TaggedBy` is the form this takes before the tiles are
  dealt: each command has the depth of its tile, and a tile begins exactly where `ChainGroups` cuts.
  `TileCmdsTagged` shows it of the tiler's output, `SlicedTagged` that the row cut keeps it,
  `UnitOfTiles` and `SplitSound` that cutting and dealing give each node tiles of its depth only.
- Of the node (`WhereTheyAre`, on top of `IInv`): the result writer has the base, block and gap of
  the OUT that leads the command and is on by the beats of the rows made since, `Made`; the loader is at the
  load of the command or at rows of the group (`AInv`).

The rest is arithmetic (`CellWithin`, `GroupWritesCover`, `GroupReads`): the beat of a record over the beats
of a block is the row, and the gap puts it on the row's line. `PartAtWork` finds the part a node is at
in the flattened program by the sums of the parts' lengths, as `AccessAt` does.

`QuantExportProofs`: the invariant says what is on disk for each entry already exported (`EntryKept`:
its payload, its folded scales, where its pages end) and what the manifests have been checked
for (`Progress`). Keys are unique in an accepted manifest, so no entry overwrites the
files of another; a kill, a refusal or an edit ends the run the claim is about. Hence
`PublishedIsCoherent`. `ScalesAreTraceable` carries over all exports of a
directory that a published manifest is one of the store's only if each entry was bound to the store's
scales when it was exported. For any store, calibrations and edits, from `StoreAssumption` (the store's
manifest names what is in its files when it was written) and the assumptions on widths and units.

A second invariant, `Served`, is about what was exported: each channel's record is the channel's and
could be encoded, the rest of a last page is blank, and the plan is the lines of the
entries done, no other. `PagesAreServed` follows because a record reads back as it was packed (`PackedBack`,
for any widths of the fields: `FieldsOf` takes a record apart digit by digit), because a channel is in one
line, that of its page (`OneLine`), and because no two entries name the same file. `ScalesAreEncoded`
rests on `EncodeIsBest`: of all multipliers and shifts of the hardware, none meets the limit unless the
pair `Encode` finds does. A lower shift is a multiple of the same step, so rounding is at least as
near; a higher one is beyond the greatest multiplier, so its best multiplier is short by
more than the step of the pair found. That last part needs a limit no finer than
one step, `LimitIsMet`: 1e-4 against 1 / 65535 by default. A `--max-relative-error` below that may refuse
a scale just above 65535 / 2^s that the multiplier 65535 with the shift s would have met;
so the theorem has `LimitIsMet` as its hypothesis (the instance meets it:
10 against 15). `FittedIsLogShift` shows on the way that, in exact arithmetic, the loop that lowers the
shift never runs; it is there for the rounding of `log2`.

Each module also proves its `TypeOK`, save for `ChunkFlow`; `VectorNode` has none.

Only model-checked, and why:

- Liveness (`AnswersService`, `AllAnswered`, `RepairedServes`): fairness is out of the prover's reach. That
  the instances meet the assumptions is what TLC evaluates.
- `EachSumOnce` of `ChainNode`: that the shares, tiles and row cuts together cover every cell once is a
  claim about the values of nested folds over all tiles and all nodes at once. What is proved of
  it is that no step of it leaves the memories (`ProgramsFit`, `FeederIsSafe`) or the reported ranges
  (`AccessesAreCovered`).
- `ChunkFlow` and `VectorNode`: claims about given programs, whose words are computed by folds over
  lists of records. They hold for these programs and for small numbers.

## 5. Plan

Done: the core (`ChunkSync`, `ChunkArray`, `ChunkService`), the generator (`ChunkLayout`,
`ChunkProgram`, `StageSplit`), runtime and server (`PolicyServer`), the lowering by values
(`ChunkFlow`), the GEMM on chain nodes (`ChainNode`), the vector node (`VectorNode`) and the
export (`QuantExport`), with the theorems of section 4. Next, theorems for every value of the
constants:

1. `EachSumOnce` of `ChainNode`. `PartsSound` gives the shape of a part; what is missing is that the
   cells of the groups of all parts partition the product, from `Shares` down to the row cut, and an
   invariant that ties the words of the feeder and the stages to the rows and columns loaded.
2. The writers of `VectorNode`: no beat is dropped (`NoBeatLost`), for every depth and every margin of
   at least 2.

After that, as further modules: the result writer's credits and the reorder unit
against a queue of beats that all land once and in order; register writes, paging bridge
and halt lag against the host's cached page.

## 6. Not modelled, and why

- The BAR1 paging bridge, accesses of the host that fail unnoticed, and the lag of the halt
  vector: protocols of registers and cycles, for which the host would have to be modelled one
  access at a time. `ChunkArray` takes posted writes and reads as they come out of it.
- Striping, the reorder unit, arbitration, the program fetch with its reads in flight, and
  the burst credits of the result writer. The nodes are modelled against a memory that
  answers in order, and `ChainNode`'s writer puts each record where its counters say.
- Pipelines inside the datapaths and the sums of products themselves (the MLP cascade):
  bit-exact and compared with references by the testbenches. Which words a sum is of
  is modelled.
- Contents of captures and weights, accuracy of the network, time models and quantisation
  studies (`prefix_w8a8_eval.py`, `pi0_chunk_time.py`, `pi0_ae_model.py`): statistics over data,
  without state of their own.
- Synthesis, board scripts, bitstreams, vendor IP and the older session backend are not on
  the path of a chunk. The image load and the `run`, `selftest` and `probe` commands of the
  host tool share the primitives of `serve`.
