----------------------------- MODULE QuantBench -----------------------------
(***************************************************************************)
(* The inputs of run_self_test of export_pi0_int8_quant_bank_pages.py: two  *)
(* weight matrices with their sidecars, their calibrations in each spelling *)
(* of an output scale, and the ways the test doctors the weight store.      *)
(* Channel counts and scales are those of the test, scaled down.            *)
(***************************************************************************)
EXTENDS QuantInputs, Functions, TLC

CONSTANT Matrices   \* [slot -> [layer, channels, act, out, scales]], the fixture's rows

K == 2   \* rows of a matrix (32 in the test)

Slots == DOMAIN Matrices
BenchKey(slot) == <<"prefix", Matrices[slot].layer, slot>>
ScaleFile(slot) == <<"beside", <<"scales", slot>>>>
WeightFile(slot) == <<"beside", <<"payloads", slot>>>>
InStore(path) == <<"store", path[2]>>     \* the same file under --weight-payload-root
OscalePath(slot) == <<"beside", <<"oscales", slot>>>>

Quantised(slot) == [of |-> slot, bytes |-> K * Matrices[slot].channels]

BenchFiles ==
  [p \in {ScaleFile(s) : s \in Slots} |-> Matrices[p[2][2]].scales]
    @@ [p \in {WeightFile(s) : s \in Slots} |-> Quantised(p[2][2])]
    @@ [p \in {OscalePath(s) : s \in Slots} |->
          [c \in 1..Matrices[p[2][2]].channels |-> Matrices[p[2][2]].out]]

BenchWeight(slot) ==
  LET f == Matrices[slot]
  IN [key |-> BenchKey(slot), channels |-> f.channels, shape |-> <<K, f.channels>>,
      nbytes |-> <<K * f.channels>>,
      payload |-> Places(<<WeightFile(slot)>>, <<WeightFile(slot)[2]>>, <<"store">>),
      sha |-> <<Quantised(slot)>>,
      scale |-> Places(<<ScaleFile(slot)>>, <<ScaleFile(slot)[2]>>, <<"store">>),
      scaleSha |-> <<f.scales>>, extrema |-> <<SeqMin(f.scales), SeqMax(f.scales)>>,
      source |-> <<>>]

BenchWeights == [schema |-> TRUE, status |-> "payloads_exported",
                 entries |-> <<BenchWeight("q"), BenchWeight("k")>>]

(* One calibration entry; source is "inline" or "sidecar". *)
BenchCalibration(slot, mode, source, declared) ==
  LET f == Matrices[slot]
      spelled == CASE mode = PerTensor -> [kind |-> "number", values |-> <<f.out>>]
                   [] source = "inline" ->
                        [kind |-> "array", values |-> [c \in 1..f.channels |-> f.out]]
                   [] OTHER -> [kind |-> "absent", values |-> <<>>]
  IN [key |-> BenchKey(slot), act |-> f.act, actZp |-> 0, outZp |-> 0,
      output |-> spelled,
      oscale |-> IF spelled.kind = "absent"
                 THEN Places(<<>>, <<OscalePath(slot)[2]>>, <<>>) ELSE <<>>,
      mode |-> IF mode = PerChannel /\ declared THEN <<mode>> ELSE <<>>,
      tokens |-> <<>>, biasMode |-> "none", bias |-> <<>>]

SelfTestCalibration(mode, source, declared, tokens) ==
  [schema |-> TRUE, status |-> "synthetic_debug", real |-> FALSE,
   tokens |-> tokens,
   entries |-> <<BenchCalibration("q", mode, source, declared),
                 BenchCalibration("k", mode, source, declared)>>]

(* The calibrations run_self_test exports, and those it expects refused. *)
ThinTokens == {<<>>, <<1>>, <<TokenFloor - 1>>}
ExportedCases ==
  {SelfTestCalibration(PerTensor, "inline", TRUE, <<>>),
   SelfTestCalibration(PerTensor, "inline", TRUE, <<1>>),
   SelfTestCalibration(PerChannel, "inline", TRUE, <<2 * TokenFloor>>),
   SelfTestCalibration(PerChannel, "sidecar", TRUE, <<2 * TokenFloor>>),
   SelfTestCalibration(PerChannel, "inline", TRUE, <<TokenFloor>>)}
RefusedCases == {SelfTestCalibration(PerChannel, "inline", TRUE, t) : t \in ThinTokens}

-----------------------------------------------------------------------------
(* What the test does to the weight store. *)

Updated(f, p, v) == [x \in DOMAIN f \cup {p} |-> IF x = p THEN v ELSE f[x]]

FoldIntoWeightScales(files) ==
  [p \in DOMAIN files |->
    IF p \in {ScaleFile(s) : s \in Slots}
    THEN [c \in DOMAIN files[p] |-> files[p][c] * (1 + ((c - 1) % 2))] ELSE files[p]]

SwappedPayload(files) ==
  Updated(files, WeightFile("q"), [of |-> "ones", bytes |-> K * Matrices["q"].channels])

AbsentPayload(files) == Restrict(files, DOMAIN files \ {WeightFile(s) : s \in Slots})

EditWeightManifest(wman, Mutated(_)) ==
  [wman EXCEPT !.entries = [i \in DOMAIN @ |-> Mutated(@[i])]]

MissingScaleSha(wman) == EditWeightManifest(wman, LAMBDA e : [e EXCEPT !.scaleSha = <<>>])
MissingPayloadSha(wman) == EditWeightManifest(wman, LAMBDA e : [e EXCEPT !.sha = <<>>])
RestampedExtrema(wman) ==
  EditWeightManifest(wman, LAMBDA e : [e EXCEPT !.extrema = <<@[1], @[2] + 8>>])
NoDirectPath(wman) ==
  EditWeightManifest(wman, LAMBDA e :
    [e EXCEPT !.payload = Places(<<>>, <<WeightFile(e.key[3])[2]>>, <<"store">>)])

(* The coordinated edit of the exporter's comment: the hashes follow the    *)
(* bytes on disk.                                                           *)
Restamped(files, wman) ==
  EditWeightManifest(wman, LAMBDA e :
    IF Found(files, e.scale)
    THEN LET s == Resolved(files, e.scale)
         IN  [e EXCEPT !.scaleSha = <<s>>, !.extrema = <<SeqMin(s), SeqMax(s)>>]
    ELSE e)
=============================================================================
