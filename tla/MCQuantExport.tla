--------------------------- MODULE MCQuantExport ---------------------------
(***************************************************************************)
(* The self-test's two matrices on pages of two channels and two cores: q   *)
(* takes three pages, so its cores wrap round and its last page is half     *)
(* full.  The calibrations are the test's, and more that an operator may    *)
(* hand over: columns that differ, a bias, a count on one entry, a scale    *)
(* too fine for the hardware, contradictory spellings.                      *)
(***************************************************************************)
EXTENDS QuantExport, QuantBench

MCMatrices ==
  [q |-> [layer |-> 0, channels |-> 5, act |-> 2, out |-> 4, scales |-> <<2, 3, 5, 6, 8>>],
   k |-> [layer |-> 0, channels |-> 2, act |-> 1, out |-> 2, scales |-> <<2, 8>>]]

BiasFile == <<"beside", <<"bias", "q">>>>

MCFiles == Updated(BenchFiles, BiasFile, <<0, -9, 3, 1, -1>>)

Honest == SelfTestCalibration(PerTensor, "inline", TRUE, <<>>)
WithQ(doc, e) == [doc EXCEPT !.entries[1] = e]
Q == Honest.entries[1]
Array(values) == [kind |-> "array", values |-> values]
Uneven == Array(<<4, 3, 4, 5, 4>>)

MCCalibrations ==
  ExportedCases \cup RefusedCases \cup
  {WithQ([Honest EXCEPT !.tokens = <<TokenFloor>>], [Q EXCEPT !.output = Uneven]),
   WithQ(Honest, [Q EXCEPT !.output = Uneven, !.tokens = <<TokenFloor>>]),
   WithQ([Honest EXCEPT !.tokens = <<TokenFloor>>],
         [Q EXCEPT !.output = Uneven, !.tokens = <<TokenFloor - 1>>]),
   WithQ(Honest, [Q EXCEPT !.output = Uneven, !.mode = <<PerTensor>>]),
   WithQ(Honest, [Q EXCEPT !.biasMode = "float32_per_output_channel", !.bias = <<BiasFile>>,
                           !.outZp = -1]),
   WithQ(Honest, [Q EXCEPT !.output.values = <<40>>]),
   WithQ(Honest, [Q EXCEPT !.output.values = <<7>>]),
   [Honest EXCEPT !.entries[1].outZp = 1, !.entries[2].output.values = <<40>>],
   [Honest EXCEPT !.status = "calibrated"]}

StaleCopy(fs) == Updated(fs, InStore(WeightFile("k")), [of |-> "ones", bytes |-> K * 2])

ColumnsReversed(fs) ==
  [p \in DOMAIN fs |-> IF p \in {ScaleFile(s) : s \in Slots} THEN Reverse(fs[p]) ELSE fs[p]]

MCFileEdits(fs, ws) ==
  {ColumnsReversed(fs), FoldIntoWeightScales(fs), SwappedPayload(fs), AbsentPayload(fs), StaleCopy(fs)}

MCWeightEdits(fs, ws) ==
  {MissingScaleSha(ws), MissingPayloadSha(ws), RestampedExtrema(ws), NoDirectPath(ws),
   Restamped(fs, ws)}
=============================================================================
