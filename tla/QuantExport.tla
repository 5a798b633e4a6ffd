----------------------------- MODULE QuantExport -----------------------------
(***************************************************************************)
(* export_quant_pages of export_pi0_int8_quant_bank_pages.py as a process   *)
(* over a file system: it checks the manifests, writes the pages of one     *)
(* weight matrix after another, then the plan, then quant.json, then the    *)
(* summary.  A refusal or a kill may come at any entry, the output          *)
(* directory is kept from run to run, and between runs the calibration, the *)
(* weight store and its manifest may change.                                *)
(***************************************************************************)
EXTENDS QuantInputs, SequencesExt, TLC

CONSTANTS Channels,       \* QUANT_CHANNELS
          TensorCores,    \* QUANT_TENSOR_CORES
          AllowDebug,     \* --allow-debug-calibration
          HonestFiles, HonestWeights,   \* the weight store as it was exported
          Calibrations,                 \* the calibration manifests in use
          FileEdits(_, _),    \* edits of the files and of the weight manifest:
          WeightEdits(_, _),  \*   (files, wman) |-> the set of new values
          MaxEdits, MaxRuns   \* bounds

ASSUME ExportAssumption ==
  {Channels, TensorCores} \subseteq Nat \ {0} /\ {MaxEdits, MaxRuns} \subseteq Nat

(* As it was exported, the store's manifest names what is in its files. *)
ASSUME StoreAssumption ==
  /\ Keyed(HonestWeights.entries)
  /\ \A i \in DOMAIN HonestWeights.entries :
       LET weight == HonestWeights.entries[i]
       IN  weight.scaleSha = <<Resolved(HonestFiles, weight.scale)>>

VARIABLES files,   \* weight store and calibration files
          wman,    \* the weight manifest
          cman,    \* the calibration manifest
          out,     \* the files under out_dir
          run,     \* the export: where it is, its entries, plan lines and counters
          edits, runs

vars == <<files, wman, cman, out, run, edits, runs>>

PayloadFile(key) == <<key, "qmeta128">>
OscaleFile(key) == <<key, "oscale">>
PlanFile == <<<<>>, "quant.plan">>
JsonFile == <<<<>>, "quant.json">>
MarkdownFile == <<<<>>, "quant.md">>

\* A plausible bug: the pages are numbered from one.
FreshFromOne ==
  [pc |-> "idle", why |-> "", done |-> 0, page |-> 1, plan |-> <<>>, entries |-> <<>>,
   valid |-> 0, padded |-> 0, channelwise |-> 0]

Fresh ==
  [pc |-> "idle", why |-> "", done |-> 0, page |-> 0, plan |-> <<>>, entries |-> <<>>,
   valid |-> 0, padded |-> 0, channelwise |-> 0]
Busy == run.pc \in {"entries", "json", "markdown"}

\* A plausible bug: a file that is there already is kept.
WriteOnce(dir, path, content) ==
  [p \in DOMAIN dir \cup {path} |-> IF p \in DOMAIN dir THEN dir[p] ELSE content]

Write(dir, path, content) ==
  [p \in DOMAIN dir \cup {path} |-> IF p = path THEN content ELSE dir[p]]

-----------------------------------------------------------------------------
(* The pages of one entry. *)

\* A plausible bug: a last page that is not full is not counted.
PageCountDown(channels) == channels \div Channels + (IF channels < Channels THEN 1 ELSE 0)

PageCount(channels) == (channels + Channels - 1) \div Channels

(* activation_scale * weight_scale / output_scale, as a fraction. *)
EffectiveScales(cal, scales, outs) ==
  [c \in DOMAIN scales |-> [n |-> cal.act * scales[c], d |-> UNIT * outs[c]]]

BiasAcc(cal, scales, bias) ==
  [c \in DOMAIN scales |-> RoundHalfEven(bias[c] * UNIT, cal.act * scales[c])]

PageRecords(cal, eff, bias) ==
  LET channels == Len(eff)
  IN  [r \in 1..PageCount(channels) * Channels |->
        IF r <= channels
        THEN LET q == Encode(eff[r].n, eff[r].d)
             IN  Pack(bias[r], q.mult, q.shift, cal.outZp, TRUE)
        ELSE Pack(0, 0, 0, 0, FALSE)]

PageLines(key, channels, firstPage) ==
  [p \in 1..PageCount(channels) |->
    [page   |-> firstPage + p - 1,
     tc     |-> (p - 1) % TensorCores,
     path   |-> PayloadFile(key),
     offset |-> (p - 1) * Channels,
     valid  |-> Min({Channels, channels - (p - 1) * Channels})]]

EntryRecord(weight, cal, scales, outs, payload) ==
  LET channels == weight.channels
      channelwise == ModeSupplied(cal) = PerChannel
  IN [key |-> weight.key, channels |-> channels,
      act |-> cal.act, outZp |-> cal.outZp, biasMode |-> cal.biasMode,
      mode |-> ModeSupplied(cal),
      scalar |-> IF channelwise THEN <<>> ELSE <<outs[1]>>,
      oscaleSha |-> IF channelwise THEN <<outs>> ELSE <<>>,
      tokens |-> Tokens(cman, cal),
      firstPage |-> run.page, pageCount |-> PageCount(channels),
      waves |-> (PageCount(channels) + TensorCores - 1) \div TensorCores,
      lastValid |-> channels - (PageCount(channels) - 1) * Channels,
      sha |-> payload,
      scaleSha |-> scales, weightSha |-> Resolved(files, weight.payload),
      source |-> weight.source]

-----------------------------------------------------------------------------
Init ==
  /\ files = HonestFiles /\ wman = HonestWeights /\ cman \in Calibrations
  /\ out = << >> /\ run = Fresh /\ edits = 0 /\ runs = 0

Refuse(why) ==
  /\ run' = [run EXCEPT !.pc = "refused", !.why = why]
  /\ UNCHANGED <<files, wman, cman, out, edits, runs>>

Start ==
  /\ ~Busy /\ runs < MaxRuns
  /\ run' = IF HeadersAccepted(wman, cman, AllowDebug)
            THEN [Fresh EXCEPT !.pc = "entries"]
            ELSE [Fresh EXCEPT !.pc = "refused", !.why = "header"]
  /\ runs' = runs + 1
  /\ UNCHANGED <<files, wman, cman, out, edits>>

EntriesLeft == run.pc = "entries" /\ run.done < Len(wman.entries)
Weight == wman.entries[run.done + 1]
Cal == EntryFor(cman.entries, Weight.key)

RefuseEntry ==
  EntriesLeft /\ ~EntryAccepted(Weight, cman, Cal, files) /\ Refuse("entry")

(* Scales and biases of the entry under way, once it is accepted. *)
Scales == Resolved(files, Weight.scale)
Outs == OutputValues(Cal, files, Weight.channels)
Eff == EffectiveScales(Cal, Scales, Outs)
Bias == BiasAcc(Cal, Scales, BiasValues(Cal, files, Weight.channels))

Encoded ==
  \A c \in 1..Weight.channels :
    Encodable(Eff[c].n, Eff[c].d) /\ Bias[c] \in BIAS_MIN..BIAS_MAX

RefuseChannel ==
  EntriesLeft /\ EntryAccepted(Weight, cman, Cal, files) /\ ~Encoded /\ Refuse("encode")

(* The payload, the folded output scale beside it, the plan lines, the      *)
(* entry of the manifest.                                                   *)
ExportEntry ==
  /\ EntriesLeft /\ EntryAccepted(Weight, cman, Cal, files) /\ Encoded
  /\ LET key == Weight.key
         payload == PageRecords(Cal, Eff, Bias)
         lines == PageLines(key, Weight.channels, run.page)
         pages == Write(out, PayloadFile(key), payload)
     IN  /\ out' = IF ModeSupplied(Cal) = PerChannel
                   THEN Write(pages, OscaleFile(key), Outs) ELSE pages
         /\ run' = [run EXCEPT
              !.done = @ + 1,
              !.page = @ + Len(lines),
              !.plan = @ \o lines,
              !.valid = @ + Weight.channels,
              !.padded = @ + PageCount(Weight.channels) * Channels - Weight.channels,
              !.channelwise = @ + (IF ModeSupplied(Cal) = PerChannel THEN 1 ELSE 0),
              !.entries = Append(@, EntryRecord(Weight, Cal, Scales, Outs, payload))]
  /\ UNCHANGED <<files, wman, cman, edits, runs>>

WritePlan ==
  /\ run.pc = "entries" /\ run.done = Len(wman.entries)
  /\ out' = Write(out, PlanFile, run.plan)
  /\ run' = [run EXCEPT !.pc = "json"]
  /\ UNCHANGED <<files, wman, cman, edits, runs>>

Manifest ==
  [status |-> cman.status,
   sources |-> [weights |-> wman, calibration |-> cman],
   channelwise |-> run.channelwise,
   pages |-> run.page, valid |-> run.valid, padded |-> run.padded,
   planSha |-> out[PlanFile],
   entries |-> run.entries]

WriteManifest ==
  /\ run.pc = "json"
  /\ out' = Write(out, JsonFile, Manifest)
  /\ run' = [run EXCEPT !.pc = "markdown"]
  /\ UNCHANGED <<files, wman, cman, edits, runs>>

WriteMarkdown ==
  /\ run.pc = "markdown"
  /\ out' = Write(out, MarkdownFile, [status |-> cman.status, pages |-> run.page])
  /\ run' = [run EXCEPT !.pc = "done"]
  /\ UNCHANGED <<files, wman, cman, edits, runs>>

(* The process is killed between two writes. *)
Kill ==
  /\ Busy
  /\ run' = [run EXCEPT !.pc = "killed"]
  /\ UNCHANGED <<files, wman, cman, out, edits, runs>>

(* The process is killed inside the write of a payload. *)
KillWriting ==
  /\ EntriesLeft /\ EntryAccepted(Weight, cman, Cal, files) /\ Encoded
  /\ out' = Write(out, PayloadFile(Weight.key), <<>>)
  /\ run' = [run EXCEPT !.pc = "killed"]
  /\ UNCHANGED <<files, wman, cman, edits, runs>>

(* Between runs. *)
Recalibrate ==
  /\ ~Busy /\ edits < MaxEdits
  /\ cman' \in Calibrations \ {cman}
  /\ edits' = edits + 1 /\ run' = Fresh
  /\ UNCHANGED <<files, wman, out, runs>>

Edit ==
  /\ ~Busy /\ edits < MaxEdits
  /\ \/ files' \in FileEdits(files, wman) \ {files} /\ UNCHANGED wman
     \/ wman' \in WeightEdits(files, wman) \ {wman} /\ UNCHANGED files
  /\ edits' = edits + 1 /\ run' = Fresh
  /\ UNCHANGED <<cman, out, runs>>

Next == \/ Start \/ RefuseEntry \/ RefuseChannel \/ ExportEntry
        \/ WritePlan \/ WriteManifest \/ WriteMarkdown \/ Kill \/ KillWriting \/ Recalibrate \/ Edit

Spec == Init /\ [][Next]_vars

-----------------------------------------------------------------------------
Published == run.pc \in {"markdown", "done"}
Json == out[JsonFile]

Keys == UNION {KeysOf(doc.entries) : doc \in Calibrations}

(* The shape of the export's own state: the counters follow the entries     *)
(* done, and the plan has one line per page.                                *)
TypeOK ==
  /\ run.pc \in {"idle", "entries", "json", "markdown", "done", "refused", "killed"}
  /\ run.done = Len(run.entries) /\ (Busy => run.done <= Len(wman.entries))
  /\ run.page = Len(run.plan)
  /\ DOMAIN out \subseteq {PlanFile, JsonFile, MarkdownFile}
       \cup {PayloadFile(key) : key \in Keys} \cup {OscaleFile(key) : key \in Keys}
  /\ edits \in 0..MaxEdits /\ runs \in 0..MaxRuns

(* When an export has published quant.json, whatever was refused, killed or *)
(* left in the directory before it: every file it names is on disk with     *)
(* the content it hashes to, the pages of all entries are numbered without  *)
(* gap, and its sums are those of the files.                                *)
PublishedCoherent ==
  Published =>
    /\ Json.planSha = out[PlanFile]
    /\ Json.pages = Len(out[PlanFile])
    /\ Json.sources = [weights |-> wman, calibration |-> cman]
    /\ KeysOf(Json.entries) = KeysOf(wman.entries)
    /\ \A i \in DOMAIN Json.entries :
         LET e == Json.entries[i]
         IN  /\ out[PayloadFile(e.key)] = e.sha
             /\ e.oscaleSha # <<>> => out[OscaleFile(e.key)] = e.oscaleSha[1]
             /\ e.firstPage + e.pageCount =
                  (IF i = Len(Json.entries) THEN Json.pages
                   ELSE Json.entries[i + 1].firstPage)
    /\ Json.valid + Json.padded = Json.pages * Channels

(* Following the published plan as the page loader does, every output       *)
(* channel of every matrix gets exactly one valid record, on the core of    *)
(* its page, and the record reads back as the channel's own bias, zero      *)
(* point and scale; the records past a plan line's count are invalid; two   *)
(* pages of one wave are never for the same core.                           *)
LinesOf(e) == {l \in Range(out[PlanFile]) : l.path = PayloadFile(e.key)}
RecordAt(l, slot) == EntryBits(out[l.path][l.offset + slot])

ChannelServed(e, cal, c) ==
  LET hits == {l \in LinesOf(e) : c \in l.offset + 1 .. l.offset + l.valid}
      l == CHOOSE x \in hits : TRUE
      r == RecordAt(l, c - l.offset)
      outs == IF e.scalar # <<>> THEN [x \in 1..e.channels |-> e.scalar[1]] ELSE e.oscaleSha[1]
      q == Encode(e.act * e.scaleSha[c], UNIT * outs[c])
  IN  /\ Cardinality(hits) = 1
      /\ r = [bias |-> BiasAcc(cal, e.scaleSha, BiasValues(cal, files, e.channels))[c],
              mult |-> q.mult, shift |-> q.shift, zp |-> cal.outZp, valid |-> TRUE]

PagesServeChannels ==
  Published =>
    \A i \in DOMAIN Json.entries :
      LET e == Json.entries[i]
          cal == EntryFor(Json.sources.calibration.entries, e.key)
      IN  /\ \A c \in 1..e.channels : ChannelServed(e, cal, c)
          /\ \A l \in LinesOf(e) :
               /\ l.page \in e.firstPage .. e.firstPage + e.pageCount - 1
               /\ l.valid \in 1..Channels
               /\ \A slot \in l.valid + 1 .. Channels : ~RecordAt(l, slot).valid
          /\ \A l, k \in LinesOf(e) :
               /\ l # k
               /\ (l.page - e.firstPage) \div TensorCores = (k.page - e.firstPage) \div TensorCores
               => l.tc # k.tc

(* The encoding against the set of all pairs the hardware holds: a          *)
(* published scale is within the limit of the exact one, and an export      *)
(* refused for a scale had one that no pair in the hardware's range meets,  *)
(* or a bias the accumulator cannot hold.                                   *)
SomePairFits(n, d) ==
  \E mult \in 1..MULTIPLIER_MAX, shift \in 0..SHIFT_MAX : WithinLimit(n, d, mult, shift)

ScalesEncoded ==
  /\ Published =>
       \A i \in DOMAIN Json.entries :
         LET e == Json.entries[i]
             outs == IF e.scalar # <<>> THEN [x \in 1..e.channels |-> e.scalar[1]]
                     ELSE e.oscaleSha[1]
         IN  \A c \in 1..e.channels :
               LET r == EntryBits(out[PayloadFile(e.key)][c])
               IN  WithinLimit(e.act * e.scaleSha[c], UNIT * outs[c], r.mult, r.shift)
  /\ run.why = "encode" =>
       \E c \in 1..Weight.channels :
         \/ ~SomePairFits(Eff[c].n, Eff[c].d)
         \/ ~InHardwareRange(Eff[c].n, Eff[c].d)
         \/ Bias[c] \notin BIAS_MIN..BIAS_MAX

(* Requantisation that varies from column to column beyond what the weight  *)
(* store wrote, by output scales or folded into the weight scales, is only  *)
(* published with a calibration of at least the floor of tokens; an export  *)
(* that escapes it names a weight manifest that is not the store's.         *)
HonestScales(key) == Resolved(HonestFiles, EntryFor(HonestWeights.entries, key).scale)

Varies(e) ==
  LET honest == HonestScales(e.key)
      outs == IF e.scalar # <<>> THEN [x \in 1..e.channels |-> e.scalar[1]] ELSE e.oscaleSha[1]
  IN  \E c \in 2..e.channels :
        e.scaleSha[c] * outs[1] * honest[1] # e.scaleSha[1] * outs[c] * honest[c]

UnboundScalesTraceable ==
  JsonFile \in DOMAIN out =>
    \/ Json.sources.weights # HonestWeights
    \/ \A i \in DOMAIN Json.entries :
         LET e == Json.entries[i]
         IN  Varies(e) => e.tokens # <<>> /\ e.tokens[1] >= TokenFloor
=============================================================================
