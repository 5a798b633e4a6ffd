----------------------------- MODULE QuantInputs -----------------------------
(***************************************************************************)
(* What export_pi0_int8_quant_bank_pages.py reads: the weight manifest, the *)
(* calibration manifest and the files they name, and which of them it       *)
(* refuses.  A file's sha256 is its content.  An optional field is a        *)
(* sequence of at most one value; a payload's places are the sequence of    *)
(* paths resolve_payload tries.  Scales are integers in units of 1 / UNIT.  *)
(*                                                                          *)
(* weight entry: key, channels, shape, scale (places), scaleSha, payload    *)
(*   (places), sha, nbytes, extrema, source                                 *)
(* calibration entry: key, act, actZp, outZp, output (kind, values),        *)
(*   oscale (places), mode, tokens, biasMode, bias (places)                 *)
(***************************************************************************)
EXTENDS QuantRecords, Sequences

CONSTANTS UNIT,
          TokenFloor   \* MIN_PER_OUTPUT_CHANNEL_CALIBRATION_TOKENS

ASSUME InputAssumption == UNIT \in Nat \ {0} /\ TokenFloor \in Nat \ {0}

PerTensor == "per_tensor"
PerChannel == "per_output_channel"

SeqMin(s) == Min({s[i] : i \in DOMAIN s})
SeqMax(s) == Max({s[i] : i \in DOMAIN s})
AllPositive(s) == s \in Seq(Nat \ {0})
IsList(s) == s \in Seq({s[i] : i \in DOMAIN s})

(* keyed_entries: what is no list, or has a key twice, is an error. *)
KeysOf(entries) == {entries[i].key : i \in DOMAIN entries}
Keyed(entries) ==
  /\ IsList(entries)
  /\ \A i, j \in DOMAIN entries : entries[i].key = entries[j].key => i = j
EntryFor(entries, key) == entries[CHOOSE i \in DOMAIN entries : entries[i].key = key]

(* resolve_payload: the direct path, then the relative one under the given  *)
(* root, then beside the manifest; the first that is a file.                *)
Places(direct, relative, roots) ==
  direct \o (IF relative = <<>> THEN <<>>
             ELSE [i \in 1..Len(roots) |-> <<roots[i], relative[1]>>]
                    \o <<<<"beside", relative[1]>>>>)

Found(files, places) == \E i \in DOMAIN places : places[i] \in DOMAIN files

Resolved(files, places) ==
  files[places[Min({i \in DOMAIN places : places[i] \in DOMAIN files})]]

-----------------------------------------------------------------------------
(* The output scale of an entry. *)

SidecarDeclared(cal) == cal.oscale # <<>>

ModeSupplied(cal) ==
  IF cal.output.kind = "array" \/ SidecarDeclared(cal) THEN PerChannel ELSE PerTensor

OutputValues(cal, files, channels) ==
  CASE ModeSupplied(cal) = PerTensor -> [c \in 1..channels |-> cal.output.values[1]]
    [] cal.output.kind = "array"     -> cal.output.values
    [] OTHER                         -> Resolved(files, cal.oscale)

OutputScaleAccepted(cal, files, channels) ==
  /\ cal.output.kind # "bool"
  /\ cal.output.kind \in {"number", "array"} \/ SidecarDeclared(cal)
  /\ cal.mode \in {<<>>, <<ModeSupplied(cal)>>}
  /\ SidecarDeclared(cal) => cal.output.kind = "absent" /\ Found(files, cal.oscale)
  /\ Len(OutputValues(cal, files, channels)) = channels
  /\ AllPositive(OutputValues(cal, files, channels))

(* calibration_token_count: the entry's count hides the manifest's. *)
Tokens(cman, cal) == IF cal.tokens # <<>> THEN cal.tokens ELSE cman.tokens

TokensAccepted(cman, cal) == AllPositive(Tokens(cman, cal))

(* require_per_output_channel_calibration *)
FloorMet(cman, cal) ==
  ModeSupplied(cal) = PerChannel =>
    /\ Tokens(cman, cal) # <<>>
    /\ Tokens(cman, cal)[1] >= TokenFloor

-----------------------------------------------------------------------------
(* The weights of an entry, and their binding to the weight store. *)

ScaleAccepted(weight, files) ==
  /\ Len(weight.shape) = 2
  /\ weight.channels = weight.shape[2]
  /\ Found(files, weight.scale)
  /\ Len(Resolved(files, weight.scale)) = weight.channels
  /\ AllPositive(Resolved(files, weight.scale))

\* A plausible bug: the hash must be declared, and is not compared.
HashBoundDeclared(sha, files, places) == sha # <<>> /\ Found(files, places)

HashBound(sha, files, places) ==
  sha # <<>> /\ Found(files, places) /\ Resolved(files, places) = sha[1]

WeightStoreBound(weight, files) ==
  /\ HashBound(weight.scaleSha, files, weight.scale)
  /\ HashBound(weight.sha, files, weight.payload)
  /\ LET bytes == Resolved(files, weight.payload).bytes
     IN  /\ weight.nbytes \in {<<>>, <<bytes>>}
         /\ bytes = weight.shape[1] * weight.shape[2]
  /\ LET scales == Resolved(files, weight.scale)
     IN  weight.extrema \in {<<>>, <<SeqMin(scales), SeqMax(scales)>>}

(* output_bias_values *)
BiasAccepted(cal, files, channels) ==
  \/ cal.biasMode = "none"
  \/ /\ cal.biasMode = "float32_per_output_channel"
     /\ Found(files, cal.bias)
     /\ Len(Resolved(files, cal.bias)) = channels

BiasValues(cal, files, channels) ==
  IF cal.biasMode = "none" THEN [c \in 1..channels |-> 0] ELSE Resolved(files, cal.bias)

ActivationAccepted(cal) ==
  cal.act \in Nat \ {0} /\ cal.actZp = 0 /\ cal.outZp \in Int8Range

EntryAccepted(weight, cman, cal, files) ==
  /\ ActivationAccepted(cal)
  /\ ScaleAccepted(weight, files)
  /\ WeightStoreBound(weight, files)
  /\ OutputScaleAccepted(cal, files, weight.channels)
  /\ TokensAccepted(cman, cal)
  /\ FloorMet(cman, cal)
  /\ BiasAccepted(cal, files, weight.channels)

(* The checks on the manifests before anything is written. *)
HeadersAccepted(wman, cman, allowDebug) ==
  /\ wman.schema /\ wman.status = "payloads_exported"
  /\ cman.schema
  /\ \/ cman.status = "calibrated" /\ cman.real
     \/ cman.status = "synthetic_debug" /\ allowDebug
  /\ Keyed(wman.entries) /\ Keyed(cman.entries)
  /\ KeysOf(wman.entries) = KeysOf(cman.entries)
=============================================================================
