---------------------------- MODULE QuantRecords ----------------------------
(***************************************************************************)
(* The records of a quantisation page, from                                *)
(* src/scripts/export_pi0_int8_quant_bank_pages.py: how an effective scale *)
(* becomes a multiplier and a right shift, how a record is packed, and how *)
(* the hardware ABI of the manifest reads it back.  The widths are         *)
(* parameters (48, 16, 6 and 9 bits in the code).  A scale is an exact     *)
(* fraction n / d; the rounding of the double that holds it is left out.   *)
(***************************************************************************)
EXTENDS Integers, FiniteSetsExt

CONSTANTS BiasBits, MultBits, ShiftBits, ZpBits,
          ErrInv      \* max_relative_error is 1 / ErrInv

ASSUME RecordAssumption ==
  /\ {BiasBits, MultBits, ShiftBits} \subseteq Nat \ {0} /\ ZpBits \in Nat \ {0, 1}
  /\ ErrInv \in Nat \ {0, 1}

MULTIPLIER_MAX == 2^MultBits - 1
SHIFT_MAX == 2^ShiftBits - 1
BIAS_MIN == -(2^(BiasBits - 1))
BIAS_MAX == 2^(BiasBits - 1) - 1
ZpRange == -(2^(ZpBits - 1)) .. 2^(ZpBits - 1) - 1
Int8Range == -(2^(ZpBits - 2)) .. 2^(ZpBits - 2) - 1

RoundHalfEven(n, d) ==
  LET q == n \div d
      r == 2 * (n % d)
  IN  IF r < d \/ (r = d /\ q % 2 = 0) THEN q ELSE q + 1

-----------------------------------------------------------------------------
(* encode_effective_scale *)

InHardwareRange(n, d) ==
  /\ n > 0
  /\ n <= MULTIPLIER_MAX * d
  /\ n * 2^SHIFT_MAX >= d

Multiplier(n, d, shift) == RoundHalfEven(n * 2^shift, d)

(* The first shift, floor(log2(MULTIPLIER_MAX / scale)), cut to the field;  *)
(* the loop after it lowers a shift whose multiplier rounded too high.      *)
LogShift(n, d) == Max({s \in 0..SHIFT_MAX : n * 2^s <= MULTIPLIER_MAX * d})

\* A plausible bug: a multiplier above the field is cut off instead of its shift lowered.
FittedShiftUp(n, d) == Min({SHIFT_MAX, LogShift(n, d) + 1})

FittedShift(n, d) ==
  Max({s \in 0..LogShift(n, d) : s = 0 \/ Multiplier(n, d, s) <= MULTIPLIER_MAX})

(* Factors of two move from the multiplier to the shift. *)
Canonical(mult, shift) ==
  LET twos == Max({k \in 0..shift : mult % 2^k = 0})
  IN  [mult |-> mult \div 2^twos, shift |-> shift - twos]

WithinLimit(n, d, mult, shift) ==
  LET err == mult * d - n * 2^shift
  IN  (IF err < 0 THEN -err ELSE err) * ErrInv <= n * 2^shift

Encode(n, d) ==
  LET s == FittedShift(n, d) IN Canonical(Multiplier(n, d, s), s)

Encodable(n, d) ==
  /\ InHardwareRange(n, d)
  /\ LET s == FittedShift(n, d) IN Multiplier(n, d, s) \in 1..MULTIPLIER_MAX
  /\ WithinLimit(n, d, Encode(n, d).mult, Encode(n, d).shift)

-----------------------------------------------------------------------------
(* pack_quant_entry, and the bit fields the manifest's hardware_abi names   *)

Packable(bias, mult, shift, zp) ==
  /\ bias \in BIAS_MIN..BIAS_MAX
  /\ mult \in 0..MULTIPLIER_MAX
  /\ shift \in 0..SHIFT_MAX
  /\ zp \in ZpRange

MultLo  == BiasBits
ShiftLo == MultLo + MultBits
ZpLo    == ShiftLo + ShiftBits
ValidLo == ZpLo + ZpBits

Pack(bias, mult, shift, zp, valid) ==
  (bias % 2^BiasBits) + (mult * 2^MultLo) + (shift * 2^ShiftLo)
    + ((zp % 2^ZpBits) * 2^ZpLo) + (IF valid THEN 2^ValidLo ELSE 0)

Field(record, lo, width) == (record \div 2^lo) % 2^width
Signed(x, width) == IF x >= 2^(width - 1) THEN x - 2^width ELSE x

(* What the quant bank takes from a record it has loaded. *)
EntryBits(record) ==
  [bias  |-> Signed(Field(record, 0, BiasBits), BiasBits),
   mult  |-> Field(record, MultLo, MultBits),
   shift |-> Field(record, ShiftLo, ShiftBits),
   zp    |-> Signed(Field(record, ZpLo, ZpBits), ZpBits),
   valid |-> Field(record, ValidLo, 1) = 1]
=============================================================================
