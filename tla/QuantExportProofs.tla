------------------------- MODULE QuantExportProofs -------------------------
(***************************************************************************)
(* What export_quant_pages publishes is coherent, its pages serve every     *)
(* channel, its scales are as near as the hardware's fields allow, and      *)
(* scales nobody counted tokens for stay traceable: for any widths of the   *)
(* fields, any weight store, any calibrations, any edits between the        *)
(* exports, and wherever an export is refused or killed.                    *)
(***************************************************************************)
EXTENDS QuantExport, NumberLemmas, SequenceTheorems

(***************************************************************************)
(* The records of a page.                                                  *)
(***************************************************************************)
\* A signed number comes back from its two's complement.
LEMMA SignedBack ==
    ASSUME NEW w \in Nat \ {0}, NEW x \in -(2^(w - 1)) .. 2^(w - 1) - 1
    PROVE  x % 2^w \in 0 .. 2^w - 1 /\ Signed(x % 2^w, w) = x
<1> DEFINE h == 2^(w - 1)
           b == 2^w
           r == x % b
<1>1. h \in Nat \ {0} /\ b = 2 * h
    BY Halves
<1>2. x \in -h .. h - 1
    OBVIOUS
<1>3. Signed(r, w) = IF r >= h THEN r - b ELSE r
    BY DEF Signed
<1> HIDE DEF h, b
<1>4. b \in Nat \ {0} /\ x \in Int
    BY <1>1, <1>2
<1>5. CASE x >= 0
    <2>1. r = x
        BY <1>1, <1>2, <1>4, <1>5, Wraps
    <2> HIDE DEF r
    <2>2. r \in 0 .. b - 1 /\ Signed(r, w) = x
        BY <1>1, <1>2, <1>3, <1>5, <2>1
    <2> QED
        BY <2>2 DEF r, b
<1>6. CASE x < 0
    <2>1. r = x + b
        BY <1>1, <1>2, <1>4, <1>6, Wraps
    <2> HIDE DEF r
    <2>2. r \in 0 .. b - 1 /\ Signed(r, w) = x
        BY <1>1, <1>2, <1>3, <1>6, <2>1
    <2> QED
        BY <2>2 DEF r, b
<1> QED
    BY <1>4, <1>5, <1>6

\* The fields of a record, one above the other.
LEMMA FieldsOf ==
    ASSUME NEW a \in 0 .. 2^BiasBits - 1, NEW m \in 0 .. 2^MultBits - 1,
           NEW s \in 0 .. 2^ShiftBits - 1, NEW z \in 0 .. 2^ZpBits - 1, NEW v \in {0, 1},
           NEW r, r = a + (m * 2^MultLo) + (s * 2^ShiftLo) + (z * 2^ZpLo) + (v * 2^ValidLo)
    PROVE  /\ Field(r, 0, BiasBits) = a
           /\ Field(r, MultLo, MultBits) = m
           /\ Field(r, ShiftLo, ShiftBits) = s
           /\ Field(r, ZpLo, ZpBits) = z
           /\ Field(r, ValidLo, 1) = v
<1> DEFINE A == 2^BiasBits
           P == 2^MultBits
           Q == 2^ShiftBits
           R == 2^ZpBits
           AP == 2^ShiftLo
           AQ == 2^ZpLo
           AR == 2^ValidLo
<1>1. A \in Nat \ {0} /\ P \in Nat \ {0} /\ Q \in Nat \ {0} /\ R \in Nat \ {0}
    BY RecordAssumption, PowerPositive
<1>2. /\ AP \in Nat \ {0} /\ AQ \in Nat \ {0} /\ AR \in Nat \ {0}
      /\ AP = A * P /\ AQ = AP * Q /\ AR = AQ * R
    <2>1. MultLo \in Nat /\ ShiftLo \in Nat /\ ZpLo \in Nat /\ ValidLo \in Nat
        BY RecordAssumption DEF MultLo, ShiftLo, ZpLo, ValidLo
    <2>2. AP \in Nat \ {0} /\ AQ \in Nat \ {0} /\ AR \in Nat \ {0}
        BY <2>1, PowerPositive
    <2>3. AP = A * P
        BY RecordAssumption, PowerSum DEF ShiftLo, MultLo
    <2>4. AQ = AP * Q
        BY <2>1, RecordAssumption, PowerSum DEF ZpLo
    <2>5. AR = AQ * R
        BY <2>1, RecordAssumption, PowerSum DEF ValidLo
    <2> QED
        BY <2>2, <2>3, <2>4, <2>5
<1>3. r = a + (m * A) + (s * AP) + (z * AQ) + (v * AR)
    BY DEF MultLo
<1>4. a \in 0 .. A - 1 /\ m \in 0 .. P - 1 /\ s \in 0 .. Q - 1 /\ z \in 0 .. R - 1
    OBVIOUS
<1>5. /\ Field(r, 0, BiasBits) = (r \div 1) % A
      /\ Field(r, MultLo, MultBits) = (r \div A) % P
      /\ Field(r, ShiftLo, ShiftBits) = (r \div AP) % Q
      /\ Field(r, ZpLo, ZpBits) = (r \div AQ) % R
      /\ Field(r, ValidLo, 1) = (r \div AR) % 2
    BY DEF Field, MultLo
<1> HIDE DEF A, P, Q, R, AP, AQ, AR
<1> DEFINE r4 == v
           r3 == z + r4 * R
           r2 == s + r3 * Q
           r1 == m + r2 * P
<1>6. r4 \in Nat /\ r3 \in Nat /\ r3 \div R = r4 /\ r3 % R = z
    <2>1. v \in Nat
        OBVIOUS
    <2>2. (z + v * R) \in Nat /\ (z + v * R) \div R = v /\ (z + v * R) % R = z
        BY <1>1, <1>4, <2>1, Digits
    <2> QED
        BY <2>1, <2>2
<1> HIDE DEF r3
<1>7. r2 \in Nat /\ r2 \div Q = r3 /\ r2 % Q = s
    BY <1>1, <1>4, <1>6, Digits
<1> HIDE DEF r2
<1>8. r1 \in Nat /\ r1 \div P = r2 /\ r1 % P = m
    BY <1>1, <1>4, <1>7, Digits
<1> HIDE DEF r1
<1>9. r = a + r1 * A
    <2>1. r1 * A = (m * A) + (r2 * AP)
        <3>1. (m + (r2 * P)) * A = (m * A) + ((r2 * P) * A)
            BY <1>1, <1>4, <1>7, Distribute
        <3>2. (r2 * P) * A = r2 * (P * A) /\ P * A = A * P
            BY <1>1, <1>7, TimesAssoc
        <3> QED
            BY <1>2, <3>1, <3>2 DEF r1
    <2>2. r2 * AP = (s * AP) + (r3 * AQ)
        <3>1. (s + (r3 * Q)) * AP = (s * AP) + ((r3 * Q) * AP)
            BY <1>1, <1>2, <1>4, <1>6, Distribute
        <3>2. (r3 * Q) * AP = r3 * (Q * AP) /\ Q * AP = AP * Q
            BY <1>1, <1>2, <1>6, TimesAssoc
        <3> QED
            BY <1>2, <3>1, <3>2 DEF r2
    <2>3. r3 * AQ = (z * AQ) + (v * AR)
        <3>1. (z + (v * R)) * AQ = (z * AQ) + ((v * R) * AQ)
            BY <1>1, <1>2, <1>4, Distribute
        <3>2. (v * R) * AQ = v * (R * AQ) /\ R * AQ = AQ * R
            BY <1>1, <1>2, TimesAssoc
        <3> QED
            BY <1>2, <3>1, <3>2 DEF r3
    <2> DEFINE x1 == m * A
               x2 == s * AP
               x3 == z * AQ
               x4 == v * AR
               y1 == r1 * A
               y2 == r2 * AP
               y3 == r3 * AQ
    <2>4. x1 \in Int /\ x2 \in Int /\ x3 \in Int /\ x4 \in Int /\ a \in Int
        BY <1>1, <1>2, <1>4
    <2>5. r = a + x1 + x2 + x3 + x4 /\ y1 = x1 + y2 /\ y2 = x2 + y3 /\ y3 = x3 + x4
        BY <1>3, <2>1, <2>2, <2>3
    <2> HIDE DEF x1, x2, x3, x4, y1, y2, y3
    <2>6. r = a + y1
        BY <2>4, <2>5
    <2> QED
        BY <2>6 DEF y1
<1>10. r \in Nat /\ r \div A = r1 /\ r % A = a
    <2>1. r \in Nat
        <3> DEFINE y == r1 * A
        <3>1. y \in Nat
            BY <1>1, <1>8
        <3>2. r = a + y /\ a \in Nat
            BY <1>4, <1>9
        <3> HIDE DEF y
        <3> QED
            BY <3>1, <3>2
    <2>2. (a + r1 * A) \div A = r1 /\ (a + r1 * A) % A = a
        BY <1>1, <1>4, <1>8, Digits
    <2> QED
        BY <1>9, <2>1, <2>2
<1>11. r \div AP = r2 /\ r \div AQ = r3 /\ r \div AR = r4
    <2>1. r \div (A * P) = (r \div A) \div P
        BY <1>1, <1>10, DivDiv
    <2>2. r \div (AP * Q) = (r \div AP) \div Q
        BY <1>1, <1>2, <1>10, DivDiv
    <2>3. r \div (AQ * R) = (r \div AQ) \div R
        BY <1>1, <1>2, <1>10, DivDiv
    <2>4. r \div AP = r2 /\ r \div AQ = r3 /\ r \div AR = r4
        BY <1>2, <1>6, <1>7, <1>8, <1>10, <2>1, <2>2, <2>3
    <2> QED
        BY <2>4
<1>12. r \div 1 = r /\ v % 2 = v
    BY <1>10
<1> QED
    BY <1>5, <1>6, <1>7, <1>8, <1>10, <1>11, <1>12

\* A record reads back as it was packed.
LEMMA PackedBack ==
    ASSUME NEW bias, NEW mult, NEW shift, NEW zp, Packable(bias, mult, shift, zp),
           NEW valid \in BOOLEAN
    PROVE  EntryBits(Pack(bias, mult, shift, zp, valid)) =
             [bias |-> bias, mult |-> mult, shift |-> shift, zp |-> zp, valid |-> valid]
<1> DEFINE a == bias % 2^BiasBits
           z == zp % 2^ZpBits
           v == IF valid THEN 1 ELSE 0
           r == Pack(bias, mult, shift, zp, valid)
<1>1. a \in 0 .. 2^BiasBits - 1 /\ Signed(a, BiasBits) = bias
    BY RecordAssumption, SignedBack DEF Packable, BIAS_MIN, BIAS_MAX
<1>2. z \in 0 .. 2^ZpBits - 1 /\ Signed(z, ZpBits) = zp
    BY RecordAssumption, SignedBack DEF Packable, ZpRange
<1>3. mult \in 0 .. 2^MultBits - 1 /\ shift \in 0 .. 2^ShiftBits - 1
    BY DEF Packable, MULTIPLIER_MAX, SHIFT_MAX
<1>4. r = a + (mult * 2^MultLo) + (shift * 2^ShiftLo) + (z * 2^ZpLo) + (v * 2^ValidLo)
    <2> DEFINE u == 2^ValidLo
    <2>1. u \in Nat
        <3>1. ValidLo \in Nat
            BY RecordAssumption DEF ValidLo, ZpLo, ShiftLo, MultLo
        <3> QED
            BY <3>1, PowerPositive
    <2>2. (IF valid THEN u ELSE 0) = v * u
        <3> HIDE DEF u
        <3> QED
            BY <2>1
    <2>3. r = a + (mult * 2^MultLo) + (shift * 2^ShiftLo) + (z * 2^ZpLo) + (IF valid THEN u ELSE 0)
        BY DEF Pack
    <2> QED
        BY <2>2, <2>3
<1>5. v \in {0, 1} /\ (v = 1 <=> valid)
    OBVIOUS
<1> HIDE DEF a, z, v, r
<1>6. /\ Field(r, 0, BiasBits) = a /\ Field(r, MultLo, MultBits) = mult
      /\ Field(r, ShiftLo, ShiftBits) = shift /\ Field(r, ZpLo, ZpBits) = z
      /\ Field(r, ValidLo, 1) = v
    BY <1>1, <1>2, <1>3, <1>4, <1>5, FieldsOf
<1>7. EntryBits(r) = [bias |-> Signed(a, BiasBits), mult |-> mult, shift |-> shift,
                      zp |-> Signed(z, ZpBits), valid |-> v = 1]
    BY <1>6 DEF EntryBits
<1>8. (v = 1) = valid
    BY <1>5
<1>9. EntryBits(r) = [bias |-> bias, mult |-> mult, shift |-> shift, zp |-> zp, valid |-> v = 1]
    BY <1>1, <1>2, <1>7
<1> QED
    BY <1>8, <1>9 DEF r

\* What is rounded is at most half a step away.
LEMMA RoundedIsNear ==
    ASSUME NEW n \in Nat, NEW d \in Nat \ {0}
    PROVE  /\ RoundHalfEven(n, d) \in Nat
           /\ 2 * n - d <= 2 * (RoundHalfEven(n, d) * d)
           /\ 2 * (RoundHalfEven(n, d) * d) <= 2 * n + d
<1> DEFINE q == n \div d
           r == n % d
           k == RoundHalfEven(n, d)
           u == q * d
<1>1. q \in Nat /\ r \in 0 .. d - 1 /\ n = u + r
    BY DivMod
<1>2. \/ k = q /\ 2 * r <= d
      \/ k = q + 1 /\ 2 * r >= d
    <2> DEFINE even == q % 2 = 0
    <2>1. k = IF 2 * r < d \/ (2 * r = d /\ even) THEN q ELSE q + 1
        BY DEF RoundHalfEven
    <2> HIDE DEF k, q, r, even
    <2> QED
        BY <1>1, <2>1
<1>3. k = q + 1 => k * d = u + d
    <2> HIDE DEF k, q
    <2>1. (q + 1) * d = (q * d) + d
        BY <1>1, Distribute
    <2> QED
        BY <2>1
<1>4. k = q => k * d = u
    <2> HIDE DEF k, q
    <2> QED
        OBVIOUS
<1>5. u \in Int
    BY <1>1
<1> DEFINE w == k * d
<1> HIDE DEF k, q, r, u, w
<1>6. k \in Nat /\ 2 * n - d <= 2 * w /\ 2 * w <= 2 * n + d
    <2>1. (w = u /\ k = q /\ 2 * r <= d) \/ (w = u + d /\ k = q + 1 /\ 2 * r >= d)
        BY <1>2, <1>3, <1>4 DEF w
    <2> QED
        BY <1>1, <1>5, <2>1
<1> QED
    BY <1>6 DEF w, k

\* A distance.
Apart(x, y) == IF x - y < 0 THEN -(x - y) ELSE x - y

\* No multiple is nearer than the rounded one, which is at most half a step away.
LEMMA RoundedIsNearest ==
    ASSUME NEW n \in Nat, NEW d \in Nat \ {0}, NEW k \in Int
    PROVE  /\ Apart(RoundHalfEven(n, d) * d, n) <= Apart(k * d, n)
           /\ 2 * Apart(RoundHalfEven(n, d) * d, n) <= d
<1> DEFINE q == RoundHalfEven(n, d)
           u == q * d
           v == k * d
<1>1. q \in Nat /\ 2 * n - d <= 2 * u /\ 2 * u <= 2 * n + d
    BY RoundedIsNear
<1> HIDE DEF q
<1>2. u \in Int /\ v \in Int
    BY <1>1
<1>3. k > q => v >= u + d
    <2>1. SUFFICES ASSUME k > q PROVE v >= u + d
        OBVIOUS
    <2>2. (q + 1) * d <= k * d /\ (q + 1) * d = (q * d) + d
        BY <1>1, <2>1, TimesMonotone, Distribute
    <2> QED
        BY <1>2, <2>2
<1>4. k < q => u >= v + d
    <2>1. SUFFICES ASSUME k < q PROVE u >= v + d
        OBVIOUS
    <2>2. (k + 1) * d <= q * d /\ (k + 1) * d = (k * d) + d
        BY <1>1, <2>1, TimesMonotone, Distribute
    <2> QED
        BY <1>2, <2>2
<1>5. k = q => u = v
    OBVIOUS
<1> HIDE DEF u, v
<1>6. 2 * n - d <= 2 * u /\ 2 * u <= 2 * n + d
    BY <1>1 DEF u
<1>7. Apart(u, n) <= Apart(v, n) /\ 2 * Apart(u, n) <= d
    BY <1>1, <1>2, <1>3, <1>4, <1>5, <1>6 DEF Apart
<1> QED
    BY <1>7 DEF q, u, v

\* Rounding stays below a bound, and above nothing.
LEMMA RoundedInRange ==
    ASSUME NEW n \in Nat, NEW d \in Nat \ {0}
    PROVE  /\ \A top \in Nat : n <= top * d => RoundHalfEven(n, d) <= top
           /\ 2 * n > d => RoundHalfEven(n, d) >= 1
<1> DEFINE q == RoundHalfEven(n, d)
           u == q * d
<1>1. q \in Nat /\ 2 * n - d <= 2 * u /\ 2 * u <= 2 * n + d
    BY RoundedIsNear
<1> HIDE DEF q
<1>2. u \in Int
    BY <1>1
<1>3. ASSUME NEW top \in Nat, n <= top * d, q > top PROVE FALSE
    <2>1. (top + 1) * d <= q * d /\ (top + 1) * d = (top * d) + d
        BY <1>1, <1>3, TimesMonotone, Distribute
    <2> DEFINE v == top * d
    <2>2. v \in Int /\ v + d <= u /\ n <= v
        BY <1>3, <2>1
    <2> HIDE DEF u, v
    <2> QED
        BY <1>1, <1>2, <2>2 DEF u
<1>4. ASSUME 2 * n > d, q = 0 PROVE FALSE
    <2>1. u = 0
        BY <1>4
    <2>2. 2 * n - d <= 0
        BY <1>1, <2>1
    <2> QED
        BY <1>4, <2>2
<1>5. \A top \in Nat : n <= top * d => q <= top
    BY <1>1, <1>3
<1>6. 2 * n > d => q >= 1
    BY <1>1, <1>4
<1> QED
    BY <1>5, <1>6 DEF q

\* The greatest member of a set of numbers of an interval.
LEMMA MaxIs ==
    ASSUME NEW hi \in Nat, NEW S \in SUBSET (0 .. hi), S # {}
    PROVE  Max(S) \in S /\ Max(S) \in 0 .. hi /\ \A s \in S : s <= Max(S)
<1>1. PICK m \in S : \A p \in S : p <= m
    <2>1. 0 \in Int /\ hi \in Int
        OBVIOUS
    <2> QED
        BY <2>1, GreatestNumber
<1>2. \A p \in S : p \in Int
    OBVIOUS
<1>3. \A p \in S : m >= p
    BY <1>1, <1>2
<1>4. Max(S) \in S /\ \A p \in S : Max(S) >= p
    BY <1>3 DEF Max
<1> QED
    BY <1>2, <1>4

\* The fields of the hardware are not empty.
LEMMA FieldLimits == MULTIPLIER_MAX \in Nat \ {0} /\ SHIFT_MAX \in Nat \ {0}
<1>1. ASSUME NEW w \in Nat \ {0} PROVE 2^w - 1 \in Nat \ {0}
    <2> DEFINE h == 2^(w - 1)
               b == 2^w
    <2>1. h \in Nat \ {0} /\ b = 2 * h
        BY Halves
    <2> HIDE DEF h, b
    <2>2. b - 1 \in Nat \ {0}
        BY <2>1
    <2> QED
        BY <2>2 DEF b
<1> QED
    BY <1>1, RecordAssumption DEF MULTIPLIER_MAX, SHIFT_MAX

\* The first shift is the last that keeps the scale below the greatest multiplier.
LEMMA LogShiftIsLast ==
    ASSUME NEW n \in Nat \ {0}, NEW d \in Nat \ {0}, InHardwareRange(n, d)
    PROVE  /\ LogShift(n, d) \in 0 .. SHIFT_MAX
           /\ n * 2^LogShift(n, d) <= MULTIPLIER_MAX * d
           /\ \A s \in 0 .. SHIFT_MAX : s > LogShift(n, d) => n * 2^s > MULTIPLIER_MAX * d
<1> DEFINE S == {s \in 0 .. SHIFT_MAX : n * 2^s <= MULTIPLIER_MAX * d}
<1>1. S # {}
    <2>1. n * 2^0 = n
        OBVIOUS
    <2>2. n <= MULTIPLIER_MAX * d
        BY DEF InHardwareRange
    <2>3. 0 \in 0 .. SHIFT_MAX
        BY FieldLimits
    <2>4. 0 \in S
        BY <2>1, <2>2, <2>3
    <2> QED
        BY <2>4
<1>2. S \in SUBSET (0 .. SHIFT_MAX) /\ SHIFT_MAX \in Nat
    BY FieldLimits
<1>3. LogShift(n, d) = Max(S)
    BY DEF LogShift
<1>4. /\ LogShift(n, d) \in S /\ LogShift(n, d) \in 0 .. SHIFT_MAX
      /\ \A s \in S : s <= LogShift(n, d)
    <2> HIDE DEF S
    <2> QED
        BY <1>1, <1>2, <1>3, MaxIs
<1>5. ASSUME NEW s \in 0 .. SHIFT_MAX, s > LogShift(n, d) PROVE n * 2^s > MULTIPLIER_MAX * d
    <2> DEFINE x == n * 2^s
               y == MULTIPLIER_MAX * d
    <2>1. ~(x <= y)
        <3>1. s \notin S
            BY <1>2, <1>4, <1>5
        <3> QED
            BY <3>1
    <2>2. x \in Int /\ y \in Int
        <3>1. 2^s \in Nat /\ MULTIPLIER_MAX \in Nat
            BY <1>2, PowerPositive, FieldLimits
        <3> QED
            BY <3>1
    <2> HIDE DEF x, y
    <2>3. x > y
        BY <2>1, <2>2
    <2> QED
        BY <2>3 DEF x, y
<1>6. n * 2^LogShift(n, d) <= MULTIPLIER_MAX * d
    BY <1>4
<1> QED
    BY <1>4, <1>5, <1>6

\* Its multiplier is within the field: the loop after it finds nothing to lower.
LEMMA FittedIsLogShift ==
    ASSUME NEW n \in Nat \ {0}, NEW d \in Nat \ {0}, InHardwareRange(n, d)
    PROVE  /\ FittedShift(n, d) = LogShift(n, d)
           /\ Multiplier(n, d, LogShift(n, d)) \in 1 .. MULTIPLIER_MAX
<1> DEFINE L == LogShift(n, d)
           M == MULTIPLIER_MAX
           x == n * 2^L
           m == Multiplier(n, d, L)
           S == {s \in 0 .. L : s = 0 \/ Multiplier(n, d, s) <= M}
<1>1. L \in 0 .. SHIFT_MAX /\ x <= M * d /\ \A s \in 0 .. SHIFT_MAX : s > L => n * 2^s > M * d
    BY LogShiftIsLast
<1>2. L \in Nat /\ M \in Nat \ {0} /\ SHIFT_MAX \in Nat \ {0}
    BY <1>1, FieldLimits
<1>3. x \in Nat
    <2>1. 2^L \in Nat
        BY <1>2, PowerPositive
    <2> QED
        BY <2>1
<1>4. m = RoundHalfEven(x, d)
    BY DEF Multiplier
<1> HIDE DEF L, M
<1>5. m \in Nat
    <2> HIDE DEF m, x
    <2> QED
        BY <1>3, <1>4, RoundedIsNear
<1>6. m <= M
    <2> HIDE DEF m, x
    <2> QED
        BY <1>1, <1>2, <1>3, <1>4, RoundedInRange
<1>7. 2 * x > d
    <2>1. CASE L = SHIFT_MAX
        <3>1. x >= d
            BY <2>1 DEF InHardwareRange
        <3> HIDE DEF x
        <3> QED
            BY <1>3, <3>1
    <2>2. CASE L # SHIFT_MAX
        <3>1. L + 1 \in 0 .. SHIFT_MAX /\ L + 1 > L
            BY <1>1, <1>2, <2>2
        <3>2. n * 2^(L + 1) > M * d
            BY <1>1, <3>1
        <3>3. n * 2^(L + 1) = 2 * x
            <4> DEFINE p == 2^L
            <4>1. 2^(L + 1) = 2 * p /\ p \in Nat
                BY <1>2, PowerStep, PowerPositive
            <4> HIDE DEF p
            <4>2. n * (2 * p) = 2 * (n * p)
                BY <4>1
            <4> QED
                BY <4>1, <4>2 DEF p
        <3>4. M * d >= d
            <4>1. 1 * d <= M * d /\ 1 * d = d
                BY <1>2, TimesMonotone
            <4> QED
                BY <4>1
        <3> DEFINE y == M * d
        <3>5. y \in Int /\ 2 * x > y /\ y >= d
            BY <1>2, <3>2, <3>3, <3>4
        <3> HIDE DEF x, y
        <3> QED
            BY <1>3, <3>5
    <2> QED
        BY <2>1, <2>2
<1>8. m >= 1
    <2> HIDE DEF m, x
    <2> QED
        BY <1>3, <1>4, <1>7, RoundedInRange
<1>9. FittedShift(n, d) = Max(S)
    BY DEF FittedShift, L, M
<1>10. L \in S
    BY <1>2, <1>6
<1>11. Max(S) = L
    <2>1. S \in SUBSET (0 .. L) /\ S # {}
        BY <1>10
    <2> HIDE DEF S
    <2>2. Max(S) \in 0 .. L /\ L <= Max(S)
        BY <1>2, <1>10, <2>1, MaxIs
    <2> QED
        BY <1>2, <2>2
<1>12. m \in 1 .. M
    <2> HIDE DEF m
    <2> QED
        BY <1>2, <1>5, <1>6, <1>8
<1> QED
    BY <1>9, <1>11, <1>12 DEF L, M

\* Moving factors of two keeps the scale and the range.
LEMMA CanonicalIs ==
    ASSUME NEW mult \in Nat \ {0}, NEW shift \in Nat
    PROVE  \E t \in 0 .. shift :
             /\ Canonical(mult, shift).shift = shift - t
             /\ Canonical(mult, shift).mult \in 1 .. mult
             /\ mult = Canonical(mult, shift).mult * 2^t
<1> DEFINE S == {k \in 0 .. shift : mult % 2^k = 0}
           t == Max(S)
<1>1. 0 \in S
    <2>1. mult % 2^0 = 0
        OBVIOUS
    <2> QED
        BY <2>1
<1>2. t \in S
    <2>1. S \in SUBSET (0 .. shift) /\ S # {}
        BY <1>1
    <2> HIDE DEF S
    <2> QED
        BY <2>1, MaxIs
<1>3. Canonical(mult, shift) = [mult |-> mult \div 2^t, shift |-> shift - t]
    BY DEF Canonical
<1>4. t \in 0 .. shift /\ mult % 2^t = 0
    BY <1>2
<1> HIDE DEF t
<1> DEFINE p == 2^t
           q == mult \div p
<1>5. p \in Nat \ {0}
    BY <1>4, PowerPositive
<1> HIDE DEF p
<1>6. q \in Nat /\ mult = (q * p) + (mult % p)
    BY <1>5, DivMod
<1>7. mult % p = 0
    BY <1>4 DEF p
<1> HIDE DEF q
<1>8. mult = q * p
    <2> DEFINE u == q * p
    <2>1. u \in Int /\ mult = u + 0
        BY <1>5, <1>6, <1>7
    <2> HIDE DEF u
    <2>2. mult = u
        BY <2>1
    <2> QED
        BY <2>2 DEF u
<1>9. q # 0
    <2>1. 0 * p = 0
        BY <1>5
    <2> QED
        BY <1>8, <2>1
<1>10. q <= mult
    <2>1. p * q >= 1 * q
        BY <1>5, <1>6, TimesMonotone
    <2>2. p * q = q * p /\ 1 * q = q
        BY <1>5, <1>6
    <2> QED
        BY <1>6, <1>8, <2>1, <2>2
<1>11. q \in 1 .. mult
    BY <1>6, <1>9, <1>10
<1> QED
    BY <1>3, <1>4, <1>8, <1>11 DEF p, q

\* The limit is about the distance, relative to the scale.
LEMMA LimitIs ==
    ASSUME NEW n, NEW d, NEW mult, NEW shift
    PROVE  WithinLimit(n, d, mult, shift)
             <=> Apart(mult * d, n * 2^shift) * ErrInv <= n * 2^shift
    BY DEF WithinLimit, Apart

\* It does not depend on how a scale is split into multiplier and shift.
LEMMA LimitScaled ==
    ASSUME NEW n \in Nat, NEW d \in Nat, NEW mult \in Nat, NEW shift \in Nat, NEW t \in Nat
    PROVE  WithinLimit(n, d, mult * 2^t, shift + t) <=> WithinLimit(n, d, mult, shift)
<1> DEFINE p == 2^t
           s == 2^shift
           x == mult * d
           y == n * s
           e == Apart(x, y)
<1>1. p \in Nat \ {0} /\ s \in Nat /\ ErrInv \in Nat
    BY PowerPositive, RecordAssumption
<1>2. n * 2^(shift + t) = y * p
    <2>1. 2^(shift + t) = s * p
        BY PowerSum
    <2> HIDE DEF s, p
    <2>2. (n * s) * p = n * (s * p)
        BY <1>1, TimesAssoc
    <2> QED
        BY <2>1, <2>2
<1> HIDE DEF p, s
<1>3. (mult * p) * d = x * p
    BY <1>1
<1>4. x \in Int /\ y \in Int /\ e \in Int
    <2>1. x \in Int /\ y \in Int
        BY <1>1
    <2> HIDE DEF x, y
    <2> QED
        BY <2>1 DEF Apart
<1>5. Apart(x * p, y * p) = e * p
    <2> HIDE DEF x, y
    <2> DEFINE u == x * p
               v == y * p
    <2>1. (x - y) * p = u - v /\ (-(x - y)) * p = -(u - v) /\ u \in Int /\ v \in Int
        BY <1>1, <1>4
    <2>2. x - y < 0 <=> u - v < 0
        <3>1. y * p <= x * p <=> y <= x
            BY <1>1, <1>4, Cancel
        <3>2. v <= u <=> y <= x
            BY <3>1
        <3> HIDE DEF u, v
        <3> QED
            BY <1>4, <2>1, <3>2
    <2> HIDE DEF u, v
    <2>3. Apart(u, v) = e * p
        BY <2>1, <2>2 DEF Apart
    <2> QED
        BY <2>3 DEF u, v
<1>6. WithinLimit(n, d, mult * p, shift + t) <=> (e * p) * ErrInv <= y * p
    BY <1>2, <1>3, <1>5, LimitIs DEF p
<1>7. WithinLimit(n, d, mult, shift) <=> e * ErrInv <= y
    BY LimitIs DEF s
<1> HIDE DEF e, y
<1>8. (e * p) * ErrInv = (e * ErrInv) * p
    BY <1>1, <1>4
<1>9. e * ErrInv \in Int
    BY <1>1, <1>4
<1>10. (e * ErrInv) * p <= y * p <=> e * ErrInv <= y
    BY <1>1, <1>4, <1>9, Cancel
<1> QED
    BY <1>6, <1>7, <1>8, <1>10 DEF p

\* What is encoded fits the fields, and is as far from the scale as the multiplier
\* before its factors of two were moved.
LEMMA EncodeIs ==
    ASSUME NEW n \in Nat \ {0}, NEW d \in Nat \ {0}, InHardwareRange(n, d)
    PROVE  /\ Encode(n, d).mult \in 1 .. MULTIPLIER_MAX
           /\ Encode(n, d).shift \in 0 .. SHIFT_MAX
           /\ WithinLimit(n, d, Encode(n, d).mult, Encode(n, d).shift)
                <=> WithinLimit(n, d, Multiplier(n, d, LogShift(n, d)), LogShift(n, d))
<1> DEFINE L == LogShift(n, d)
           m == Multiplier(n, d, L)
           M == MULTIPLIER_MAX
           c == Canonical(m, L)
<1>1. FittedShift(n, d) = L /\ m \in 1 .. M
    BY FittedIsLogShift
<1>2. L \in 0 .. SHIFT_MAX
    BY LogShiftIsLast
<1>3. Encode(n, d) = c
    BY <1>1 DEF Encode
<1>4. M \in Nat /\ SHIFT_MAX \in Nat
    BY FieldLimits
<1> HIDE DEF L, m, M
<1>5. m \in Nat \ {0} /\ L \in Nat
    BY <1>1, <1>2, <1>4
<1>6. PICK t \in 0 .. L : c.shift = L - t /\ c.mult \in 1 .. m /\ m = c.mult * 2^t
    BY <1>5, CanonicalIs
<1> HIDE DEF c
<1>7. c.mult \in 1 .. M /\ c.shift \in 0 .. SHIFT_MAX /\ c.shift \in Nat /\ c.mult \in Nat
    BY <1>1, <1>2, <1>4, <1>5, <1>6
<1>8. c.shift + t = L /\ t \in Nat
    BY <1>5, <1>6
<1>9. WithinLimit(n, d, c.mult * 2^t, c.shift + t) <=> WithinLimit(n, d, c.mult, c.shift)
    BY <1>7, <1>8, LimitScaled
<1>10. WithinLimit(n, d, m, L) <=> WithinLimit(n, d, c.mult, c.shift)
    BY <1>6, <1>8, <1>9
<1> QED
    BY <1>3, <1>7, <1>10 DEF L, m, M

\* The limit on the error is not finer than one step of the multiplier.
LimitIsMet == ErrInv <= MULTIPLIER_MAX

\* Then no pair the hardware holds meets the limit unless the encoded one does.
LEMMA EncodeIsBest ==
    ASSUME LimitIsMet, NEW n \in Nat \ {0}, NEW d \in Nat \ {0}, InHardwareRange(n, d),
           SomePairFits(n, d)
    PROVE  Encodable(n, d)
<1> DEFINE L == LogShift(n, d)
           m == Multiplier(n, d, L)
           M == MULTIPLIER_MAX
           E == ErrInv
           x == n * 2^L
           a == Apart(m * d, x)
<1>1. /\ L \in 0 .. SHIFT_MAX /\ \A s \in 0 .. SHIFT_MAX : s > L => n * 2^s > M * d
      /\ SHIFT_MAX \in Nat /\ M \in Nat \ {0} /\ E \in Nat /\ E <= M
    BY LogShiftIsLast, FieldLimits, RecordAssumption DEF LimitIsMet
<1>2. FittedShift(n, d) = L /\ m \in 1 .. M
    BY FittedIsLogShift
<1>3. PICK mult \in 1 .. M, shift \in 0 .. SHIFT_MAX : WithinLimit(n, d, mult, shift)
    BY DEF SomePairFits
<1>4. L \in Nat /\ shift \in Nat /\ mult \in Nat
    BY <1>1, <1>3
<1> HIDE DEF L, M, E
<1>5. x \in Nat
    BY <1>4, PowerPositive
<1>6. m = RoundHalfEven(x, d)
    BY DEF Multiplier
<1> HIDE DEF m
<1>7. WithinLimit(n, d, m, L)
    <2>1. SUFFICES a * E <= x
        BY LimitIs DEF E
    <2>2. m \in Nat /\ m * d \in Int /\ a \in Int
        <3> DEFINE y == m * d
        <3>1. m \in Nat
            BY <1>1, <1>2
        <3>2. y \in Int
            BY <3>1
        <3> HIDE DEF y, x
        <3>3. Apart(y, x) \in Int
            BY <1>5, <3>2 DEF Apart
        <3> QED
            BY <3>1, <3>2, <3>3 DEF y
    <2>3. CASE shift <= L
        <3> DEFINE t == L - shift
                   k == mult * 2^t
                   b == Apart(k * d, x)
        <3>1. t \in Nat /\ shift + t = L
            BY <1>4, <2>3
        <3>2. WithinLimit(n, d, k, L)
            <4>1. WithinLimit(n, d, mult * 2^t, shift + t) <=> WithinLimit(n, d, mult, shift)
                BY <1>4, <3>1, LimitScaled
            <4> QED
                BY <1>3, <3>1, <4>1
        <3>3. k \in Int
            <4>1. 2^t \in Nat
                BY <3>1, PowerPositive
            <4> QED
                BY <1>4, <4>1
        <3> HIDE DEF k
        <3>4. b * E <= x
            BY <3>2, LimitIs DEF E
        <3>5. a <= b /\ b \in Int
            <4> DEFINE y == k * d
            <4>1. y \in Int
                BY <3>3
            <4>2. Apart(m * d, x) <= Apart(y, x)
                <5> HIDE DEF x
                <5> QED
                    BY <1>5, <1>6, <3>3, RoundedIsNearest
            <4> HIDE DEF y, x
            <4>3. Apart(y, x) \in Int
                BY <1>5, <4>1 DEF Apart
            <4> QED
                BY <4>2, <4>3 DEF y
        <3> HIDE DEF a, b, x
        <3>6. a * E <= b * E
            BY <1>1, <2>2, <3>5, TimesMonotone
        <3> DEFINE u == a * E
                   v == b * E
        <3>7. u \in Int /\ v \in Int /\ u <= v /\ v <= x
            BY <1>1, <2>2, <3>4, <3>5, <3>6
        <3> HIDE DEF u, v
        <3>8. u <= x
            BY <1>5, <3>7
        <3> QED
            BY <3>8 DEF u
    <2>4. CASE shift > L
        <3>1. L + 1 \in 0 .. SHIFT_MAX /\ L + 1 > L
            BY <1>1, <1>4, <2>4
        <3>2. n * 2^(L + 1) > M * d
            BY <1>1, <3>1
        <3>3. n * 2^(L + 1) = 2 * x
            <4> DEFINE p == 2^L
            <4>1. 2^(L + 1) = 2 * p /\ p \in Nat
                BY <1>4, PowerStep, PowerPositive
            <4> HIDE DEF p
            <4>2. n * (2 * p) = 2 * (n * p)
                BY <4>1
            <4> QED
                BY <4>1, <4>2 DEF p
        <3>4. 2 * a <= d
            <4>1. 0 \in Int
                OBVIOUS
            <4> HIDE DEF x
            <4> QED
                BY <1>5, <1>6, <4>1, RoundedIsNearest
        <3> HIDE DEF a, x
        <3>5. E * d <= M * d
            BY <1>1, TimesMonotone
        <3>6. (2 * a) * E <= d * E /\ d * E = E * d /\ (2 * a) * E = 2 * (a * E)
            BY <1>1, <2>2, <3>4, TimesMonotone
        <3> DEFINE u == a * E
                   v == E * d
                   w == M * d
        <3>7. u \in Int /\ v \in Int /\ w \in Int /\ 2 * u <= v /\ v <= w /\ 2 * x > w
            BY <1>1, <2>2, <3>2, <3>3, <3>5, <3>6
        <3> HIDE DEF u, v, w
        <3>8. u <= x
            BY <1>5, <3>7
        <3> QED
            BY <3>8 DEF u
    <2> QED
        BY <1>4, <2>3, <2>4
<1>8. WithinLimit(n, d, Encode(n, d).mult, Encode(n, d).shift)
    BY <1>7, EncodeIs DEF L, m
<1> QED
    BY <1>2, <1>8 DEF Encodable, m, M

(***************************************************************************)
(* Lists and files.                                                        *)
(***************************************************************************)
\* A sequence is a list, whatever it is a sequence of.
LEMMA SequencesAreLists ==
    ASSUME NEW S, NEW s \in Seq(S)
    PROVE  /\ IsList(s) /\ Len(s) \in Nat /\ DOMAIN s = 1 .. Len(s)
           /\ \A i \in 1 .. Len(s) : s[i] \in S
<1>1. Len(s) \in Nat /\ DOMAIN s = 1 .. Len(s) /\ s \in [1 .. Len(s) -> S]
    OBVIOUS
<1> DEFINE R == {s[i] : i \in DOMAIN s}
<1>2. s \in [1 .. Len(s) -> R]
    BY <1>1
<1> HIDE DEF R
<1>3. s \in Seq(R)
    BY <1>1, <1>2, SeqDef
<1> QED
    BY <1>1, <1>3 DEF IsList, R

\* A list has a length, and positions up to it.
LEMMA ListShape ==
    ASSUME NEW s, IsList(s)
    PROVE  Len(s) \in Nat /\ DOMAIN s = 1 .. Len(s)
    BY DEF IsList

LEMMA EmptyList == IsList(<<>>) /\ Len(<<>>) = 0
<1>1. <<>> \in Seq({}) /\ Len(<<>>) = 0
    OBVIOUS
<1> QED
    BY <1>1, SequencesAreLists

\* A list grows by one element, or by another list.
LEMMA ListAppend ==
    ASSUME NEW s, IsList(s), NEW e
    PROVE  /\ IsList(Append(s, e)) /\ Len(Append(s, e)) = Len(s) + 1
           /\ \A i \in 1 .. Len(s) : Append(s, e)[i] = s[i]
           /\ Append(s, e)[Len(s) + 1] = e
<1> DEFINE S == {s[i] : i \in DOMAIN s} \cup {e}
<1>1. s \in Seq(S)
    <2> DEFINE R == {s[i] : i \in DOMAIN s}
    <2>1. s \in Seq(R) /\ R \subseteq S
        BY DEF IsList
    <2> HIDE DEF R, S
    <2> QED
        BY <2>1
<1>2. e \in S
    OBVIOUS
<1> HIDE DEF S
<1>3. Append(s, e) \in Seq(S)
    BY <1>1, <1>2
<1>4. /\ Len(Append(s, e)) = Len(s) + 1 /\ Append(s, e)[Len(s) + 1] = e
      /\ \A i \in 1 .. Len(s) : Append(s, e)[i] = s[i]
    BY <1>1, <1>2
<1> QED
    BY <1>3, <1>4, SequencesAreLists

LEMMA ListConcat ==
    ASSUME NEW s, IsList(s), NEW t, IsList(t)
    PROVE  IsList(s \o t) /\ Len(s \o t) = Len(s) + Len(t)
<1> DEFINE R == {s[i] : i \in DOMAIN s}
           T == {t[i] : i \in DOMAIN t}
<1>1. s \in Seq(R) /\ t \in Seq(T)
    BY DEF IsList
<1> HIDE DEF R, T
<1>2. s \in Seq(R \cup T) /\ t \in Seq(R \cup T)
    BY <1>1
<1>3. s \o t \in Seq(R \cup T) /\ Len(s \o t) = Len(s) + Len(t)
    BY <1>2
<1> QED
    BY <1>3, SequencesAreLists

\* Writing a file leaves the others alone.
LEMMA WriteIs ==
    ASSUME NEW dir, NEW path, NEW content
    PROVE  /\ DOMAIN Write(dir, path, content) = DOMAIN dir \cup {path}
           /\ Write(dir, path, content)[path] = content
           /\ \A p \in DOMAIN dir \ {path} : Write(dir, path, content)[p] = dir[p]
    BY DEF Write

\* The files of an export are different files.
LEMMA FilesApart ==
    /\ \A k, l : PayloadFile(k) = PayloadFile(l) => k = l
    /\ \A k, l : OscaleFile(k) = OscaleFile(l) => k = l
    /\ \A k, l : PayloadFile(k) # OscaleFile(l)
    /\ \A k : /\ PayloadFile(k) \notin {PlanFile, JsonFile, MarkdownFile}
              /\ OscaleFile(k) \notin {PlanFile, JsonFile, MarkdownFile}
    /\ PlanFile # JsonFile /\ PlanFile # MarkdownFile /\ JsonFile # MarkdownFile
    BY DEF PayloadFile, OscaleFile, PlanFile, JsonFile, MarkdownFile

\* An entry has a whole number of pages.
LEMMA PageCountIsNat ==
    ASSUME NEW channels \in Nat
    PROVE  PageCount(channels) \in Nat
<1>1. channels + Channels - 1 \in Nat /\ Channels \in Nat \ {0}
    BY ExportAssumption
<1> QED
    BY <1>1, DivMod DEF PageCount

(***************************************************************************)
(* The invariant.                                                          *)
(***************************************************************************)
\* The export that fills the directory, or that has filled it.
Live == run.pc \in {"entries", "json", "markdown", "done"}

RunShape ==
    /\ run = [pc |-> run.pc, why |-> run.why, done |-> run.done, page |-> run.page,
              plan |-> run.plan, entries |-> run.entries,
              valid |-> run.valid, padded |-> run.padded, channelwise |-> run.channelwise]
    /\ IsList(run.plan) /\ IsList(run.entries)
    /\ run.valid \in Int /\ run.padded \in Int

\* An entry whose columns differ beyond the store's has tokens to show.
Counted(e) == Varies(e) => e.tokens # <<>> /\ e.tokens[1] >= TokenFloor

\* What is on disk for an entry already exported, and where its pages end.
EntryKept(i) ==
    LET e == run.entries[i]
    IN  /\ e.key = wman.entries[i].key
        /\ PayloadFile(e.key) \in DOMAIN out /\ out[PayloadFile(e.key)] = e.sha
        /\ e.oscaleSha # <<>> =>
               OscaleFile(e.key) \in DOMAIN out /\ out[OscaleFile(e.key)] = e.oscaleSha[1]
        /\ e.firstPage + e.pageCount =
               (IF i = Len(run.entries) THEN run.page ELSE run.entries[i + 1].firstPage)
        /\ wman = HonestWeights => Counted(e)

Progress ==
    Live =>
        /\ HeadersAccepted(wman, cman, AllowDebug)
        /\ run.done <= Len(wman.entries)
        /\ \A i \in 1 .. run.done : EntryKept(i)
        /\ run.valid + run.padded = run.page * Channels
        /\ run.pc # "entries" =>
               /\ run.done = Len(wman.entries)
               /\ PlanFile \in DOMAIN out /\ out[PlanFile] = run.plan
        /\ run.pc \in {"markdown", "done"} => JsonFile \in DOMAIN out /\ out[JsonFile] = Manifest

IInv == TypeOK /\ cman \in Calibrations /\ RunShape /\ Progress /\ UnboundScalesTraceable

\* The same, with the definitions that name a state at hand.
LEMMA Traced ==
    UnboundScalesTraceable <=>
        (JsonFile \in DOMAIN out =>
            \/ out[JsonFile].sources.weights # HonestWeights
            \/ \A i \in DOMAIN out[JsonFile].entries : Counted(out[JsonFile].entries[i]))
    BY DEF UnboundScalesTraceable, Json, Counted

\* What the steps read of the state of an export.
LEMMA RunTypes ==
    ASSUME IInv
    PROVE  /\ run.done \in Nat /\ run.done = Len(run.entries) /\ DOMAIN run.entries = 1 .. run.done
           /\ run.page \in Nat /\ run.page = Len(run.plan)
           /\ run.valid \in Int /\ run.padded \in Int
           /\ edits \in Nat /\ runs \in Nat /\ MaxEdits \in Nat /\ MaxRuns \in Nat
    BY ListShape, ExportAssumption DEF IInv, TypeOK, RunShape

\* The entries of an accepted manifest: a list, with keys of the calibration.
LEMMA WeightList ==
    ASSUME IInv, HeadersAccepted(wman, cman, AllowDebug)
    PROVE  /\ IsList(wman.entries) /\ Len(wman.entries) \in Nat
           /\ DOMAIN wman.entries = 1 .. Len(wman.entries)
           /\ \A i, j \in 1 .. Len(wman.entries) :
                  wman.entries[i].key = wman.entries[j].key => i = j
           /\ \A i \in 1 .. Len(wman.entries) : wman.entries[i].key \in Keys
<1>1. Keyed(wman.entries) /\ KeysOf(wman.entries) = KeysOf(cman.entries) /\ cman \in Calibrations
    BY DEF IInv, HeadersAccepted
<1>2. IsList(wman.entries) /\ Len(wman.entries) \in Nat /\ DOMAIN wman.entries = 1 .. Len(wman.entries)
    BY <1>1, ListShape DEF Keyed
<1>3. \A i \in DOMAIN wman.entries : wman.entries[i].key \in KeysOf(wman.entries)
    BY DEF KeysOf
<1> QED
    BY <1>1, <1>2, <1>3 DEF Keyed, Keys

\* The entry under way, once it is accepted.
LEMMA Accepted ==
    ASSUME IInv, EntriesLeft, EntryAccepted(Weight, cman, Cal, files)
    PROVE  /\ HeadersAccepted(wman, cman, AllowDebug)
           /\ run.done + 1 \in 1 .. Len(wman.entries) /\ Weight = wman.entries[run.done + 1]
           /\ Weight.key \in Keys
           /\ AllPositive(Scales) /\ Len(Scales) = Weight.channels /\ Weight.channels \in Nat
           /\ AllPositive(Outs) /\ Len(Outs) = Weight.channels
           /\ Scales = Weight.scaleSha[1]
           /\ FloorMet(cman, Cal)
<1>1. HeadersAccepted(wman, cman, AllowDebug) /\ run.done < Len(wman.entries)
    BY DEF EntriesLeft, IInv, Progress, Live
<1>2. run.done + 1 \in 1 .. Len(wman.entries) /\ Weight = wman.entries[run.done + 1] /\ Weight.key \in Keys
    BY <1>1, RunTypes, WeightList DEF Weight
<1>3. AllPositive(Scales) /\ Len(Scales) = Weight.channels
    BY DEF EntryAccepted, ScaleAccepted, Scales
<1>4. Weight.channels \in Nat
    BY <1>3 DEF AllPositive
<1>5. AllPositive(Outs) /\ Len(Outs) = Weight.channels
    BY DEF EntryAccepted, OutputScaleAccepted, Outs
<1>6. Scales = Weight.scaleSha[1]
    BY DEF EntryAccepted, WeightStoreBound, HashBound, Scales
<1>7. FloorMet(cman, Cal)
    BY DEF EntryAccepted
<1> QED
    BY <1>1, <1>2, <1>3, <1>4, <1>5, <1>6, <1>7

(***************************************************************************)
(* One entry.                                                              *)
(***************************************************************************)
LEMMA TimesSwap ==
    ASSUME NEW x \in Nat, NEW y \in Nat, NEW v \in Nat
    PROVE  (x * v) * y = (y * v) * x
    OBVIOUS

\* An entry accepted under the store's own manifest has the store's own scales:
\* its columns differ beyond them only through counted output scales.
LEMMA AcceptedIsCounted ==
    ASSUME IInv, EntriesLeft, EntryAccepted(Weight, cman, Cal, files), wman = HonestWeights,
           NEW payload
    PROVE  Counted(EntryRecord(Weight, Cal, Scales, Outs, payload))
<1> DEFINE e == EntryRecord(Weight, Cal, Scales, Outs, payload)
<1>1. /\ e.key = Weight.key /\ e.channels = Weight.channels /\ e.scaleSha = Scales
      /\ e.tokens = Tokens(cman, Cal)
      /\ ModeSupplied(Cal) # PerChannel => e.scalar = <<Outs[1]>>
    BY DEF EntryRecord
<1> SUFFICES Counted(e)
    OBVIOUS
<1> HIDE DEF e
<1>2. CASE ModeSupplied(Cal) = PerChannel
    BY <1>1, <1>2, Accepted DEF FloorMet, Counted
<1>3. CASE ModeSupplied(Cal) # PerChannel
    <2>1. HonestScales(e.key) = Scales
        <3> DEFINE i == CHOOSE j \in DOMAIN HonestWeights.entries :
                            HonestWeights.entries[j].key = Weight.key
        <3>1. /\ run.done + 1 \in DOMAIN HonestWeights.entries
              /\ Weight = HonestWeights.entries[run.done + 1]
              /\ HeadersAccepted(wman, cman, AllowDebug)
            BY Accepted, WeightList
        <3>2. i \in DOMAIN HonestWeights.entries /\ HonestWeights.entries[i].key = Weight.key
            BY <3>1
        <3>3. i = run.done + 1
            BY <3>1, <3>2, StoreAssumption DEF Keyed
        <3>4. Weight.scaleSha = <<Resolved(HonestFiles, Weight.scale)>>
            BY <3>1, StoreAssumption
        <3>5. HonestScales(Weight.key) = Resolved(HonestFiles, HonestWeights.entries[i].scale)
            BY DEF HonestScales, EntryFor
        <3> HIDE DEF i
        <3> QED
            BY <1>1, <3>1, <3>3, <3>4, <3>5, Accepted
    <2>2. SUFFICES ASSUME NEW c \in 2 .. e.channels
                   PROVE  Scales[c] * e.scalar[1] * Scales[1] = Scales[1] * e.scalar[1] * Scales[c]
        <3>1. e.scalar # <<>>
            <4>1. \A v : <<v>> # <<>>
                OBVIOUS
            <4> QED
                BY <1>1, <1>3, <4>1
        <3> DEFINE outs == [x \in 1 .. e.channels |-> e.scalar[1]]
        <3>2. e.channels \in Nat
            BY <1>1, Accepted
        <3>3. \A c \in 2 .. e.channels : outs[c] = e.scalar[1] /\ outs[1] = e.scalar[1]
            BY <3>2
        <3>4. Varies(e) => \E c \in 2 .. e.channels :
                    Scales[c] * outs[1] * Scales[1] # Scales[1] * outs[c] * Scales[c]
            BY <1>1, <2>1, <3>1 DEF Varies
        <3> HIDE DEF outs
        <3> QED
            BY <2>2, <3>3, <3>4 DEF Counted
    <2>3. Weight.channels \in Nat /\ c \in 1 .. Weight.channels /\ 1 \in 1 .. Weight.channels
        BY <1>1, <2>2, Accepted
    <2>4. Scales[c] \in Nat /\ Scales[1] \in Nat /\ Outs[1] \in Nat
        <3>1. Scales \in Seq(Nat \ {0}) /\ Outs \in Seq(Nat \ {0})
            BY Accepted DEF AllPositive
        <3> QED
            BY <2>3, <3>1, Accepted
    <2>5. e.scalar[1] = Outs[1]
        BY <1>1, <1>3
    <2> QED
        BY <2>4, <2>5, TimesSwap
<1> QED
    BY <1>2, <1>3

\* The plan lines of an entry: one per page.
LEMMA LinesOfEntry ==
    ASSUME NEW key, NEW channels \in Nat, NEW firstPage
    PROVE  /\ IsList(PageLines(key, channels, firstPage))
           /\ Len(PageLines(key, channels, firstPage)) = PageCount(channels)
<1> DEFINE Line(p) == [page   |-> firstPage + p - 1,
                       tc     |-> (p - 1) % TensorCores,
                       path   |-> PayloadFile(key),
                       offset |-> (p - 1) * Channels,
                       valid  |-> Min({Channels, channels - (p - 1) * Channels})]
           n == PageCount(channels)
           lines == [p \in 1 .. n |-> Line(p)]
           S == {Line(p) : p \in 1 .. n}
<1>1. lines = PageLines(key, channels, firstPage)
    BY DEF PageLines
<1>2. n \in Nat
    BY PageCountIsNat
<1> HIDE DEF n, Line
<1>3. lines \in Seq(S) /\ Len(lines) = n
    BY <1>2
<1> HIDE DEF lines, S
<1>4. IsList(lines)
    BY <1>3, SequencesAreLists
<1> QED
    BY <1>1, <1>3, <1>4 DEF n

\* What a step that exports an entry writes.
LEMMA ExportWrites ==
    ASSUME IInv, ExportEntry
    PROVE  \E payload :
        LET e == EntryRecord(Weight, Cal, Scales, Outs, payload)
            key == Weight.key
            channels == Weight.channels
        IN  /\ run' = [run EXCEPT
                        !.done = run.done + 1,
                        !.page = run.page + PageCount(channels),
                        !.plan = run.plan \o PageLines(key, channels, run.page),
                        !.valid = run.valid + channels,
                        !.padded = run.padded + (PageCount(channels) * Channels - channels),
                        !.channelwise = run'.channelwise,
                        !.entries = Append(run.entries, e)]
            /\ PayloadFile(key) \in DOMAIN out' /\ out'[PayloadFile(key)] = payload
            /\ ModeSupplied(Cal) = PerChannel =>
                    OscaleFile(key) \in DOMAIN out' /\ out'[OscaleFile(key)] = Outs
            /\ DOMAIN out \subseteq DOMAIN out'
            /\ DOMAIN out' \subseteq DOMAIN out \cup {PayloadFile(key), OscaleFile(key)}
            /\ \A f \in DOMAIN out : f # PayloadFile(key) /\ f # OscaleFile(key) => out'[f] = out[f]
<1> DEFINE payload == PageRecords(Cal, Eff, Bias)
           key == Weight.key
           channels == Weight.channels
           pages == Write(out, PayloadFile(key), payload)
           lines == PageLines(key, channels, run.page)
           e == EntryRecord(Weight, Cal, Scales, Outs, payload)
<1>1. /\ EntriesLeft /\ EntryAccepted(Weight, cman, Cal, files)
      /\ out' = IF ModeSupplied(Cal) = PerChannel THEN Write(pages, OscaleFile(key), Outs) ELSE pages
      /\ run' = [run EXCEPT
              !.done = @ + 1,
              !.page = @ + Len(lines),
              !.plan = @ \o lines,
              !.valid = @ + channels,
              !.padded = @ + PageCount(channels) * Channels - channels,
              !.channelwise = @ + (IF ModeSupplied(Cal) = PerChannel THEN 1 ELSE 0),
              !.entries = Append(@, e)]
    BY DEF ExportEntry
<1>2. channels \in Nat /\ PageCount(channels) \in Nat /\ Channels \in Nat /\ run.padded \in Int
    BY <1>1, Accepted, PageCountIsNat, RunTypes, ExportAssumption
<1>3. Len(lines) = PageCount(channels)
    BY <1>2, LinesOfEntry
<1>4. run.padded + PageCount(channels) * Channels - channels
          = run.padded + (PageCount(channels) * Channels - channels)
    <2> DEFINE u == PageCount(channels) * Channels
    <2>1. u \in Int
        BY <1>2
    <2> HIDE DEF u
    <2>2. run.padded + u - channels = run.padded + (u - channels)
        BY <1>2, <2>1
    <2> QED
        BY <2>2 DEF u
<1> HIDE DEF payload, key, channels, lines, e
<1>5. /\ DOMAIN pages = DOMAIN out \cup {PayloadFile(key)} /\ pages[PayloadFile(key)] = payload
      /\ \A f \in DOMAIN out \ {PayloadFile(key)} : pages[f] = out[f]
    BY DEF Write
<1> HIDE DEF pages
<1>6. /\ PayloadFile(key) \in DOMAIN out' /\ out'[PayloadFile(key)] = payload
      /\ ModeSupplied(Cal) = PerChannel =>
            OscaleFile(key) \in DOMAIN out' /\ out'[OscaleFile(key)] = Outs
      /\ DOMAIN out \subseteq DOMAIN out'
      /\ DOMAIN out' \subseteq DOMAIN out \cup {PayloadFile(key), OscaleFile(key)}
      /\ \A f \in DOMAIN out : f # PayloadFile(key) /\ f # OscaleFile(key) => out'[f] = out[f]
    <2>1. CASE ModeSupplied(Cal) = PerChannel
        <3>1. /\ DOMAIN out' = DOMAIN pages \cup {OscaleFile(key)} /\ out'[OscaleFile(key)] = Outs
              /\ \A f \in DOMAIN pages \ {OscaleFile(key)} : out'[f] = pages[f]
            BY <1>1, <2>1 DEF Write
        <3>2. PayloadFile(key) # OscaleFile(key)
            BY FilesApart
        <3> QED
            BY <1>5, <3>1, <3>2
    <2>2. CASE ModeSupplied(Cal) # PerChannel
        BY <1>1, <1>5, <2>2
    <2> QED
        BY <2>1, <2>2
<1>7. run' = [run EXCEPT
                !.done = run.done + 1,
                !.page = run.page + PageCount(channels),
                !.plan = run.plan \o lines,
                !.valid = run.valid + channels,
                !.padded = run.padded + (PageCount(channels) * Channels - channels),
                !.channelwise = run'.channelwise,
                !.entries = Append(run.entries, e)]
    BY <1>1, <1>3, <1>4 DEF IInv, RunShape
<1> QED
    BY <1>6, <1>7 DEF payload, key, channels, lines, e

(***************************************************************************)
(* The steps.                                                              *)
(***************************************************************************)
\* The files an export may have written.
Paths ==
    {PlanFile, JsonFile, MarkdownFile}
        \cup {PayloadFile(key) : key \in Keys} \cup {OscaleFile(key) : key \in Keys}

\* An entry is kept by a step when its files are, and the pages still follow.
LEMMA KeptNext ==
    ASSUME NEW i, NEW d, run'.entries[i] = d,
           d.key = wman'.entries[i].key,
           PayloadFile(d.key) \in DOMAIN out', out'[PayloadFile(d.key)] = d.sha,
           d.oscaleSha # <<>> =>
               OscaleFile(d.key) \in DOMAIN out' /\ out'[OscaleFile(d.key)] = d.oscaleSha[1],
           d.firstPage + d.pageCount =
               (IF i = Len(run'.entries) THEN run'.page ELSE run'.entries[i + 1].firstPage),
           wman' = HonestWeights => Counted(d)
    PROVE  EntryKept(i)'
    BY DEF EntryKept, Counted, Varies

\* An entry exported keeps the entries before it, and is kept itself.
LEMMA ExportStep ==
    ASSUME IInv, ExportEntry
    PROVE  IInv'
<1> DEFINE key == Weight.key
           channels == Weight.channels
           n == run.done + 1
<1>1. /\ EntriesLeft /\ EntryAccepted(Weight, cman, Cal, files) /\ run.pc = "entries" /\ Live
      /\ UNCHANGED <<files, wman, cman, edits, runs>>
    BY DEF ExportEntry, EntriesLeft, Live
<1>2. PICK payload :
        LET e == EntryRecord(Weight, Cal, Scales, Outs, payload)
        IN  /\ run' = [run EXCEPT
                        !.done = run.done + 1,
                        !.page = run.page + PageCount(channels),
                        !.plan = run.plan \o PageLines(key, channels, run.page),
                        !.valid = run.valid + channels,
                        !.padded = run.padded + (PageCount(channels) * Channels - channels),
                        !.channelwise = run'.channelwise,
                        !.entries = Append(run.entries, e)]
            /\ PayloadFile(key) \in DOMAIN out' /\ out'[PayloadFile(key)] = payload
            /\ ModeSupplied(Cal) = PerChannel =>
                    OscaleFile(key) \in DOMAIN out' /\ out'[OscaleFile(key)] = Outs
            /\ DOMAIN out \subseteq DOMAIN out'
            /\ DOMAIN out' \subseteq DOMAIN out \cup {PayloadFile(key), OscaleFile(key)}
            /\ \A f \in DOMAIN out : f # PayloadFile(key) /\ f # OscaleFile(key) => out'[f] = out[f]
    BY ExportWrites
<1> DEFINE e == EntryRecord(Weight, Cal, Scales, Outs, payload)
<1>3. /\ e.key = key /\ e.firstPage = run.page /\ e.pageCount = PageCount(channels) /\ e.sha = payload
      /\ e.oscaleSha = IF ModeSupplied(Cal) = PerChannel THEN <<Outs>> ELSE <<>>
    BY DEF EntryRecord
<1>4. wman = HonestWeights => Counted(e)
    BY <1>1, AcceptedIsCounted
<1>5. /\ HeadersAccepted(wman, cman, AllowDebug) /\ n \in 1 .. Len(wman.entries)
      /\ key = wman.entries[n].key /\ key \in Keys /\ channels \in Nat
    BY <1>1, Accepted
<1>6. /\ run.done \in Nat /\ run.done = Len(run.entries) /\ DOMAIN run.entries = 1 .. run.done
      /\ run.page \in Nat /\ run.page = Len(run.plan) /\ run.valid \in Int /\ run.padded \in Int
    BY RunTypes
<1>7. PageCount(channels) \in Nat /\ Channels \in Nat
    BY <1>5, PageCountIsNat, ExportAssumption
<1>8. /\ Len(wman.entries) \in Nat
      /\ \A i, j \in 1 .. Len(wman.entries) : wman.entries[i].key = wman.entries[j].key => i = j
    BY <1>5, WeightList
<1>9. /\ \A i \in 1 .. run.done : EntryKept(i)
      /\ run.valid + run.padded = run.page * Channels
    BY <1>1 DEF IInv, Progress
<1> HIDE DEF e, key, channels
<1>10. /\ run'.pc = "entries" /\ run'.done = n /\ run'.page = run.page + PageCount(channels)
       /\ run'.plan = run.plan \o PageLines(key, channels, run.page)
       /\ run'.valid = run.valid + channels
       /\ run'.padded = run.padded + (PageCount(channels) * Channels - channels)
       /\ run'.entries = Append(run.entries, e)
       /\ run' = [pc |-> run'.pc, why |-> run'.why, done |-> run'.done, page |-> run'.page,
                  plan |-> run'.plan, entries |-> run'.entries, valid |-> run'.valid,
                  padded |-> run'.padded, channelwise |-> run'.channelwise]
    <2> DEFINE plan == run.plan \o PageLines(key, channels, run.page)
               padded == run.padded + (PageCount(channels) * Channels - channels)
               page == run.page + PageCount(channels)
               valid == run.valid + channels
               entries == Append(run.entries, e)
               cw == run'.channelwise
    <2>1. /\ run' = [run EXCEPT !.done = n, !.page = page, !.plan = plan, !.valid = valid,
                        !.padded = padded, !.channelwise = cw, !.entries = entries]
          /\ run = [pc |-> run.pc, why |-> run.why, done |-> run.done, page |-> run.page,
                    plan |-> run.plan, entries |-> run.entries, valid |-> run.valid,
                    padded |-> run.padded, channelwise |-> run.channelwise]
        BY <1>2 DEF e, IInv, RunShape
    <2> HIDE DEF plan, padded, page, valid, entries, cw, n
    <2>2. /\ run'.pc = run.pc /\ run'.done = n /\ run'.page = page /\ run'.plan = plan
          /\ run'.valid = valid /\ run'.padded = padded /\ run'.entries = entries
          /\ run' = [pc |-> run'.pc, why |-> run'.why, done |-> run'.done, page |-> run'.page,
                     plan |-> run'.plan, entries |-> run'.entries, valid |-> run'.valid,
                     padded |-> run'.padded, channelwise |-> run'.channelwise]
        BY <2>1
    <2> QED
        BY <1>1, <2>2 DEF plan, padded, page, valid, entries
<1>11. /\ PayloadFile(key) \in DOMAIN out' /\ out'[PayloadFile(key)] = payload
       /\ ModeSupplied(Cal) = PerChannel =>
               OscaleFile(key) \in DOMAIN out' /\ out'[OscaleFile(key)] = Outs
       /\ DOMAIN out \subseteq DOMAIN out'
       /\ DOMAIN out' \subseteq DOMAIN out \cup {PayloadFile(key), OscaleFile(key)}
       /\ \A f \in DOMAIN out : f # PayloadFile(key) /\ f # OscaleFile(key) => out'[f] = out[f]
    BY <1>2
<1>12. /\ IsList(run'.entries) /\ Len(run'.entries) = n /\ run'.entries[n] = e
       /\ \A i \in 1 .. run.done : run'.entries[i] = run.entries[i]
    BY <1>6, <1>10, ListAppend DEF IInv, RunShape
<1>13. IsList(run'.plan) /\ Len(run'.plan) = run'.page
    <2>1. /\ IsList(PageLines(key, channels, run.page))
          /\ Len(PageLines(key, channels, run.page)) = PageCount(channels)
        BY <1>5, LinesOfEntry DEF channels
    <2> QED
        BY <1>6, <1>10, <2>1, ListConcat DEF IInv, RunShape
<1>14. ASSUME NEW i \in 1 .. run.done PROVE EntryKept(i)'
    <2> DEFINE d == run.entries[i]
    <2>1. /\ d.key = wman.entries[i].key
          /\ PayloadFile(d.key) \in DOMAIN out /\ out[PayloadFile(d.key)] = d.sha
          /\ d.oscaleSha # <<>> =>
                OscaleFile(d.key) \in DOMAIN out /\ out[OscaleFile(d.key)] = d.oscaleSha[1]
          /\ d.firstPage + d.pageCount =
                (IF i = Len(run.entries) THEN run.page ELSE run.entries[i + 1].firstPage)
          /\ wman = HonestWeights => Counted(d)
        BY <1>9 DEF EntryKept
    <2>2. d.key # key
        BY <1>5, <1>6, <1>8, <2>1
    <2>3. /\ PayloadFile(d.key) # PayloadFile(key) /\ PayloadFile(d.key) # OscaleFile(key)
          /\ OscaleFile(d.key) # PayloadFile(key) /\ OscaleFile(d.key) # OscaleFile(key)
        BY <2>2, FilesApart
    <2>4. run'.entries[i] = d
        BY <1>12
    <2>5. /\ i # n
          /\ (IF i = Len(run.entries) THEN run.page ELSE run.entries[i + 1].firstPage)
                = run'.entries[i + 1].firstPage
        <3>1. CASE i = run.done
            BY <1>3, <1>6, <1>12, <3>1
        <3>2. CASE i # run.done
            <4>1. i + 1 \in 1 .. run.done
                BY <1>6, <3>2
            <4> QED
                BY <1>6, <1>12, <3>2, <4>1
        <3> QED
            BY <1>6, <3>1, <3>2
    <2> HIDE DEF d
    <2>6. /\ PayloadFile(d.key) \in DOMAIN out' /\ out'[PayloadFile(d.key)] = d.sha
          /\ d.oscaleSha # <<>> =>
                OscaleFile(d.key) \in DOMAIN out' /\ out'[OscaleFile(d.key)] = d.oscaleSha[1]
        BY <1>11, <2>1, <2>3
    <2> QED
        BY <1>1, <1>12, <2>1, <2>4, <2>5, <2>6 DEF EntryKept, Counted, Varies
<1>15. ASSUME NEW i, i = n PROVE EntryKept(i)'
    <2>1. e.oscaleSha # <<>> =>
            OscaleFile(key) \in DOMAIN out' /\ out'[OscaleFile(key)] = e.oscaleSha[1]
        BY <1>3, <1>11
    <2>2. run'.entries[i] = e /\ i = Len(run'.entries) /\ e.key = wman'.entries[i].key
        BY <1>1, <1>3, <1>5, <1>12, <1>15
    <2>3. PayloadFile(e.key) \in DOMAIN out' /\ out'[PayloadFile(e.key)] = e.sha
        BY <1>3, <1>11
    <2>4. e.oscaleSha # <<>> =>
            OscaleFile(e.key) \in DOMAIN out' /\ out'[OscaleFile(e.key)] = e.oscaleSha[1]
        BY <1>3, <2>1
    <2>5. e.firstPage + e.pageCount = run'.page
        BY <1>3, <1>10
    <2>6. wman' = HonestWeights => Counted(e)
        BY <1>1, <1>4
    <2> DEFINE d == e
    <2> HIDE DEF d
    <2>7. run'.entries[i] = d
        BY <2>2 DEF d
    <2> QED
        BY <2>2, <2>3, <2>4, <2>5, <2>6, <2>7 DEF d, EntryKept, Counted, Varies
<1>16. run'.valid + run'.padded = run'.page * Channels /\ run'.valid \in Int /\ run'.padded \in Int
    <2> DEFINE u == PageCount(channels) * Channels
               v == run.page * Channels
    <2>1. u \in Int /\ v \in Int /\ (run.page + PageCount(channels)) * Channels = v + u
        BY <1>6, <1>7, Distribute
    <2>2. channels \in Int
        BY <1>5 DEF channels
    <2> HIDE DEF u, v
    <2>3. (run.valid + channels) + (run.padded + (u - channels)) = (run.valid + run.padded) + u
        BY <1>6, <2>1, <2>2
    <2>4. run.padded + (u - channels) \in Int /\ run.valid + channels \in Int
        BY <1>6, <2>1, <2>2
    <2>5. run.valid + run.padded = v
        BY <1>9 DEF v
    <2> QED
        BY <1>10, <2>1, <2>3, <2>4, <2>5 DEF u
<1>17. TypeOK'
    <2>1. DOMAIN out' \subseteq Paths
        <3>1. DOMAIN out \subseteq Paths
            BY DEF IInv, TypeOK, Paths
        <3>2. PayloadFile(key) \in Paths /\ OscaleFile(key) \in Paths
            BY <1>5 DEF Paths
        <3> QED
            BY <1>11, <3>1, <3>2
    <2>2. n <= Len(wman.entries) /\ run'.done = Len(run'.entries)
        BY <1>5, <1>10, <1>12
    <2> QED
        BY <1>1, <1>10, <1>13, <2>1, <2>2 DEF IInv, TypeOK, Busy, Paths
<1>18. Progress'
    <2>1. \A i \in 1 .. n : i \in 1 .. run.done \/ i = n
        BY <1>6
    <2>2. \A i \in 1 .. run'.done : EntryKept(i)'
        BY <1>10, <1>14, <1>15, <2>1
    <2>3. run'.done <= Len(wman'.entries) /\ HeadersAccepted(wman', cman', AllowDebug)
        BY <1>1, <1>5, <1>10
    <2> QED
        BY <1>10, <1>16, <2>2, <2>3 DEF Progress
<1>19. UnboundScalesTraceable'
    <2>1. JsonFile \in DOMAIN out' <=> JsonFile \in DOMAIN out
        BY <1>11, FilesApart
    <2>2. JsonFile \in DOMAIN out => out'[JsonFile] = out[JsonFile]
        BY <1>11, FilesApart
    <2> QED
        BY <2>1, <2>2 DEF IInv, UnboundScalesTraceable, Json
<1> QED
    BY <1>1, <1>10, <1>12, <1>13, <1>16, <1>17, <1>18, <1>19 DEF IInv, RunShape

\* Starting an export: nothing is done yet.
LEMMA StartStep ==
    ASSUME IInv, Start
    PROVE  IInv'
<1>1. /\ ~Busy /\ runs < MaxRuns /\ runs' = runs + 1 /\ UNCHANGED <<files, wman, cman, out, edits>>
      /\ run' = IF HeadersAccepted(wman, cman, AllowDebug)
                THEN [Fresh EXCEPT !.pc = "entries"]
                ELSE [Fresh EXCEPT !.pc = "refused", !.why = "header"]
    BY DEF Start
<1>2. /\ run'.done = 0 /\ run'.page = 0 /\ run'.plan = <<>> /\ run'.entries = <<>>
      /\ run'.valid = 0 /\ run'.padded = 0 /\ run'.pc \in {"entries", "refused"}
      /\ run'.pc = "entries" => HeadersAccepted(wman, cman, AllowDebug)
      /\ run' = [pc |-> run'.pc, why |-> run'.why, done |-> run'.done, page |-> run'.page,
                 plan |-> run'.plan, entries |-> run'.entries, valid |-> run'.valid,
                 padded |-> run'.padded, channelwise |-> run'.channelwise]
    BY <1>1 DEF Fresh
<1>3. RunShape'
    BY <1>2, EmptyList DEF RunShape
<1>4. runs' \in 0 .. MaxRuns /\ edits' \in 0 .. MaxEdits
    BY <1>1, RunTypes DEF IInv, TypeOK
<1>5. run'.pc = "entries" => Len(wman.entries) \in Nat
    BY <1>2, WeightList
<1>6. TypeOK'
    BY <1>1, <1>2, <1>4, <1>5, EmptyList DEF IInv, TypeOK, Busy
<1>7. Progress'
    <2>1. run'.page * Channels = 0
        BY <1>2, ExportAssumption
    <2>2. \A i \in 1 .. run'.done : EntryKept(i)'
        BY <1>2
    <2> QED
        BY <1>1, <1>2, <1>5, <2>1, <2>2 DEF Progress, Live
<1>8. UnboundScalesTraceable'
    BY <1>1 DEF IInv, UnboundScalesTraceable, Json
<1> QED
    BY <1>1, <1>3, <1>6, <1>7, <1>8 DEF IInv

\* An export that stops, for whatever reason, claims nothing any more; what it
\* has published before stays.
LEMMA StopStep ==
    ASSUME IInv, RefuseEntry \/ RefuseChannel \/ Kill \/ KillWriting
    PROVE  IInv'
<1>1. /\ UNCHANGED <<files, wman, cman, edits, runs>> /\ Busy
      /\ \E pc \in {"refused", "killed"} : \E why : run' = [run EXCEPT !.pc = pc, !.why = why]
    <2>1. CASE RefuseEntry \/ RefuseChannel
        BY <2>1 DEF RefuseEntry, RefuseChannel, Refuse, EntriesLeft, Busy
    <2>2. CASE Kill \/ KillWriting
        <3>1. run' = [run EXCEPT !.pc = "killed"]
            BY <2>2 DEF Kill, KillWriting
        <3>2. run' = [run EXCEPT !.pc = "killed", !.why = run.why]
            BY <3>1 DEF IInv, RunShape
        <3> QED
            BY <2>2, <3>2 DEF Kill, KillWriting, EntriesLeft, Busy
    <2> QED
        BY <2>1, <2>2
<1>1a. PICK pc \in {"refused", "killed"} : \E why : run' = [run EXCEPT !.pc = pc, !.why = why]
    BY <1>1
<1>2. PICK why : run' = [run EXCEPT !.pc = pc, !.why = why]
    BY <1>1a
<1>3. /\ run'.pc \in {"refused", "killed"} /\ run'.done = run.done /\ run'.page = run.page
      /\ run'.plan = run.plan /\ run'.entries = run.entries
      /\ run'.valid = run.valid /\ run'.padded = run.padded
      /\ run' = [pc |-> run'.pc, why |-> run'.why, done |-> run'.done, page |-> run'.page,
                 plan |-> run'.plan, entries |-> run'.entries, valid |-> run'.valid,
                 padded |-> run'.padded, channelwise |-> run'.channelwise]
    BY <1>2 DEF IInv, RunShape
<1>4. /\ DOMAIN out' \subseteq Paths /\ (JsonFile \in DOMAIN out' <=> JsonFile \in DOMAIN out)
      /\ JsonFile \in DOMAIN out => out'[JsonFile] = out[JsonFile]
    <2>1. DOMAIN out \subseteq Paths
        BY DEF IInv, TypeOK, Paths
    <2>2. CASE KillWriting
        <3>1. Weight.key \in Keys /\ out' = Write(out, PayloadFile(Weight.key), <<>>)
            BY <2>2, Accepted DEF KillWriting
        <3>2. PayloadFile(Weight.key) \in Paths
            BY <3>1 DEF Paths
        <3>3. PayloadFile(Weight.key) # JsonFile
            BY FilesApart
        <3>4. /\ DOMAIN out' = DOMAIN out \cup {PayloadFile(Weight.key)}
              /\ JsonFile \in DOMAIN out => out'[JsonFile] = out[JsonFile]
            BY <3>1, <3>3 DEF Write
        <3> QED
            BY <2>1, <3>2, <3>3, <3>4
    <2>3. CASE RefuseEntry \/ RefuseChannel \/ Kill
        <3>1. out' = out
            BY <2>3 DEF RefuseEntry, RefuseChannel, Refuse, Kill
        <3> QED
            BY <2>1, <3>1
    <2> QED
        BY <2>2, <2>3
<1>5. TypeOK'
    <2>1. run'.done = Len(run'.entries) /\ run'.page = Len(run'.plan)
        BY <1>3, RunTypes
    <2>2. edits' \in 0 .. MaxEdits /\ runs' \in 0 .. MaxRuns
        BY <1>1 DEF IInv, TypeOK
    <2> QED
        BY <1>3, <1>4, <2>1, <2>2 DEF TypeOK, Busy, Paths
<1>6. RunShape'
    BY <1>3 DEF IInv, RunShape
<1>7. Progress'
    BY <1>3 DEF Progress, Live
<1>8. UnboundScalesTraceable'
    BY <1>4 DEF IInv, UnboundScalesTraceable, Json
<1> QED
    BY <1>1, <1>5, <1>6, <1>7, <1>8 DEF IInv

\* An export that has not begun has the shape of one that has.
LEMMA FreshShape ==
    /\ Fresh = [pc |-> Fresh.pc, why |-> Fresh.why, done |-> Fresh.done, page |-> Fresh.page,
                plan |-> Fresh.plan, entries |-> Fresh.entries, valid |-> Fresh.valid,
                padded |-> Fresh.padded, channelwise |-> Fresh.channelwise]
    /\ IsList(Fresh.plan) /\ IsList(Fresh.entries) /\ Fresh.valid \in Int /\ Fresh.padded \in Int
<1>1. Fresh.plan = <<>> /\ Fresh.entries = <<>> /\ Fresh.valid = 0 /\ Fresh.padded = 0
    BY DEF Fresh
<1>2. Fresh = [pc |-> Fresh.pc, why |-> Fresh.why, done |-> Fresh.done, page |-> Fresh.page,
               plan |-> Fresh.plan, entries |-> Fresh.entries, valid |-> Fresh.valid,
               padded |-> Fresh.padded, channelwise |-> Fresh.channelwise]
    BY DEF Fresh
<1> QED
    BY <1>1, <1>2, EmptyList

\* Between exports anything may change: the next export starts from nothing.
LEMMA EditStep ==
    ASSUME IInv, Recalibrate \/ Edit
    PROVE  IInv'
<1>1. /\ edits < MaxEdits /\ edits' = edits + 1 /\ run' = Fresh /\ UNCHANGED <<out, runs>>
      /\ cman' \in Calibrations
    BY DEF IInv, Recalibrate, Edit
<1>2. edits' \in 0 .. MaxEdits
    BY <1>1, RunTypes DEF IInv, TypeOK
<1>3. TypeOK'
    <2>1. /\ run'.pc = "idle" /\ run'.done = 0 /\ run'.page = 0
          /\ run'.plan = <<>> /\ run'.entries = <<>>
        BY <1>1 DEF Fresh
    <2>2. run'.done = Len(run'.entries) /\ run'.page = Len(run'.plan)
        BY <2>1, EmptyList
    <2>3. DOMAIN out' \subseteq Paths /\ runs' \in 0 .. MaxRuns
        BY <1>1 DEF IInv, TypeOK, Paths
    <2> QED
        BY <1>2, <2>1, <2>2, <2>3 DEF TypeOK, Busy, Paths
<1>4. RunShape'
    <2>1. run' = Fresh
        BY <1>1
    <2> QED
        BY <2>1, FreshShape DEF RunShape
<1>5. Progress'
    BY <1>1 DEF Progress, Live, Fresh
<1>6. UnboundScalesTraceable'
    BY <1>1 DEF IInv, UnboundScalesTraceable, Json
<1> QED
    BY <1>1, <1>3, <1>4, <1>5, <1>6 DEF IInv

\* The plan, quant.json and the summary are written beside the entries' files:
\* what is kept of the entries stays.
LEMMA SummaryWrite ==
    ASSUME IInv, Live, NEW path \in {PlanFile, JsonFile, MarkdownFile}, NEW content,
           NEW pc \in {"json", "markdown", "done"},
           out' = Write(out, path, content), run' = [run EXCEPT !.pc = pc],
           UNCHANGED <<files, wman, cman, edits, runs>>
    PROVE  /\ TypeOK' /\ cman' \in Calibrations /\ RunShape'
           /\ run'.pc = pc /\ run'.done = run.done /\ run'.page = run.page
           /\ run'.plan = run.plan /\ run'.entries = run.entries
           /\ run'.valid = run.valid /\ run'.padded = run.padded
           /\ run'.channelwise = run.channelwise
           /\ DOMAIN out' = DOMAIN out \cup {path} /\ out'[path] = content
           /\ \A f \in DOMAIN out \ {path} : out'[f] = out[f]
           /\ \A i \in 1 .. run'.done : EntryKept(i)'
           /\ run'.valid + run'.padded = run'.page * Channels
           /\ HeadersAccepted(wman', cman', AllowDebug) /\ run'.done <= Len(wman'.entries)
<1>1. /\ run'.pc = pc /\ run'.done = run.done /\ run'.page = run.page
      /\ run'.plan = run.plan /\ run'.entries = run.entries
      /\ run'.valid = run.valid /\ run'.padded = run.padded
      /\ run'.channelwise = run.channelwise
      /\ run' = [pc |-> run'.pc, why |-> run'.why, done |-> run'.done, page |-> run'.page,
                 plan |-> run'.plan, entries |-> run'.entries, valid |-> run'.valid,
                 padded |-> run'.padded, channelwise |-> run'.channelwise]
    BY DEF IInv, RunShape
<1>2. /\ DOMAIN out' = DOMAIN out \cup {path} /\ out'[path] = content
      /\ \A f \in DOMAIN out \ {path} : out'[f] = out[f]
    BY DEF Write
<1>3. /\ HeadersAccepted(wman, cman, AllowDebug) /\ run.done <= Len(wman.entries)
      /\ \A i \in 1 .. run.done : EntryKept(i)
      /\ run.valid + run.padded = run.page * Channels
    BY DEF IInv, Progress
<1>4. TypeOK'
    <2>1. DOMAIN out' \subseteq Paths
        BY <1>2 DEF IInv, TypeOK, Paths
    <2>2. run'.done = Len(run'.entries) /\ run'.page = Len(run'.plan)
        BY <1>1, RunTypes
    <2>3. edits' \in 0 .. MaxEdits /\ runs' \in 0 .. MaxRuns
        BY DEF IInv, TypeOK
    <2> QED
        BY <1>1, <1>3, <2>1, <2>2, <2>3 DEF TypeOK, Busy, Paths
<1>5. RunShape'
    BY <1>1 DEF IInv, RunShape
<1>6. ASSUME NEW i \in 1 .. run.done PROVE EntryKept(i)'
    <2> DEFINE d == run.entries[i]
    <2>1. /\ d.key = wman.entries[i].key
          /\ PayloadFile(d.key) \in DOMAIN out /\ out[PayloadFile(d.key)] = d.sha
          /\ d.oscaleSha # <<>> =>
                OscaleFile(d.key) \in DOMAIN out /\ out[OscaleFile(d.key)] = d.oscaleSha[1]
          /\ d.firstPage + d.pageCount =
                (IF i = Len(run.entries) THEN run.page ELSE run.entries[i + 1].firstPage)
          /\ wman = HonestWeights => Counted(d)
        BY <1>3 DEF EntryKept
    <2>2. PayloadFile(d.key) # path /\ OscaleFile(d.key) # path
        BY FilesApart
    <2>3. run'.entries[i] = d
        BY <1>1
    <2> HIDE DEF d
    <2>4. /\ PayloadFile(d.key) \in DOMAIN out' /\ out'[PayloadFile(d.key)] = d.sha
          /\ d.oscaleSha # <<>> =>
                OscaleFile(d.key) \in DOMAIN out' /\ out'[OscaleFile(d.key)] = d.oscaleSha[1]
        BY <1>2, <2>1, <2>2
    <2>5. d.firstPage + d.pageCount =
            (IF i = Len(run'.entries) THEN run'.page ELSE run'.entries[i + 1].firstPage)
        BY <1>1, <2>1
    <2>6. wman' = wman
        OBVIOUS
    <2>7. d.key = wman'.entries[i].key /\ (wman' = HonestWeights => Counted(d))
        BY <2>1, <2>6
    <2> QED
        BY <2>3, <2>4, <2>5, <2>7, KeptNext
<1>7. cman' \in Calibrations
    BY DEF IInv
<1> QED
    BY <1>1, <1>2, <1>3, <1>4, <1>5, <1>6, <1>7

\* The plan is written when every entry of the weight manifest is done.
LEMMA PlanStep ==
    ASSUME IInv, WritePlan
    PROVE  IInv'
<1>1. /\ run.done = Len(wman.entries) /\ Live /\ UNCHANGED <<files, wman, cman, edits, runs>>
      /\ out' = Write(out, PlanFile, run.plan) /\ run' = [run EXCEPT !.pc = "json"]
    BY DEF WritePlan, Live
<1>2. /\ TypeOK' /\ cman' \in Calibrations /\ RunShape'
      /\ run'.pc = "json" /\ run'.done = run.done /\ run'.plan = run.plan
      /\ DOMAIN out' = DOMAIN out \cup {PlanFile} /\ out'[PlanFile] = run.plan
      /\ \A f \in DOMAIN out \ {PlanFile} : out'[f] = out[f]
      /\ \A i \in 1 .. run'.done : EntryKept(i)'
      /\ run'.valid + run'.padded = run'.page * Channels
      /\ HeadersAccepted(wman', cman', AllowDebug) /\ run'.done <= Len(wman'.entries)
    BY <1>1, SummaryWrite
<1>3. Progress'
    BY <1>1, <1>2 DEF Progress
<1>4. UnboundScalesTraceable'
    <2>1. /\ JsonFile \in DOMAIN out' <=> JsonFile \in DOMAIN out
          /\ JsonFile \in DOMAIN out => out'[JsonFile] = out[JsonFile]
        BY <1>2, FilesApart
    <2> QED
        BY <2>1 DEF IInv, UnboundScalesTraceable, Json
<1> QED
    BY <1>2, <1>3, <1>4 DEF IInv

\* quant.json names the plan as it is on disk and the entries as they are kept.
LEMMA ManifestStep ==
    ASSUME IInv, WriteManifest
    PROVE  IInv'
<1>1. /\ Live /\ run.pc = "json" /\ UNCHANGED <<files, wman, cman, edits, runs>>
      /\ out' = Write(out, JsonFile, Manifest) /\ run' = [run EXCEPT !.pc = "markdown"]
    BY DEF WriteManifest, Live
<1>2. /\ TypeOK' /\ cman' \in Calibrations /\ RunShape'
      /\ run'.pc = "markdown" /\ run'.done = run.done /\ run'.page = run.page
      /\ run'.plan = run.plan /\ run'.entries = run.entries
      /\ run'.valid = run.valid /\ run'.padded = run.padded
      /\ run'.channelwise = run.channelwise
      /\ DOMAIN out' = DOMAIN out \cup {JsonFile} /\ out'[JsonFile] = Manifest
      /\ \A f \in DOMAIN out \ {JsonFile} : out'[f] = out[f]
      /\ \A i \in 1 .. run'.done : EntryKept(i)'
      /\ run'.valid + run'.padded = run'.page * Channels
      /\ HeadersAccepted(wman', cman', AllowDebug) /\ run'.done <= Len(wman'.entries)
    BY <1>1, SummaryWrite
<1>3. /\ run.done = Len(wman.entries)
      /\ PlanFile \in DOMAIN out /\ out[PlanFile] = run.plan
      /\ \A i \in 1 .. run.done : EntryKept(i)
    BY <1>1 DEF IInv, Progress
<1>4. PlanFile \in DOMAIN out' /\ out'[PlanFile] = out[PlanFile]
    BY <1>2, <1>3, FilesApart
<1>5. Manifest' = Manifest
    BY <1>1, <1>2, <1>4 DEF Manifest
<1>6. Progress'
    BY <1>1, <1>2, <1>3, <1>4, <1>5 DEF Progress
<1>7. UnboundScalesTraceable'
    <2>1. SUFFICES ASSUME wman = HonestWeights
                   PROVE  \A i \in DOMAIN run.entries : Counted(run.entries[i])
        <3>1. out'[JsonFile].sources.weights = wman /\ out'[JsonFile].entries = run.entries
            BY <1>2 DEF Manifest
        <3> QED
            BY <2>1, <3>1 DEF UnboundScalesTraceable, Json, Counted, Varies
    <2> QED
        BY <1>3, <2>1, RunTypes DEF EntryKept
<1> QED
    BY <1>2, <1>6, <1>7 DEF IInv

\* The summary is the last file of an export.
LEMMA MarkdownStep ==
    ASSUME IInv, WriteMarkdown
    PROVE  IInv'
<1> DEFINE summary == [status |-> cman.status, pages |-> run.page]
<1>1. /\ Live /\ run.pc = "markdown" /\ UNCHANGED <<files, wman, cman, edits, runs>>
      /\ out' = Write(out, MarkdownFile, summary) /\ run' = [run EXCEPT !.pc = "done"]
    BY DEF WriteMarkdown, Live
<1> HIDE DEF summary
<1>2. /\ TypeOK' /\ cman' \in Calibrations /\ RunShape'
      /\ run'.pc = "done" /\ run'.done = run.done /\ run'.page = run.page
      /\ run'.plan = run.plan /\ run'.entries = run.entries
      /\ run'.valid = run.valid /\ run'.padded = run.padded
      /\ run'.channelwise = run.channelwise
      /\ DOMAIN out' = DOMAIN out \cup {MarkdownFile}
      /\ \A f \in DOMAIN out \ {MarkdownFile} : out'[f] = out[f]
      /\ \A i \in 1 .. run'.done : EntryKept(i)'
      /\ run'.valid + run'.padded = run'.page * Channels
      /\ HeadersAccepted(wman', cman', AllowDebug) /\ run'.done <= Len(wman'.entries)
    BY <1>1, SummaryWrite
<1>3. /\ run.done = Len(wman.entries)
      /\ PlanFile \in DOMAIN out /\ out[PlanFile] = run.plan
      /\ JsonFile \in DOMAIN out /\ out[JsonFile] = Manifest
    BY <1>1 DEF IInv, Progress
<1>4. /\ PlanFile \in DOMAIN out' /\ out'[PlanFile] = out[PlanFile]
      /\ JsonFile \in DOMAIN out' /\ out'[JsonFile] = out[JsonFile]
    BY <1>2, <1>3, FilesApart
<1>5. Manifest' = Manifest
    BY <1>1, <1>2, <1>4 DEF Manifest
<1>6. Progress'
    BY <1>1, <1>2, <1>3, <1>4, <1>5 DEF Progress
<1>7. UnboundScalesTraceable'
    <2>1. JsonFile \in DOMAIN out
        BY <1>3
    <2> QED
        BY <1>4, <2>1 DEF IInv, UnboundScalesTraceable, Json
<1> QED
    BY <1>2, <1>6, <1>7 DEF IInv

\* Before the first export the directory is empty.
LEMMA Initially ==
    ASSUME Init
    PROVE  IInv
<1>1. /\ cman \in Calibrations /\ run = Fresh /\ edits = 0 /\ runs = 0 /\ DOMAIN out = {}
    BY DEF Init
<1>2. /\ run.pc = "idle" /\ run.done = 0 /\ run.page = 0 /\ run.plan = <<>> /\ run.entries = <<>>
    BY <1>1 DEF Fresh
<1>3. TypeOK
    <2>1. run.done = Len(run.entries) /\ run.page = Len(run.plan)
        BY <1>2, EmptyList
    <2>2. edits \in 0 .. MaxEdits /\ runs \in 0 .. MaxRuns
        BY <1>1, ExportAssumption
    <2> QED
        BY <1>1, <1>2, <2>1, <2>2 DEF TypeOK, Busy
<1>4. RunShape
    BY <1>1, FreshShape DEF RunShape
<1>5. Progress /\ UnboundScalesTraceable
    BY <1>1, <1>2 DEF Progress, Live, UnboundScalesTraceable
<1> QED
    BY <1>1, <1>3, <1>4, <1>5 DEF IInv

\* A step that changes nothing keeps what holds.
LEMMA StutterStep ==
    ASSUME IInv, UNCHANGED vars
    PROVE  IInv'
<1>1. TypeOK' /\ RunShape' /\ cman' \in Calibrations
    BY DEF IInv, vars, TypeOK, RunShape, Busy
<1>2. UnboundScalesTraceable'
    BY DEF IInv, vars, UnboundScalesTraceable, Json
<1>3. Progress'
    BY DEF IInv, vars, Progress, Live, EntryKept, Counted, Varies, Manifest
<1> QED
    BY <1>1, <1>2, <1>3 DEF IInv

(***************************************************************************)
(* What the exported entries serve.                                        *)
(***************************************************************************)
\* The divisor of a requantisation: the output scales an entry is published with.
OutsOf(e) ==
    IF e.scalar # <<>> THEN [x \in 1 .. e.channels |-> e.scalar[1]] ELSE e.oscaleSha[1]

\* The record of a channel is the channel's, and could be encoded.
ChannelKept(e, cal, fs, c) ==
    LET n == e.act * e.scaleSha[c]
        d == UNIT * OutsOf(e)[c]
        q == Encode(n, d)
        b == BiasAcc(cal, e.scaleSha, BiasValues(cal, fs, e.channels))[c]
    IN  /\ n \in Nat \ {0} /\ d \in Nat \ {0} /\ Encodable(n, d)
        /\ b \in BIAS_MIN .. BIAS_MAX /\ cal.outZp \in Int8Range
        /\ e.sha[c] = Pack(b, q.mult, q.shift, cal.outZp, TRUE)

LinesFor(e) == Range(PageLines(e.key, e.channels, e.firstPage))

\* An entry that was exported serves its channels: the rest of its last page is blank.
EntryServed(e, cal, fs) ==
    /\ e.channels \in Nat /\ e.firstPage \in Nat /\ e.pageCount = PageCount(e.channels)
    /\ \A c \in 1 .. e.channels : ChannelKept(e, cal, fs, c)
    /\ \A r \in e.channels + 1 .. e.pageCount * Channels : e.sha[r] = Pack(0, 0, 0, 0, FALSE)

Served ==
    /\ Live =>
        /\ \A i \in 1 .. run.done :
             LET e == run.entries[i] IN EntryServed(e, EntryFor(cman.entries, e.key), files)
        /\ Range(run.plan) = UNION {LinesFor(run.entries[i]) : i \in 1 .. run.done}
    /\ run.why = "encode" =>
        /\ run.pc = "refused" /\ run.done < Len(wman.entries)
        /\ EntryAccepted(Weight, cman, Cal, files) /\ ~Encoded

\* The pages of an entry hold its channels, and the last one holds some.
LEMMA PagesHold ==
    ASSUME NEW channels \in Nat
    PROVE  /\ PageCount(channels) \in Nat /\ channels <= PageCount(channels) * Channels
           /\ \A p \in 1 .. PageCount(channels) : (p - 1) * Channels < channels
<1> DEFINE P == PageCount(channels)
           x == channels + Channels - 1
           u == P * Channels
<1>1. x \in Nat /\ Channels \in Nat \ {0}
    BY ExportAssumption
<1>2. P = x \div Channels
    BY DEF PageCount
<1>3. P \in Nat /\ x % Channels \in 0 .. Channels - 1 /\ x = (P * Channels) + (x % Channels)
    <2> HIDE DEF x, P
    <2> QED
        BY <1>1, <1>2, DivMod
<1> DEFINE r == x % Channels
<1> HIDE DEF r, P
<1>4. u \in Int /\ x = u + r
    BY <1>1, <1>3 DEF r
<1> HIDE DEF u
<1>5. channels <= u /\ u <= channels + Channels - 1
    BY <1>1, <1>3, <1>4 DEF r
<1>6. ASSUME NEW p \in 1 .. P PROVE (p - 1) * Channels < channels
    <2>1. p * Channels <= P * Channels /\ p \in Int
        BY <1>1, <1>3, TimesMonotone
    <2>2. ((p - 1) + 1) * Channels = ((p - 1) * Channels) + (1 * Channels) /\ (p - 1) + 1 = p
        BY <1>1, <2>1, Distribute
    <2> DEFINE v == (p - 1) * Channels
               w == p * Channels
    <2>3. v \in Int /\ w = v + Channels /\ w <= u
        BY <1>1, <2>1, <2>2 DEF u
    <2> HIDE DEF v, w
    <2>4. v < channels
        BY <1>1, <1>4, <1>5, <2>3
    <2> QED
        BY <2>4 DEF v
<1> QED
    BY <1>3, <1>5, <1>6 DEF u, P

\* The accumulator and the fields hold what nothing is: an invalid record.
LEMMA BlankPackable == Packable(0, 0, 0, 0)
<1>1. 2^(BiasBits - 1) \in Nat \ {0} /\ 2^(ZpBits - 1) \in Nat \ {0}
    BY RecordAssumption, Halves
<1> DEFINE h == 2^(BiasBits - 1)
           z == 2^(ZpBits - 1)
<1> HIDE DEF h, z
<1>2. 0 \in -h .. h - 1 /\ 0 \in -z .. z - 1
    <2>1. h \in Nat \ {0} /\ z \in Nat \ {0}
        BY <1>1 DEF h, z
    <2> QED
        BY <2>1
<1>3. 0 \in 0 .. MULTIPLIER_MAX /\ 0 \in 0 .. SHIFT_MAX
    BY FieldLimits
<1> QED
    BY <1>2, <1>3 DEF Packable, BIAS_MIN, BIAS_MAX, ZpRange, h, z

\* A zero point of eight bits fits its field of nine.
LEMMA ZeroPointFits == Int8Range \subseteq ZpRange
<1> DEFINE w == ZpBits - 1
           h == 2^(w - 1)
           z == 2^w
<1>1. w \in Nat \ {0} /\ w - 1 = ZpBits - 2
    BY RecordAssumption
<1>2. h \in Nat \ {0} /\ z = 2 * h
    <2> HIDE DEF w
    <2> QED
        BY <1>1, Halves
<1>3. Int8Range = -h .. h - 1 /\ ZpRange = -z .. z - 1
    BY <1>1 DEF Int8Range, ZpRange
<1> HIDE DEF h, z
<1> QED
    BY <1>2, <1>3

\* What a kept channel's record reads back as.
LEMMA KeptReadsBack ==
    ASSUME NEW e, NEW cal, NEW fs, NEW c, ChannelKept(e, cal, fs, c)
    PROVE  LET q == Encode(e.act * e.scaleSha[c], UNIT * OutsOf(e)[c])
           IN  EntryBits(e.sha[c]) =
                 [bias |-> BiasAcc(cal, e.scaleSha, BiasValues(cal, fs, e.channels))[c],
                  mult |-> q.mult, shift |-> q.shift, zp |-> cal.outZp, valid |-> TRUE]
<1> DEFINE n == e.act * e.scaleSha[c]
           d == UNIT * OutsOf(e)[c]
           q == Encode(n, d)
           b == BiasAcc(cal, e.scaleSha, BiasValues(cal, fs, e.channels))[c]
           z == cal.outZp
<1>1. /\ n \in Nat \ {0} /\ d \in Nat \ {0} /\ Encodable(n, d)
      /\ b \in BIAS_MIN .. BIAS_MAX /\ z \in Int8Range
      /\ e.sha[c] = Pack(b, q.mult, q.shift, z, TRUE)
    BY DEF ChannelKept
<1> HIDE DEF n, d, b, z
<1>2. InHardwareRange(n, d)
    BY <1>1 DEF Encodable
<1>3. q.mult \in 1 .. MULTIPLIER_MAX /\ q.shift \in 0 .. SHIFT_MAX
    BY <1>1, <1>2, EncodeIs
<1> HIDE DEF q
<1>4. q.mult \in 0 .. MULTIPLIER_MAX
    BY <1>3, FieldLimits
<1>5. Packable(b, q.mult, q.shift, z)
    BY <1>1, <1>3, <1>4, ZeroPointFits DEF Packable
<1>6. EntryBits(e.sha[c]) = [bias |-> b, mult |-> q.mult, shift |-> q.shift, zp |-> z, valid |-> TRUE]
    BY <1>1, <1>5, PackedBack
<1> QED
    BY <1>6 DEF n, d, q, b, z

\* An entry just exported serves its channels.
LEMMA ExportIsServed ==
    ASSUME IInv, EntriesLeft, EntryAccepted(Weight, cman, Cal, files), Encoded
    PROVE  EntryServed(EntryRecord(Weight, Cal, Scales, Outs, PageRecords(Cal, Eff, Bias)), Cal, files)
<1> DEFINE channels == Weight.channels
           payload == PageRecords(Cal, Eff, Bias)
           e == EntryRecord(Weight, Cal, Scales, Outs, payload)
           size == PageCount(channels) * Channels
<1>1. /\ e.channels = channels /\ e.act = Cal.act /\ e.scaleSha = Scales /\ e.sha = payload
      /\ e.firstPage = run.page /\ e.pageCount = PageCount(channels)
      /\ e.scalar = IF ModeSupplied(Cal) = PerChannel THEN <<>> ELSE <<Outs[1]>>
      /\ e.oscaleSha = IF ModeSupplied(Cal) = PerChannel THEN <<Outs>> ELSE <<>>
    BY DEF EntryRecord
<1>2. /\ AllPositive(Scales) /\ Len(Scales) = channels /\ channels \in Nat
      /\ AllPositive(Outs) /\ Len(Outs) = channels
    BY Accepted
<1>3. DOMAIN Scales = 1 .. channels /\ \A c \in 1 .. channels : Scales[c] \in Nat \ {0} /\ Outs[c] \in Nat \ {0}
    <2>1. Scales \in Seq(Nat \ {0}) /\ Outs \in Seq(Nat \ {0})
        BY <1>2 DEF AllPositive
    <2> QED
        BY <1>2, <2>1
<1>4. run.page \in Nat /\ size \in Int
    <2>1. PageCount(channels) \in Nat /\ Channels \in Nat
        BY <1>2, PagesHold, ExportAssumption
    <2> QED
        BY <2>1, RunTypes
<1>5. channels <= size
    BY <1>2, PagesHold
<1>6. /\ Len(Eff) = channels
      /\ \A c \in 1 .. channels : Eff[c].n = Cal.act * Scales[c] /\ Eff[c].d = UNIT * Outs[c]
    <2>1. Eff = [c \in 1 .. channels |-> [n |-> Cal.act * Scales[c], d |-> UNIT * Outs[c]]]
        BY <1>3 DEF Eff, EffectiveScales
    <2> DEFINE S == {[n |-> Cal.act * Scales[c], d |-> UNIT * Outs[c]] : c \in 1 .. channels}
    <2>2. Eff \in [1 .. channels -> S]
        BY <2>1
    <2> HIDE DEF S
    <2>3. Eff \in Seq(S) /\ DOMAIN Eff = 1 .. channels
        BY <1>2, <2>2, SeqDef
    <2>4. Len(Eff) = channels
        BY <1>2, <2>3
    <2> QED
        BY <2>1, <2>4
<1>7. \A c \in 1 .. channels : Encodable(Eff[c].n, Eff[c].d) /\ Bias[c] \in BIAS_MIN .. BIAS_MAX
    BY DEF Encoded
<1>8. Cal.act \in Nat \ {0} /\ Cal.outZp \in Int8Range
    BY DEF EntryAccepted, ActivationAccepted
<1>9. payload = [r \in 1 .. size |->
                   IF r <= channels
                   THEN LET q == Encode(Eff[r].n, Eff[r].d)
                        IN  Pack(Bias[r], q.mult, q.shift, Cal.outZp, TRUE)
                   ELSE Pack(0, 0, 0, 0, FALSE)]
    BY <1>6 DEF PageRecords
<1>10. ASSUME NEW c \in 1 .. channels
       PROVE  OutsOf(e)[c] = Outs[c]
    <2>1. CASE ModeSupplied(Cal) = PerChannel
        <3>1. e.scalar = <<>> /\ e.oscaleSha = <<Outs>>
            BY <1>1, <2>1
        <3> HIDE DEF e
        <3> QED
            BY <3>1 DEF OutsOf
    <2>2. CASE ModeSupplied(Cal) # PerChannel
        <3>1. ModeSupplied(Cal) = PerTensor
            BY <2>2 DEF ModeSupplied
        <3>2. Outs = [x \in 1 .. channels |-> Cal.output.values[1]]
            <4>1. Cal.output.kind # "array"
                BY <3>1 DEF ModeSupplied, PerTensor, PerChannel
            <4> QED
                BY <3>1, <4>1 DEF Outs, OutputValues, channels
        <3>3. 1 \in 1 .. channels
            BY <1>2
        <3>4. Outs[1] = Outs[c]
            BY <3>2, <3>3
        <3>5. e.scalar = <<Outs[1]>> /\ <<Outs[1]>> # <<>> /\ e.channels = channels
            BY <1>1, <2>2
        <3> HIDE DEF e
        <3>6. OutsOf(e) = [x \in 1 .. channels |-> Outs[1]]
            BY <3>5 DEF OutsOf
        <3> QED
            BY <3>4, <3>6
    <2> QED
        BY <2>1, <2>2
<1> HIDE DEF e, payload, channels, size
<1>11. Bias = BiasAcc(Cal, e.scaleSha, BiasValues(Cal, files, e.channels))
    BY <1>1 DEF Bias, channels
<1>12. ASSUME NEW c \in 1 .. channels PROVE ChannelKept(e, Cal, files, c)
    <2> DEFINE n == e.act * e.scaleSha[c]
               d == UNIT * OutsOf(e)[c]
    <2>1. n = Eff[c].n /\ d = Eff[c].d
        BY <1>1, <1>6, <1>10
    <2>2. n \in Nat \ {0}
        <3>1. e.act \in Nat \ {0} /\ e.scaleSha[c] \in Nat \ {0}
            BY <1>1, <1>3, <1>8
        <3> QED
            BY <3>1
    <2>3. d \in Nat \ {0}
        <3>1. UNIT \in Nat \ {0} /\ OutsOf(e)[c] \in Nat \ {0}
            BY <1>3, <1>10, InputAssumption
        <3> QED
            BY <3>1
    <2>4. Encodable(n, d) /\ Bias[c] \in BIAS_MIN .. BIAS_MAX
        BY <1>7, <2>1
    <2>5. c \in 1 .. size /\ c <= channels
        BY <1>2, <1>4, <1>5
    <2>6. payload[c] = Pack(Bias[c], Encode(n, d).mult, Encode(n, d).shift, Cal.outZp, TRUE)
        BY <1>9, <2>1, <2>5
    <2> HIDE DEF n, d
    <2>7. e.sha[c] = Pack(Bias[c], Encode(n, d).mult, Encode(n, d).shift, Cal.outZp, TRUE)
        BY <1>1, <2>6
    <2> QED
        BY <1>8, <1>11, <2>2, <2>3, <2>4, <2>7 DEF ChannelKept, n, d
<1>13. ASSUME NEW r \in channels + 1 .. size PROVE e.sha[r] = Pack(0, 0, 0, 0, FALSE)
    <2>1. r \in 1 .. size /\ ~(r <= channels)
        BY <1>2, <1>4
    <2> QED
        BY <1>1, <1>9, <2>1
<1>14. e.pageCount * Channels = size
    BY <1>1 DEF size
<1> QED
    BY <1>1, <1>2, <1>4, <1>12, <1>13, <1>14 DEF EntryServed, e, payload, channels

\* What is in a list of two lists is in one of them.
LEMMA RangeConcat ==
    ASSUME NEW s, IsList(s), NEW t, IsList(t)
    PROVE  Range(s \o t) = Range(s) \cup Range(t)
<1> DEFINE R == {s[i] : i \in DOMAIN s}
           T == {t[i] : i \in DOMAIN t}
           c == s \o t
<1>1. s \in Seq(R) /\ t \in Seq(T)
    BY DEF IsList
<1>2. Range(s) = R /\ Range(t) = T
    BY DEF Range
<1> HIDE DEF R, T
<1>3. s \in Seq(R \cup T) /\ t \in Seq(R \cup T)
    BY <1>1
<1>4. /\ c \in Seq(R \cup T) /\ Len(c) = Len(s) + Len(t) /\ Len(s) \in Nat /\ Len(t) \in Nat
      /\ \A i \in 1 .. Len(s) : c[i] = s[i]
      /\ \A i \in 1 .. Len(t) : c[Len(s) + i] = t[i]
    BY <1>3
<1>5. DOMAIN c = 1 .. Len(s) + Len(t) /\ DOMAIN s = 1 .. Len(s) /\ DOMAIN t = 1 .. Len(t)
    BY <1>3, <1>4
<1> HIDE DEF c
<1>6. ASSUME NEW x \in R PROVE x \in Range(c)
    <2>1. PICK i \in 1 .. Len(s) : s[i] = x
        BY <1>5 DEF R
    <2>2. i \in DOMAIN c /\ c[i] = x
        BY <1>4, <1>5, <2>1
    <2> QED
        BY <2>2 DEF Range
<1>7. ASSUME NEW x \in T PROVE x \in Range(c)
    <2>1. PICK i \in 1 .. Len(t) : t[i] = x
        BY <1>5 DEF T
    <2>2. Len(s) + i \in DOMAIN c /\ c[Len(s) + i] = x
        BY <1>4, <1>5, <2>1
    <2> QED
        BY <2>2 DEF Range
<1>8. \A x \in Range(c) : x \in R \cup T
    BY <1>4, <1>5 DEF Range
<1> QED
    BY <1>2, <1>6, <1>7, <1>8 DEF c

\* The entries an export has done go on serving while their inputs stay.
LEMMA ServedStays ==
    ASSUME IInv, Served, Live, UNCHANGED <<files, wman, cman>>,
           run'.done = run.done, run'.plan = run.plan, run'.entries = run.entries,
           run'.why # "encode"
    PROVE  Served'
<1>1. \A i \in 1 .. run.done : EntryServed(run.entries[i], EntryFor(cman.entries, run.entries[i].key), files)
    BY DEF Served
<1>2. Range(run.plan) = UNION {LinesFor(run.entries[i]) : i \in 1 .. run.done}
    BY DEF Served
<1> QED
    BY <1>1, <1>2 DEF Served

LEMMA NotRefused ==
    ASSUME Served, Busy \/ Live
    PROVE  run.why # "encode"
    BY DEF Served, Busy, Live

LEMMA ServedExport ==
    ASSUME IInv, Served, ExportEntry
    PROVE  Served'
<1> DEFINE key == Weight.key
           channels == Weight.channels
           payload == PageRecords(Cal, Eff, Bias)
           e == EntryRecord(Weight, Cal, Scales, Outs, payload)
           lines == PageLines(key, channels, run.page)
           n == run.done + 1
<1>1. /\ EntriesLeft /\ EntryAccepted(Weight, cman, Cal, files) /\ Encoded
      /\ UNCHANGED <<files, wman, cman>>
    BY DEF ExportEntry
<1>2. Live /\ Busy
    BY <1>1 DEF EntriesLeft, Live, Busy
<1>3. /\ run'.done = n /\ run'.plan = run.plan \o lines
      /\ run'.entries = Append(run.entries, e) /\ run'.why = run.why /\ run'.pc = run.pc
    BY DEF ExportEntry, IInv, RunShape
<1>4. EntryServed(e, Cal, files)
    BY <1>1, ExportIsServed
<1>5. Cal = EntryFor(cman.entries, key)
    BY DEF Cal
<1>6. e.key = key /\ e.channels = channels /\ e.firstPage = run.page
    BY DEF EntryRecord
<1>7. LinesFor(e) = Range(lines)
    BY <1>6 DEF LinesFor
<1> HIDE DEF e, lines, key
<1>8. /\ run.done \in Nat /\ Len(run.entries) = run.done
      /\ IsList(run.entries) /\ IsList(run.plan)
    BY RunTypes DEF IInv, RunShape
<1>9. IsList(lines)
    BY <1>1, Accepted, LinesOfEntry DEF lines
<1>10. run'.entries[n] = e /\ \A i \in 1 .. run.done : run'.entries[i] = run.entries[i]
    BY <1>3, <1>8, ListAppend
<1>11. /\ \A i \in 1 .. run.done : EntryServed(run.entries[i], EntryFor(cman.entries, run.entries[i].key), files)
       /\ Range(run.plan) = UNION {LinesFor(run.entries[i]) : i \in 1 .. run.done}
    BY <1>2 DEF Served
<1>12. \A i : i \in 1 .. n <=> i \in 1 .. run.done \/ i = n
    BY <1>8
<1>13. \A i \in 1 .. n : EntryServed(run'.entries[i], EntryFor(cman.entries, run'.entries[i].key), files)
    BY <1>4, <1>5, <1>6, <1>10, <1>11, <1>12
<1>14. Range(run'.plan) = UNION {LinesFor(run'.entries[i]) : i \in 1 .. n}
    <2>1. Range(run'.plan) = Range(run.plan) \cup LinesFor(e)
        BY <1>3, <1>7, <1>8, <1>9, RangeConcat
    <2>2. UNION {LinesFor(run'.entries[i]) : i \in 1 .. n}
            = (UNION {LinesFor(run'.entries[i]) : i \in 1 .. run.done}) \cup LinesFor(run'.entries[n])
        <3> HIDE DEF n
        <3> QED
            BY <1>12
    <2>3. {LinesFor(run'.entries[i]) : i \in 1 .. run.done} = {LinesFor(run.entries[i]) : i \in 1 .. run.done}
        BY <1>10
    <2> QED
        BY <1>10, <1>11, <2>1, <2>2, <2>3
<1>15. run'.why # "encode"
    BY <1>2, <1>3, NotRefused
<1> HIDE DEF n
<1> QED
    BY <1>1, <1>3, <1>13, <1>14, <1>15 DEF Served

LEMMA ServedStart ==
    ASSUME IInv, Served, Start
    PROVE  Served'
<1>1. /\ run'.why \in {"", "header"} /\ run'.done = 0 /\ run'.plan = <<>>
    BY DEF Start, Fresh
<1>2. Range(run'.plan) = {}
    <2>1. DOMAIN run'.plan = 1 .. 0
        BY <1>1, EmptyList, ListShape
    <2>2. \A i \in 1 .. 0 : FALSE
        OBVIOUS
    <2> QED
        BY <2>1, <2>2 DEF Range
<1>3. 1 .. run'.done = {}
    <2>1. \A i : i \notin 1 .. 0
        OBVIOUS
    <2> QED
        BY <1>1, <2>1, Zenon
<1> QED
    BY <1>1, <1>2, <1>3 DEF Served

LEMMA ServedStop ==
    ASSUME IInv, Served, RefuseEntry \/ RefuseChannel \/ Kill \/ KillWriting
    PROVE  Served'
<1>1. CASE RefuseEntry
    <2>1. run' = [run EXCEPT !.pc = "refused", !.why = "entry"]
        BY <1>1 DEF RefuseEntry, Refuse
    <2>2. run'.pc = "refused" /\ run'.why = "entry"
        BY <2>1 DEF IInv, RunShape
    <2> QED
        BY <2>2 DEF Served, Live
<1>2. CASE RefuseChannel
    <2>1. /\ run' = [run EXCEPT !.pc = "refused", !.why = "encode"]
          /\ UNCHANGED <<files, wman, cman>>
          /\ run.done < Len(wman.entries)
          /\ EntryAccepted(Weight, cman, Cal, files) /\ ~Encoded
        BY <1>2 DEF RefuseChannel, Refuse, EntriesLeft
    <2>2. run'.pc = "refused" /\ run'.done = run.done
        BY <2>1 DEF IInv, RunShape
    <2>3. Weight' = Weight
        BY <2>1, <2>2 DEF Weight
    <2>4. Cal' = Cal
        BY <2>1, <2>3 DEF Cal
    <2>5. Scales' = Scales /\ Outs' = Outs
        BY <2>1, <2>3, <2>4 DEF Scales, Outs
    <2>6. Eff' = Eff /\ Bias' = Bias
        BY <2>1, <2>3, <2>4, <2>5 DEF Eff, Bias
    <2>7. ~Encoded'
        BY <2>1, <2>3, <2>6 DEF Encoded
    <2>8. EntryAccepted(Weight', cman', Cal', files')
        BY <2>1, <2>3, <2>4
    <2> QED
        BY <2>1, <2>2, <2>7, <2>8 DEF Served, Live
<1>3. CASE Kill \/ KillWriting
    <2>1. run' = [run EXCEPT !.pc = "killed"] /\ Busy
        BY <1>3 DEF Kill, KillWriting, EntriesLeft, Busy
    <2>2. run'.pc = "killed" /\ run'.why = run.why
        BY <2>1 DEF IInv, RunShape
    <2>3. run'.why # "encode"
        BY <2>1, <2>2, NotRefused
    <2> QED
        BY <2>2, <2>3 DEF Served, Live
<1> QED
    BY <1>1, <1>2, <1>3

LEMMA ServedSummary ==
    ASSUME IInv, Served, WritePlan \/ WriteManifest \/ WriteMarkdown
    PROVE  Served'
<1>1. /\ Live /\ UNCHANGED <<files, wman, cman>>
      /\ \E pc : run' = [run EXCEPT !.pc = pc]
    BY DEF WritePlan, WriteManifest, WriteMarkdown, Live
<1>2. /\ run'.done = run.done /\ run'.plan = run.plan /\ run'.entries = run.entries
      /\ run'.why = run.why
    BY <1>1 DEF IInv, RunShape
<1>3. run'.why # "encode"
    BY <1>1, <1>2, NotRefused
<1> QED
    BY <1>1, <1>2, <1>3, ServedStays

LEMMA ServedEdit ==
    ASSUME IInv, Served, Recalibrate \/ Edit
    PROVE  Served'
<1>1. run' = Fresh
    BY DEF Recalibrate, Edit
<1>2. run'.pc = "idle" /\ run'.why = ""
    BY <1>1 DEF Fresh
<1> QED
    BY <1>2 DEF Served, Live

LEMMA ServedStutter ==
    ASSUME Served, UNCHANGED vars
    PROVE  Served'
<1>1. run' = run /\ files' = files /\ wman' = wman /\ cman' = cman
    BY DEF vars
<1>2. Weight' = Weight
    BY <1>1 DEF Weight
<1>3. Cal' = Cal
    BY <1>1, <1>2 DEF Cal
<1>4. Scales' = Scales /\ Outs' = Outs
    BY <1>1, <1>2, <1>3 DEF Scales, Outs
<1>5. Eff' = Eff /\ Bias' = Bias
    BY <1>1, <1>2, <1>3, <1>4 DEF Eff, Bias
<1>6. Encoded' = Encoded
    BY <1>1, <1>2, <1>5 DEF Encoded
<1>7. EntryAccepted(Weight, cman, Cal, files)' = EntryAccepted(Weight, cman, Cal, files)
    BY <1>1, <1>2, <1>3
<1> QED
    BY <1>1, <1>6, <1>7 DEF Served, Live

(***************************************************************************)
(* The pages of the published plan.                                        *)
(***************************************************************************)
\* The line of a page of an entry.
LineAt(e, p) ==
    [page   |-> e.firstPage + p - 1,
     tc     |-> (p - 1) % TensorCores,
     path   |-> PayloadFile(e.key),
     offset |-> (p - 1) * Channels,
     valid  |-> Min({Channels, e.channels - (p - 1) * Channels})]

LEMMA LinesAre ==
    ASSUME NEW e
    PROVE  \A l : l \in LinesFor(e) <=> \E p \in 1 .. PageCount(e.channels) : l = LineAt(e, p)
<1>1. PageLines(e.key, e.channels, e.firstPage) = [p \in 1 .. PageCount(e.channels) |-> LineAt(e, p)]
    BY DEF PageLines, LineAt
<1> DEFINE n == PageCount(e.channels)
           f == [p \in 1 .. n |-> LineAt(e, p)]
<1>2. \A l : l \in Range(f) <=> \E p \in 1 .. n : l = LineAt(e, p)
    <2> HIDE DEF n
    <2>1. DOMAIN f = 1 .. n /\ \A p \in 1 .. n : f[p] = LineAt(e, p)
        OBVIOUS
    <2> HIDE DEF f
    <2> QED
        BY <2>1 DEF Range
<1> QED
    BY <1>1, <1>2 DEF LinesFor

\* Where a line begins, and how far it goes.
LEMMA LineReach ==
    ASSUME NEW e, e.channels \in Nat, NEW p \in 1 .. PageCount(e.channels)
    PROVE  LET l == LineAt(e, p)
           IN  /\ l.offset = (p - 1) * Channels /\ l.offset \in Nat
               /\ l.valid \in 1 .. Channels /\ l.offset + l.valid <= e.channels
               /\ l.valid < Channels => l.offset + l.valid = e.channels
               /\ l.page = e.firstPage + p - 1 /\ l.tc = (p - 1) % TensorCores
               /\ l.path = PayloadFile(e.key)
<1> DEFINE l == LineAt(e, p)
           o == (p - 1) * Channels
           n == e.channels
           S == {Channels, n - o}
<1>1. /\ l.offset = o /\ l.valid = Min(S) /\ l.page = e.firstPage + p - 1
      /\ l.tc = (p - 1) % TensorCores /\ l.path = PayloadFile(e.key)
    BY DEF LineAt
<1>2. PageCount(n) \in Nat /\ o < n /\ Channels \in Nat \ {0}
    BY PagesHold, ExportAssumption
<1>3. o \in Nat
    <2>1. p - 1 \in Nat
        BY <1>2
    <2> QED
        BY <1>2, <2>1
<1> HIDE DEF l, o
<1>4. Min(S) \in S /\ Min(S) <= Channels /\ Min(S) <= n - o
    <2>1. \E m \in S : \A y \in S : m <= y
        <3>1. CASE Channels <= n - o
            BY <1>2, <1>3, <3>1
        <3>2. CASE ~(Channels <= n - o)
            <4>1. n - o <= Channels /\ n - o \in Int
                BY <1>2, <1>3, <3>2
            <4> QED
                BY <4>1
        <3> QED
            BY <3>1, <3>2
    <2>2. Min(S) \in S /\ \A y \in S : Min(S) <= y
        BY <2>1 DEF Min
    <2> QED
        BY <2>2
<1>5. l.valid \in {Channels, n - o} /\ l.valid <= Channels /\ l.valid <= n - o
    BY <1>1, <1>4
<1> HIDE DEF S, n
<1>6. n \in Nat
    BY DEF n
<1>7. l.valid \in 1 .. Channels /\ o + l.valid <= n /\ (l.valid < Channels => o + l.valid = n)
    BY <1>2, <1>3, <1>5, <1>6
<1> QED
    BY <1>1, <1>3, <1>7 DEF l, o, n

\* A channel is in one line, that of its page.
LEMMA OneLine ==
    ASSUME NEW e, e.channels \in Nat, NEW c \in 1 .. e.channels
    PROVE  \E p \in 1 .. PageCount(e.channels) :
             {l \in LinesFor(e) : c \in l.offset + 1 .. l.offset + l.valid} = {LineAt(e, p)}
<1> DEFINE n == e.channels
           P == PageCount(n)
           q == (c - 1) \div Channels
           r == (c - 1) % Channels
           p == q + 1
           o == q * Channels
           Hit(l) == c \in l.offset + 1 .. l.offset + l.valid
<1>1. Channels \in Nat \ {0} /\ c - 1 \in Nat /\ c \in Nat /\ c <= n /\ n \in Nat
    BY ExportAssumption
<1>2. q \in Nat /\ r \in 0 .. Channels - 1 /\ c - 1 = (q * Channels) + r
    BY <1>1, DivMod
<1>3. P \in Nat /\ n <= P * Channels
    BY PagesHold
<1> HIDE DEF P, q, r
<1>4. o \in Nat /\ c - 1 = o + r
    BY <1>1, <1>2
<1>5. p \in 1 .. P
    <2>1. SUFFICES ASSUME q >= P PROVE FALSE
        BY <1>2, <1>3
    <2>2. P * Channels <= q * Channels
        BY <1>1, <1>2, <1>3, <2>1, TimesMonotone
    <2> DEFINE u == P * Channels
    <2>3. u \in Int /\ n <= u /\ u <= o
        BY <1>1, <1>3, <2>2
    <2> HIDE DEF u, o
    <2> QED
        BY <1>1, <1>2, <1>4, <2>3
<1>6. LineAt(e, p) \in LinesFor(e) /\ Hit(LineAt(e, p))
    <2> DEFINE l == LineAt(e, p)
    <2>1. l \in LinesFor(e)
        BY <1>5, LinesAre DEF P
    <2>2. /\ l.offset = (p - 1) * Channels /\ l.valid \in 1 .. Channels
          /\ l.valid < Channels => l.offset + l.valid = n
        BY <1>5, LineReach DEF P
    <2>3. l.offset = o
        <3>1. p - 1 = q
            BY <1>2
        <3> QED
            BY <2>2, <3>1
    <2> HIDE DEF l, o
    <2>4. c \in l.offset + 1 .. l.offset + l.valid
        BY <1>1, <1>2, <1>4, <2>2, <2>3
    <2> QED
        BY <2>1, <2>4 DEF l
<1>7. ASSUME NEW l \in LinesFor(e), Hit(l) PROVE l = LineAt(e, p)
    <2>1. PICK k \in 1 .. P : l = LineAt(e, k)
        BY <1>7, LinesAre DEF P
    <2>2. /\ l.offset = (k - 1) * Channels /\ l.offset \in Nat
          /\ l.valid \in 1 .. Channels
        BY <2>1, LineReach DEF P
    <2> DEFINE d == c - 1 - l.offset
    <2>3. d \in 0 .. Channels - 1 /\ c - 1 = d + l.offset
        BY <1>1, <1>7, <2>2
    <2>4. k - 1 \in Nat
        BY <1>3
    <2> HIDE DEF d
    <2>5. (d + (k - 1) * Channels) \div Channels = k - 1
        BY <1>1, <2>3, <2>4, Digits
    <2>6. q = k - 1
        BY <2>2, <2>3, <2>5 DEF q
    <2>7. k = p
        BY <1>3, <2>6
    <2> QED
        BY <2>1, <2>7
<1>8. {l \in LinesFor(e) : Hit(l)} = {LineAt(e, p)}
    <2> HIDE DEF Hit, p
    <2> QED
        BY <1>6, <1>7
<1> QED
    BY <1>5, <1>8 DEF P, n

\* The cores of the pages of one wave differ.
LEMMA CoresOfWave ==
    ASSUME NEW j \in Nat, NEW k \in Nat, j \div TensorCores = k \div TensorCores,
           j % TensorCores = k % TensorCores
    PROVE  j = k
<1> DEFINE u == (j \div TensorCores) * TensorCores
           r == j % TensorCores
<1>1. TensorCores \in Nat \ {0}
    BY ExportAssumption
<1>2. j = u + r /\ k = ((k \div TensorCores) * TensorCores) + (k % TensorCores)
    BY <1>1, DivMod
<1>3. k = u + r
    BY <1>2
<1> QED
    BY <1>2, <1>3

\* What quant.json names, once it is published.
LEMMA PublishedIs ==
    ASSUME IInv, Published
    PROVE  /\ Live /\ Json.entries = run.entries /\ DOMAIN run.entries = 1 .. run.done
           /\ Json.sources.calibration = cman
           /\ out[PlanFile] = run.plan
           /\ \A i \in 1 .. run.done : out[PayloadFile(run.entries[i].key)] = run.entries[i].sha
           /\ \A i, j \in 1 .. run.done : run.entries[i].key = run.entries[j].key => i = j
<1>1. /\ HeadersAccepted(wman, cman, AllowDebug) /\ run.done = Len(wman.entries)
      /\ \A i \in 1 .. run.done : EntryKept(i)
      /\ out[PlanFile] = run.plan /\ out[JsonFile] = Manifest /\ Live
    BY DEF IInv, Progress, Live, Published
<1>2. /\ DOMAIN run.entries = 1 .. run.done
      /\ \A i, j \in 1 .. run.done : wman.entries[i].key = wman.entries[j].key => i = j
    BY <1>1, RunTypes, WeightList
<1>3. Json.entries = run.entries /\ Json.sources.calibration = cman
    BY <1>1 DEF Json, Manifest
<1>4. \A i \in 1 .. run.done : /\ out[PayloadFile(run.entries[i].key)] = run.entries[i].sha
                               /\ run.entries[i].key = wman.entries[i].key
    BY <1>1 DEF EntryKept
<1> QED
    BY <1>1, <1>2, <1>3, <1>4

\* The lines of the plan that name an entry's file are the entry's.
LEMMA LinesInPlan ==
    ASSUME IInv, Served, Published, NEW i \in 1 .. run.done
    PROVE  LinesOf(run.entries[i]) = LinesFor(run.entries[i])
<1> DEFINE e == run.entries[i]
<1>1. /\ Range(out[PlanFile]) = UNION {LinesFor(run.entries[j]) : j \in 1 .. run.done}
      /\ \A j \in 1 .. run.done : run.entries[j].channels \in Nat
      /\ \A j \in 1 .. run.done : run.entries[i].key = run.entries[j].key => i = j
    BY PublishedIs DEF Served, EntryServed
<1>2. ASSUME NEW j \in 1 .. run.done, NEW l \in LinesFor(run.entries[j])
      PROVE  l.path = PayloadFile(run.entries[j].key)
    <2>1. PICK p \in 1 .. PageCount(run.entries[j].channels) : l = LineAt(run.entries[j], p)
        BY <1>2, LinesAre
    <2> QED
        BY <2>1 DEF LineAt
<1>3. ASSUME NEW l \in LinesOf(e) PROVE l \in LinesFor(e)
    <2>1. l \in Range(out[PlanFile]) /\ l.path = PayloadFile(e.key)
        BY <1>3 DEF LinesOf
    <2>2. PICK j \in 1 .. run.done : l \in LinesFor(run.entries[j])
        BY <1>1, <2>1
    <2>3. run.entries[j].key = e.key
        BY <1>2, <2>1, <2>2, FilesApart
    <2> QED
        BY <1>1, <2>2, <2>3
<1>4. ASSUME NEW l \in LinesFor(e) PROVE l \in LinesOf(e)
    BY <1>1, <1>2, <1>4 DEF LinesOf
<1> QED
    BY <1>3, <1>4

(***************************************************************************)
(* The theorems.                                                           *)
(***************************************************************************)
\* In every state of every sequence of exports, edits, refusals and kills: the
\* entries done so far are kept on disk as the run remembers them.
THEOREM Invariance == Spec => []IInv
<1>1. Init => IInv
    BY Initially
<1>2. IInv /\ [Next]_vars => IInv'
    <2>1. SUFFICES ASSUME IInv, [Next]_vars
                   PROVE  IInv'
        OBVIOUS
    <2>2. CASE Start
        BY <2>1, <2>2, StartStep
    <2>3. CASE RefuseEntry \/ RefuseChannel \/ Kill \/ KillWriting
        BY <2>1, <2>3, StopStep
    <2>4. CASE ExportEntry
        BY <2>1, <2>4, ExportStep
    <2>5. CASE WritePlan
        BY <2>1, <2>5, PlanStep
    <2>6. CASE WriteManifest
        BY <2>1, <2>6, ManifestStep
    <2>7. CASE WriteMarkdown
        BY <2>1, <2>7, MarkdownStep
    <2>8. CASE Recalibrate \/ Edit
        BY <2>1, <2>8, EditStep
    <2>9. CASE UNCHANGED vars
        BY <2>1, <2>9, StutterStep
    <2> QED
        BY <2>1, <2>2, <2>3, <2>4, <2>5, <2>6, <2>7, <2>8, <2>9 DEF Next
<1> QED
    BY <1>1, <1>2, PTL DEF Spec

\* The counters of export_quant_pages follow the entries it has done, its plan
\* has one line per page, and it writes no file but the ones it names.
THEOREM TypeCorrect == Spec => []TypeOK
<1>1. IInv => TypeOK
    BY DEF IInv
<1> QED
    BY <1>1, Invariance, PTL

\* A published quant.json agrees with the files beside it: whatever the directory
\* held before, each payload and folded scale is what its entry hashes, the pages
\* follow one another from entry to entry, and the sums are those of the plan.
THEOREM PublishedIsCoherent == Spec => []PublishedCoherent
<1>1. IInv => PublishedCoherent
    <2>1. SUFFICES ASSUME IInv, Published
                   PROVE  /\ Json.planSha = out[PlanFile]
                          /\ Json.pages = Len(out[PlanFile])
                          /\ Json.sources = [weights |-> wman, calibration |-> cman]
                          /\ KeysOf(Json.entries) = KeysOf(wman.entries)
                          /\ \A i \in DOMAIN Json.entries :
                               LET e == Json.entries[i]
                               IN  /\ out[PayloadFile(e.key)] = e.sha
                                   /\ e.oscaleSha # <<>> =>
                                        out[OscaleFile(e.key)] = e.oscaleSha[1]
                                   /\ e.firstPage + e.pageCount =
                                        (IF i = Len(Json.entries) THEN Json.pages
                                         ELSE Json.entries[i + 1].firstPage)
                          /\ Json.valid + Json.padded = Json.pages * Channels
        BY DEF PublishedCoherent
    <2>2. /\ HeadersAccepted(wman, cman, AllowDebug) /\ run.done = Len(wman.entries)
          /\ \A i \in 1 .. run.done : EntryKept(i)
          /\ run.valid + run.padded = run.page * Channels
          /\ out[PlanFile] = run.plan /\ out[JsonFile] = Manifest
        BY <2>1 DEF IInv, Progress, Live, Published
    <2>3. /\ run.page = Len(run.plan) /\ DOMAIN run.entries = 1 .. run.done
          /\ DOMAIN wman.entries = 1 .. run.done
        BY <2>1, <2>2, RunTypes, WeightList
    <2>4. /\ Json.planSha = out[PlanFile] /\ Json.pages = run.page
          /\ Json.sources = [weights |-> wman, calibration |-> cman]
          /\ Json.entries = run.entries /\ Json.valid = run.valid /\ Json.padded = run.padded
        BY <2>2 DEF Json, Manifest
    <2>5. KeysOf(Json.entries) = KeysOf(wman.entries)
        <3>1. \A i \in 1 .. run.done : run.entries[i].key = wman.entries[i].key
            BY <2>2 DEF EntryKept
        <3> QED
            BY <2>3, <2>4, <3>1 DEF KeysOf
    <2>6. ASSUME NEW i \in DOMAIN Json.entries
          PROVE  /\ out[PayloadFile(Json.entries[i].key)] = Json.entries[i].sha
                 /\ Json.entries[i].oscaleSha # <<>> =>
                      out[OscaleFile(Json.entries[i].key)] = Json.entries[i].oscaleSha[1]
                 /\ Json.entries[i].firstPage + Json.entries[i].pageCount =
                      (IF i = Len(Json.entries) THEN Json.pages
                       ELSE Json.entries[i + 1].firstPage)
        <3>1. EntryKept(i)
            BY <2>2, <2>3, <2>4, <2>6
        <3> QED
            BY <2>4, <3>1 DEF EntryKept
    <2> QED
        BY <2>2, <2>3, <2>4, <2>5, <2>6
<1> QED
    BY <1>1, Invariance, PTL

\* Columns requantised apart beyond the weight store's own scales are published
\* only with a calibration that counted at least the floor of tokens, or with a
\* weight manifest that is not the store's.
THEOREM ScalesAreTraceable == Spec => []UnboundScalesTraceable
<1>1. IInv => UnboundScalesTraceable
    BY DEF IInv
<1> QED
    BY <1>1, Invariance, PTL

\* The pages of every entry an export has done serve its channels, in every state.
LEMMA Serving == Spec => [](IInv /\ Served)
<1>1. Init => IInv /\ Served
    <2>1. SUFFICES ASSUME Init PROVE Served
        BY Initially
    <2>2. run = Fresh
        BY <2>1 DEF Init
    <2>3. run.pc = "idle" /\ run.why = ""
        BY <2>2 DEF Fresh
    <2> QED
        BY <2>3 DEF Served, Live
<1>2. IInv /\ Served /\ IInv' /\ [Next]_vars => (IInv /\ Served)'
    <2>1. SUFFICES ASSUME IInv, Served, [Next]_vars
                   PROVE  Served'
        OBVIOUS
    <2>2. CASE Start
        BY <2>1, <2>2, ServedStart
    <2>3. CASE RefuseEntry \/ RefuseChannel \/ Kill \/ KillWriting
        BY <2>1, <2>3, ServedStop
    <2>4. CASE ExportEntry
        BY <2>1, <2>4, ServedExport
    <2>5. CASE WritePlan \/ WriteManifest \/ WriteMarkdown
        BY <2>1, <2>5, ServedSummary
    <2>6. CASE Recalibrate \/ Edit
        BY <2>1, <2>6, ServedEdit
    <2>7. CASE UNCHANGED vars
        BY <2>1, <2>7, ServedStutter
    <2> QED
        BY <2>1, <2>2, <2>3, <2>4, <2>5, <2>6, <2>7 DEF Next
<1> QED
    BY <1>1, <1>2, Invariance, PTL DEF Spec

\* Following the published plan as the page loader does, every output channel has
\* exactly one valid record, with its own bias, zero point and encoded scale; what is
\* past a line's count is invalid, and the pages of one wave go to different cores.
THEOREM PagesAreServed == Spec => []PagesServeChannels
<1>1. IInv /\ Served => PagesServeChannels
    <2>1. SUFFICES ASSUME IInv, Served, Published, NEW i \in DOMAIN Json.entries
                   PROVE  LET e == Json.entries[i]
                              cal == EntryFor(Json.sources.calibration.entries, e.key)
                          IN  /\ \A c \in 1 .. e.channels : ChannelServed(e, cal, c)
                              /\ \A l \in LinesOf(e) :
                                   /\ l.page \in e.firstPage .. e.firstPage + e.pageCount - 1
                                   /\ l.valid \in 1 .. Channels
                                   /\ \A slot \in l.valid + 1 .. Channels : ~RecordAt(l, slot).valid
                              /\ \A l, k \in LinesOf(e) :
                                   /\ l # k
                                   /\ (l.page - e.firstPage) \div TensorCores
                                        = (k.page - e.firstPage) \div TensorCores
                                   => l.tc # k.tc
        BY DEF PagesServeChannels
    <2> DEFINE e == Json.entries[i]
               cal == EntryFor(Json.sources.calibration.entries, e.key)
               P == PageCount(e.channels)
    <2>2. /\ i \in 1 .. run.done /\ e = run.entries[i] /\ Live
          /\ Json.sources.calibration = cman /\ out[PayloadFile(e.key)] = e.sha
        BY <2>1, PublishedIs
    <2>3. EntryServed(e, cal, files)
        BY <2>1, <2>2 DEF Served
    <2>4. LinesOf(e) = LinesFor(e)
        BY <2>1, <2>2, LinesInPlan
    <2> HIDE DEF e, cal
    <2>5. /\ e.channels \in Nat /\ e.firstPage \in Nat /\ e.pageCount = P
          /\ \A c \in 1 .. e.channels : ChannelKept(e, cal, files, c)
          /\ \A r \in e.channels + 1 .. P * Channels : e.sha[r] = Pack(0, 0, 0, 0, FALSE)
        BY <2>3 DEF EntryServed
    <2>6. P \in Nat /\ Channels \in Nat \ {0}
        BY <2>5, PagesHold, ExportAssumption
    <2>7. ASSUME NEW l \in LinesOf(e), NEW slot
          PROVE  RecordAt(l, slot) = EntryBits(e.sha[l.offset + slot])
        <3>1. PICK p \in 1 .. P : l = LineAt(e, p)
            BY <2>4, <2>7, LinesAre
        <3>2. l.path = PayloadFile(e.key)
            BY <3>1 DEF LineAt
        <3> QED
            BY <2>2, <3>2 DEF RecordAt
    <2>8. ASSUME NEW c \in 1 .. e.channels PROVE ChannelServed(e, cal, c)
        <3> DEFINE hits == {l \in LinesOf(e) : c \in l.offset + 1 .. l.offset + l.valid}
                   x == CHOOSE l \in hits : TRUE
                   q == Encode(e.act * e.scaleSha[c], UNIT * OutsOf(e)[c])
                   rec == [bias |-> BiasAcc(cal, e.scaleSha, BiasValues(cal, files, e.channels))[c],
                           mult |-> q.mult, shift |-> q.shift, zp |-> cal.outZp, valid |-> TRUE]
        <3>1. PICK p \in 1 .. P : hits = {LineAt(e, p)}
            BY <2>4, <2>5, OneLine
        <3>2. Cardinality(hits) = 1 /\ x \in hits
            <4> HIDE DEF hits
            <4> QED
                BY <3>1, FS_Singleton
        <3>3. x \in LinesOf(e)
            BY <3>2
        <3>4. x.offset + (c - x.offset) = c
            <4>1. PICK k \in 1 .. P : x = LineAt(e, k)
                BY <2>4, <3>3, LinesAre
            <4>2. x.offset \in Nat
                <5>1. LineAt(e, k).offset \in Nat
                    BY <2>5, <4>1, LineReach
                <5> QED
                    BY <4>1, <5>1
            <4>3. c \in Int
                BY <2>5
            <4> HIDE DEF x
            <4> QED
                BY <4>2, <4>3
        <3> HIDE DEF hits, x
        <3>5. RecordAt(x, c - x.offset) = EntryBits(e.sha[c])
            BY <2>7, <3>3, <3>4
        <3>6. EntryBits(e.sha[c]) = rec
            BY <2>5, KeptReadsBack
        <3> HIDE DEF rec
        <3>7. Cardinality(hits) = 1 /\ RecordAt(x, c - x.offset) = rec
            BY <3>2, <3>5, <3>6
        <3> QED
            BY <3>7 DEF ChannelServed, hits, x, rec, q, OutsOf
    <2>9. ASSUME NEW l \in LinesOf(e)
          PROVE  /\ l.page \in e.firstPage .. e.firstPage + e.pageCount - 1
                 /\ l.valid \in 1 .. Channels
                 /\ \A slot \in l.valid + 1 .. Channels : ~RecordAt(l, slot).valid
        <3>1. PICK p \in 1 .. P : l = LineAt(e, p)
            BY <2>4, <2>9, LinesAre
        <3>2. /\ l.offset = (p - 1) * Channels /\ l.offset \in Nat
              /\ l.valid \in 1 .. Channels /\ l.offset + l.valid <= e.channels
              /\ l.valid < Channels => l.offset + l.valid = e.channels
              /\ l.page = e.firstPage + p - 1
            BY <2>5, <3>1, LineReach
        <3>3. l.page \in e.firstPage .. e.firstPage + e.pageCount - 1
            <4>1. p \in Int /\ 1 <= p /\ p <= P
                BY <2>6
            <4> QED
                BY <2>5, <2>6, <3>2, <4>1
        <3>4. ASSUME NEW slot \in l.valid + 1 .. Channels PROVE ~RecordAt(l, slot).valid
            <4>1. l.offset + slot \in e.channels + 1 .. P * Channels
                <5>1. p * Channels <= P * Channels
                    BY <2>6, TimesMonotone
                <5>2. ((p - 1) + 1) * Channels = ((p - 1) * Channels) + (1 * Channels) /\ (p - 1) + 1 = p
                    BY <2>6, Distribute
                <5> DEFINE u == P * Channels
                           w == p * Channels
                <5>3. u \in Int /\ w \in Int /\ w <= u /\ w = l.offset + Channels
                    BY <2>6, <3>2, <5>1, <5>2
                <5> HIDE DEF u, w
                <5>4. l.offset + slot \in e.channels + 1 .. u
                    BY <2>5, <2>6, <3>2, <5>3
                <5> QED
                    BY <5>4 DEF u
            <4>2. e.sha[l.offset + slot] = Pack(0, 0, 0, 0, FALSE)
                BY <2>5, <4>1
            <4>3. EntryBits(Pack(0, 0, 0, 0, FALSE)) =
                    [bias |-> 0, mult |-> 0, shift |-> 0, zp |-> 0, valid |-> FALSE]
                BY BlankPackable, PackedBack
            <4>4. RecordAt(l, slot) = [bias |-> 0, mult |-> 0, shift |-> 0, zp |-> 0, valid |-> FALSE]
                BY <2>7, <4>2, <4>3
            <4> QED
                BY <4>4
        <3> QED
            BY <3>2, <3>3, <3>4
    <2>10. ASSUME NEW l \in LinesOf(e), NEW k \in LinesOf(e), l # k,
                  (l.page - e.firstPage) \div TensorCores = (k.page - e.firstPage) \div TensorCores
           PROVE  l.tc # k.tc
        <3>1. PICK p \in 1 .. P : l = LineAt(e, p)
            BY <2>4, <2>10, LinesAre
        <3>2. PICK s \in 1 .. P : k = LineAt(e, s)
            BY <2>4, <2>10, LinesAre
        <3>3. /\ l.page = e.firstPage + p - 1 /\ l.tc = (p - 1) % TensorCores
              /\ k.page = e.firstPage + s - 1 /\ k.tc = (s - 1) % TensorCores
            BY <3>1, <3>2 DEF LineAt
        <3>4. l.page - e.firstPage = p - 1 /\ k.page - e.firstPage = s - 1 /\ p - 1 \in Nat /\ s - 1 \in Nat
            BY <2>5, <2>6, <3>3
        <3>5. p - 1 # s - 1
            BY <2>6, <2>10, <3>1, <3>2
        <3> QED
            BY <2>10, <3>3, <3>4, <3>5, CoresOfWave
    <2> QED
        BY <2>8, <2>9, <2>10 DEF e, cal
<1> QED
    BY <1>1, Serving, PTL

\* A published scale is within the limit of the exact one; an export refused for a
\* scale had one out of range, or that no pair of the hardware meets, or a bias the
\* accumulator cannot hold.
THEOREM ScalesAreEncoded ==
    ASSUME LimitIsMet
    PROVE  Spec => []ScalesEncoded
<1>1. IInv /\ Served => ScalesEncoded
    <2>1. SUFFICES ASSUME IInv, Served PROVE ScalesEncoded
        OBVIOUS
    <2>2. ASSUME Published, NEW i \in DOMAIN Json.entries, NEW c \in 1 .. Json.entries[i].channels
          PROVE  LET e == Json.entries[i]
                     r == EntryBits(out[PayloadFile(e.key)][c])
                 IN  WithinLimit(e.act * e.scaleSha[c], UNIT * OutsOf(e)[c], r.mult, r.shift)
        <3> DEFINE e == Json.entries[i]
                   cal == EntryFor(Json.sources.calibration.entries, e.key)
                   n == e.act * e.scaleSha[c]
                   d == UNIT * OutsOf(e)[c]
                   q == Encode(n, d)
        <3>1. /\ i \in 1 .. run.done /\ e = run.entries[i] /\ Live
              /\ Json.sources.calibration = cman /\ out[PayloadFile(e.key)] = e.sha
            BY <2>1, <2>2, PublishedIs
        <3>2. EntryServed(e, cal, files)
            BY <2>1, <3>1 DEF Served
        <3> HIDE DEF e, cal
        <3>3. ChannelKept(e, cal, files, c)
            BY <2>2, <3>2 DEF EntryServed, e
        <3>4. EntryBits(e.sha[c]).mult = q.mult /\ EntryBits(e.sha[c]).shift = q.shift
            <4>1. EntryBits(e.sha[c]) =
                    [bias |-> BiasAcc(cal, e.scaleSha, BiasValues(cal, files, e.channels))[c],
                     mult |-> q.mult, shift |-> q.shift, zp |-> cal.outZp, valid |-> TRUE]
                BY <3>3, KeptReadsBack
            <4> QED
                BY <4>1
        <3>5. WithinLimit(n, d, q.mult, q.shift)
            BY <3>3 DEF ChannelKept, Encodable
        <3> HIDE DEF n, d, q
        <3>6. WithinLimit(n, d, EntryBits(out[PayloadFile(e.key)][c]).mult,
                          EntryBits(out[PayloadFile(e.key)][c]).shift)
            BY <3>1, <3>4, <3>5
        <3> QED
            BY <3>6 DEF e, n, d
    <2>3. ASSUME run.why = "encode"
          PROVE  \E c \in 1 .. Weight.channels :
                   \/ ~SomePairFits(Eff[c].n, Eff[c].d)
                   \/ ~InHardwareRange(Eff[c].n, Eff[c].d)
                   \/ Bias[c] \notin BIAS_MIN .. BIAS_MAX
        <3>1. EntryAccepted(Weight, cman, Cal, files) /\ ~Encoded
            BY <2>1, <2>3 DEF Served
        <3>2. PICK c \in 1 .. Weight.channels :
                 ~Encodable(Eff[c].n, Eff[c].d) \/ Bias[c] \notin BIAS_MIN .. BIAS_MAX
            BY <3>1 DEF Encoded
        <3>3. Eff[c].n \in Nat \ {0} /\ Eff[c].d \in Nat \ {0}
            <4>1. /\ Scales \in Seq(Nat \ {0}) /\ Len(Scales) = Weight.channels
                  /\ Outs \in Seq(Nat \ {0}) /\ Len(Outs) = Weight.channels
                BY <3>1 DEF EntryAccepted, ScaleAccepted, OutputScaleAccepted, AllPositive, Scales, Outs
            <4>2. DOMAIN Scales = 1 .. Weight.channels /\ Scales[c] \in Nat \ {0} /\ Outs[c] \in Nat \ {0}
                BY <4>1
            <4>3. Cal.act \in Nat \ {0} /\ UNIT \in Nat \ {0}
                BY <3>1, InputAssumption DEF EntryAccepted, ActivationAccepted
            <4>4. Eff[c].n = Cal.act * Scales[c] /\ Eff[c].d = UNIT * Outs[c]
                BY <4>2 DEF Eff, EffectiveScales
            <4> QED
                BY <4>2, <4>3, <4>4
        <3>4. InHardwareRange(Eff[c].n, Eff[c].d) /\ SomePairFits(Eff[c].n, Eff[c].d)
                => Encodable(Eff[c].n, Eff[c].d)
            BY <3>3, EncodeIsBest
        <3> QED
            BY <3>2, <3>4
    <2> QED
        BY <2>2, <2>3 DEF ScalesEncoded, OutsOf
<1> QED
    BY <1>1, Serving, PTL
=============================================================================
