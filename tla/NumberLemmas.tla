---------------------------- MODULE NumberLemmas ----------------------------
(***************************************************************************)
(* Facts about numbers that the proofs of this project share: products and *)
(* quotients, which the provers do not reason about by themselves; least   *)
(* and greatest members of sets of numbers, which stand in for induction   *)
(* (a least counterexample); and, by these, what lists put together and    *)
(* folds over them yield.                                                  *)
(***************************************************************************)
EXTENDS Integers, SequencesExt, FiniteSetTheorems, TLAPS

(***************************************************************************)
(* Arithmetic.                                                             *)
(***************************************************************************)
\* Division with remainder.
LEMMA DivMod ==
    ASSUME NEW x \in Nat, NEW b \in Nat \ {0}
    PROVE  /\ x \div b \in Nat /\ x % b \in 0 .. b - 1
           /\ x = ((x \div b) * b) + (x % b)
    OBVIOUS

\* Products keep the order.
LEMMA TimesMonotone ==
    ASSUME NEW x \in Int, NEW y \in Int, x <= y, NEW b \in Nat
    PROVE  x * b <= y * b
    OBVIOUS

\* Multiplication distributes over sums.
LEMMA Distribute ==
    ASSUME NEW x \in Int, NEW y \in Int, NEW b \in Int
    PROVE  (x + y) * b = (x * b) + (y * b)
    OBVIOUS

\* Products of numbers are numbers, in any order of evaluation.
LEMMA TimesAssoc ==
    ASSUME NEW x \in Nat, NEW y \in Nat, NEW b \in Nat
    PROVE  x * y \in Nat /\ (x * y) * b = x * (y * b)
    OBVIOUS

\* A multiple of b that is less than b away from another one is that one.
LEMMA SameMultiple ==
    ASSUME NEW b \in Nat \ {0}, NEW m \in Int, NEW q \in Int, NEW r \in 0 .. b - 1,
           m * b = (q * b) + r
    PROVE  m = q
<1>1. CASE m <= q
    <2>1. m * b <= q * b
        BY <1>1, TimesMonotone
    <2>2. r = 0 /\ m * b = q * b
        BY <2>1
    <2>3. CASE m < q
        <3>1. (m + 1) * b <= q * b
            BY <2>3, TimesMonotone
        <3>2. (m + 1) * b = (m * b) + b
            BY Distribute
        <3> DEFINE u == m * b
                   v == q * b
        <3>3. u + b <= v /\ u = v /\ u \in Int /\ v \in Int
            BY <3>1, <3>2, <2>2
        <3> HIDE DEF u, v
        <3> QED
            BY <3>3
    <2> QED
        BY <1>1, <2>3
<1>2. CASE m > q
    <2>1. (q + 1) * b <= m * b
        BY <1>2, TimesMonotone
    <2>2. (q + 1) * b = (q * b) + b
        BY Distribute
    <2> DEFINE u == m * b
               v == q * b
    <2>3. v + b <= u /\ u = v + r /\ u \in Int /\ v \in Int
        BY <2>1, <2>2
    <2> HIDE DEF u, v
    <2> QED
        BY <2>3
<1> QED
    BY <1>1, <1>2

\* A digit below b and what is above it come apart again.
LEMMA Digits ==
    ASSUME NEW b \in Nat \ {0}, NEW x \in 0 .. b - 1, NEW y \in Nat
    PROVE  /\ x + y * b \in Nat
           /\ (x + y * b) \div b = y /\ (x + y * b) % b = x
<1> DEFINE u == y * b
           n == x + u
           q == n \div b
           r == n % b
           v == q * b
<1>1. u \in Nat /\ n \in Nat
    OBVIOUS
<1> HIDE DEF u
<1>2. q \in Nat /\ r \in 0 .. b - 1 /\ n = v + r
    <2> HIDE DEF n
    <2> QED
        BY <1>1, DivMod
<1> HIDE DEF q, r
<1>3. v \in Nat
    BY <1>2
<1>4. y = q
    <2> DEFINE Lt(i, j) == i <= j
    <2>1. CASE y <= q
        <3>1. CASE y < q
            <4>1. (y + 1) * b <= q * b /\ (y + 1) * b = u + b
                BY <1>2, <3>1, TimesMonotone, Distribute DEF u
            <4> HIDE DEF v
            <4>2. u + b <= v
                BY <4>1 DEF v
            <4> QED
                BY <1>1, <1>2, <1>3, <4>2
        <3> QED
            BY <1>2, <2>1, <3>1
    <2>2. CASE y > q
        <3>1. (q + 1) * b <= y * b /\ (q + 1) * b = v + b
            BY <1>2, <2>2, TimesMonotone, Distribute
        <3> HIDE DEF v
        <3>2. v + b <= u
            BY <3>1 DEF u
        <3> QED
            BY <1>1, <1>2, <1>3, <3>2
    <2> QED
        BY <1>2, <2>1, <2>2
<1>5. r = x
    <2>1. v = u
        BY <1>4 DEF u
    <2> HIDE DEF v
    <2> QED
        BY <1>1, <1>2, <1>3, <2>1
<1> QED
    BY <1>1, <1>4, <1>5 DEF u, q, r

\* Dividing twice is dividing by the product.
LEMMA DivDiv ==
    ASSUME NEW x \in Nat, NEW b \in Nat \ {0}, NEW d \in Nat \ {0}
    PROVE  x \div (b * d) = (x \div b) \div d
<1> DEFINE q == x \div b
           r == x % b
           p == q \div d
           s == q % d
           n == b * d
           t == r + s * b
<1>1. q \in Nat /\ r \in 0 .. b - 1 /\ x = (q * b) + r
    BY DivMod
<1> HIDE DEF q, r
<1>2. p \in Nat /\ s \in 0 .. d - 1 /\ q = (p * d) + s
    BY <1>1, DivMod
<1> HIDE DEF p, s
<1>3. n \in Nat \ {0} /\ s * b \in Nat
    BY <1>2
<1>4. x = t + (p * n)
    <2>1. ((p * d) + s) * b = ((p * d) * b) + (s * b)
        BY <1>2, Distribute
    <2>2. (p * d) * b = p * (d * b) /\ d * b = b * d
        BY <1>2, TimesAssoc
    <2> DEFINE u == p * n
               w == s * b
               y == q * b
    <2>3. y = u + w /\ x = y + r /\ t = r + w /\ u \in Int /\ w \in Int /\ r \in Int
        BY <1>1, <1>2, <1>3, <2>1, <2>2
    <2> HIDE DEF u, w, y, t
    <2>4. x = t + u
        BY <2>3
    <2> QED
        BY <2>4 DEF u
<1>5. t \in 0 .. n - 1
    <2>1. (s + 1) * b <= d * b /\ (s + 1) * b = (s * b) + b
        BY <1>2, TimesMonotone, Distribute
    <2> DEFINE w == s * b
    <2>2. d * b = n
        OBVIOUS
    <2>3. w + b <= n /\ w \in Nat /\ n \in Nat
        BY <1>3, <2>1, <2>2
    <2> HIDE DEF w, n
    <2>4. r + w \in 0 .. n - 1
        BY <1>1, <2>3
    <2> QED
        BY <2>4 DEF w
<1> HIDE DEF t, n
<1>6. x \div n = p
    BY <1>2, <1>3, <1>4, <1>5, Digits
<1> QED
    BY <1>6 DEF n, p, q

\* The remainder of a number at most one divisor away from the range.
LEMMA Wraps ==
    ASSUME NEW b \in Nat \ {0}, NEW x \in Int
    PROVE  /\ 0 <= x /\ x < b => x % b = x
           /\ -b <= x /\ x < 0 => x % b = x + b
    OBVIOUS

\* A factor that is not zero cancels.
LEMMA Cancel ==
    ASSUME NEW x \in Int, NEW y \in Int, NEW b \in Nat \ {0}
    PROVE  x * b <= y * b <=> x <= y
<1>1. x <= y => x * b <= y * b
    BY TimesMonotone
<1>2. ASSUME x > y PROVE ~(x * b <= y * b)
    <2>1. (y + 1) * b <= x * b /\ (y + 1) * b = (y * b) + b
        BY <1>2, TimesMonotone, Distribute
    <2> DEFINE u == x * b
               v == y * b
    <2>2. u \in Int /\ v \in Int /\ v + b <= u
        BY <2>1
    <2> HIDE DEF u, v
    <2>3. ~(u <= v)
        BY <2>2
    <2> QED
        BY <2>3 DEF u, v
<1> QED
    BY <1>1, <1>2

(***************************************************************************)
(* Least and greatest numbers.                                             *)
(***************************************************************************)
\* A non-empty set of numbers of an interval has a least one: what induction
\* over an interval needs.  Strict inclusion of the sets below them is well founded.
LEMMA LeastNumber ==
    ASSUME NEW lo \in Int, NEW hi \in Int, NEW S \in SUBSET (lo .. hi), S # {}
    PROVE  \E m \in S : \A p \in S : m <= p
<1> DEFINE I == lo .. hi
           Under(m) == {p \in S : p < m}
           R == StrictSubsetOrdering(I)
           T == {Under(m) : m \in S}
<1>1. IsFiniteSet(I)
    BY FS_Interval
<1>2. IsWellFoundedOn(R, SUBSET I)
    <2> HIDE DEF I
    <2> QED
        BY <1>1, FS_FiniteSubsetsOfFinite, FS_StrictSubsetOrderingWellFounded
<1>3. T \subseteq SUBSET I /\ T # {}
    OBVIOUS
<1>4. PICK U \in T : \A V \in T : <<V, U>> \notin R
    <2> HIDE DEF T, R, I
    <2> QED
        BY <1>2, <1>3, WFMin
<1>5. PICK m \in S : U = Under(m)
    BY <1>4
<1>6. ASSUME NEW p \in S, p < m PROVE FALSE
    <2>1. m \in Int /\ p \in Int /\ \A r \in S : r \in Int
        OBVIOUS
    <2>2. Under(p) \subseteq Under(m)
        <3>1. \A r \in S : r < p => r < m
            BY <1>6, <2>1
        <3> QED
            BY <3>1
    <2>3. p \in Under(m) /\ p \notin Under(p)
        BY <1>6, <2>1
    <2>4. <<Under(p), Under(m)>> \in R
        BY <1>3, <2>2, <2>3 DEF StrictSubsetOrdering
    <2>5. Under(p) \in T
        OBVIOUS
    <2> QED
        BY <1>4, <1>5, <2>4, <2>5
<1> QED
    BY <1>6

\* And a greatest one.
LEMMA GreatestNumber ==
    ASSUME NEW lo \in Int, NEW hi \in Int, NEW S \in SUBSET (lo .. hi), S # {}
    PROVE  \E m \in S : \A p \in S : p <= m
<1> DEFINE T == {lo + hi - p : p \in S}
<1>1. \A p \in S : p \in Int /\ lo <= p /\ p <= hi
    OBVIOUS
<1>2. T \in SUBSET (lo .. hi) /\ T # {}
    <2>1. \A v \in T : \E p \in S : v = lo + hi - p
        OBVIOUS
    <2>2. PICK p \in S : TRUE
        OBVIOUS
    <2>3. lo + hi - p \in T
        OBVIOUS
    <2>4. ASSUME NEW v \in T PROVE v \in lo .. hi
        <3>1. PICK r \in S : v = lo + hi - r
            BY <2>1
        <3> HIDE DEF T
        <3> QED
            BY <1>1, <3>1
    <2> HIDE DEF T
    <2> QED
        BY <2>3, <2>4
<1>3. PICK u \in T : \A v \in T : u <= v
    <2> HIDE DEF T
    <2> QED
        BY <1>2, LeastNumber
<1>4. PICK m \in S : u = lo + hi - m
    BY <1>3
<1>5. ASSUME NEW p \in S PROVE p <= m
    <2>1. lo + hi - p \in T
        OBVIOUS
    <2> QED
        BY <1>1, <1>3, <1>4, <2>1
<1> QED
    BY <1>5

(***************************************************************************)
(* Powers of two.                                                          *)
(***************************************************************************)
\* The provers know nothing of powers; the subsets of 1 .. n are 2^n.
LEMMA SubsetsOfRange ==
    ASSUME NEW n \in Nat
    PROVE  IsFiniteSet(SUBSET (1 .. n)) /\ Cardinality(SUBSET (1 .. n)) = 2^n /\ 2^n \in Nat
<1>1. IsFiniteSet(1 .. n) /\ Cardinality(1 .. n) = n
    BY FS_Interval
<1>2. IsFiniteSet(SUBSET (1 .. n)) /\ Cardinality(SUBSET (1 .. n)) = 2^n
    BY <1>1, FS_SUBSET
<1> QED
    BY <1>2, FS_CardinalityType

\* A power of two, one more.
LEMMA PowerStep ==
    ASSUME NEW n \in Nat
    PROVE  2^(n + 1) = 2 * 2^n
<1> DEFINE P == SUBSET (1 .. n)
           x == n + 1
           Q == {s \cup {x} : s \in P}
<1>1. SUBSET (1 .. x) = P \cup Q
    <2>1. 1 .. x = (1 .. n) \cup {x}
        OBVIOUS
    <2>2. ASSUME NEW t \in SUBSET (1 .. x) PROVE t \in P \cup Q
        <3>1. CASE x \notin t
            BY <2>1, <2>2, <3>1
        <3>2. CASE x \in t
            <4>1. t \ {x} \in P /\ t = (t \ {x}) \cup {x}
                BY <2>1, <2>2, <3>2
            <4> QED
                BY <4>1
        <3> QED
            BY <3>1, <3>2
    <2>3. \A t \in P \cup Q : t \in SUBSET (1 .. x)
        BY <2>1
    <2> QED
        BY <2>2, <2>3
<1>2. x \notin 1 .. n
    OBVIOUS
<1>3. P \cap Q = {}
    BY <1>2
<1> DEFINE f == [s \in P |-> s \cup {x}]
<1>4. f \in Bijection(P, Q)
    <2>1. f \in [P -> Q]
        OBVIOUS
    <2>2. ASSUME NEW a \in P, NEW b \in P, f[a] = f[b] PROVE a = b
        <3>1. a \cup {x} = b \cup {x} /\ x \notin a /\ x \notin b
            BY <1>2, <2>2
        <3> QED
            BY <3>1
    <2>3. \A t \in Q : \E s \in P : f[s] = t
        OBVIOUS
    <2> HIDE DEF f, P, Q
    <2> QED
        BY <2>1, <2>2, <2>3 DEF Bijection, Injection, Surjection, IsInjective
<1>5. ExistsBijection(P, Q)
    BY <1>4 DEF ExistsBijection
<1>6. /\ IsFiniteSet(P) /\ Cardinality(P) = 2^n /\ 2^n \in Nat
      /\ Cardinality(SUBSET (1 .. x)) = 2^x
    BY SubsetsOfRange
<1>7. IsFiniteSet(Q) /\ Cardinality(Q) = 2^n
    <2> HIDE DEF P, Q
    <2> QED
        BY <1>5, <1>6, FS_Bijection
<1> DEFINE v == 2^n
<1>8. Cardinality(P \cup Q) = v + v - Cardinality(P \cap Q)
    <2> HIDE DEF P, Q
    <2> QED
        BY <1>6, <1>7, FS_Union
<1>9. Cardinality(P \cap Q) = 0
    BY <1>3, FS_EmptySet
<1>10. 2^x = v + v - 0
    BY <1>1, <1>6, <1>8, <1>9
<1>11. v \in Nat
    BY <1>6
<1> HIDE DEF v, P, Q, f
<1>12. 2^x = 2 * v
    BY <1>10, <1>11
<1> QED
    BY <1>12 DEF v

\* A power of two is a positive number, and grows with the exponent.
LEMMA PowerPositive ==
    ASSUME NEW n \in Nat
    PROVE  2^n \in Nat \ {0}
<1> DEFINE S == {k \in 0 .. n : 2^k = 0}
<1>1. S = {}
    <2>1. SUFFICES ASSUME S # {} PROVE FALSE
        OBVIOUS
    <2>2. PICK k \in S : \A p \in S : k <= p
        <3>1. S \in SUBSET (0 .. n) /\ 0 \in Int /\ n \in Int
            OBVIOUS
        <3> HIDE DEF S
        <3> QED
            BY <2>1, <3>1, LeastNumber
    <2>3. k # 0
        <3>1. 2^0 # 0
            OBVIOUS
        <3> QED
            BY <3>1, Zenon
    <2>4. k - 1 \in Nat /\ k - 1 \in 0 .. n /\ k - 1 < k /\ 2^k = 0
        BY <2>3
    <2>5. 2^((k - 1) + 1) = 2 * 2^(k - 1)
        BY <2>4, PowerStep
    <2>6. 2^(k - 1) \in Nat
        BY <2>4, SubsetsOfRange
    <2>7. 2^(k - 1) = 0
        <3>1. (k - 1) + 1 = k
            BY <2>4
        <3> QED
            BY <2>4, <2>5, <2>6, <3>1
    <2> QED
        BY <2>2, <2>4, <2>7
<1>2. 2^n \in Nat /\ n \in 0 .. n
    <2>1. 2^n \in Nat
        BY SubsetsOfRange
    <2>2. n \in 0 .. n
        OBVIOUS
    <2> QED
        BY <2>1, <2>2
<1>3. 2^n # 0
    BY <1>1, <1>2, Zenon
<1> QED
    BY <1>2, <1>3, Zenon

\* Powers of two multiplied.
LEMMA PowerSum ==
    ASSUME NEW a \in Nat, NEW b \in Nat
    PROVE  2^(a + b) = 2^a * 2^b
<1> DEFINE S == {k \in 0 .. b : 2^(a + k) # 2^a * 2^k}
<1>1. S = {}
    <2>1. SUFFICES ASSUME S # {} PROVE FALSE
        OBVIOUS
    <2>2. PICK k \in S : \A p \in S : k <= p
        <3>1. S \in SUBSET (0 .. b) /\ 0 \in Int /\ b \in Int
            OBVIOUS
        <3> HIDE DEF S
        <3> QED
            BY <2>1, <3>1, LeastNumber
    <2>3. k # 0
        <3>1. 2^0 = 1 /\ a + 0 = a
            OBVIOUS
        <3> DEFINE u == 2^a
        <3>2. u * 1 = u
            <4>1. u \in Nat
                BY SubsetsOfRange
            <4> HIDE DEF u
            <4> QED
                BY <4>1
        <3>3. 2^(a + 0) = 2^a * 2^0
            BY <3>1, <3>2, Zenon
        <3> QED
            BY <3>3, Zenon
    <2>4. k - 1 \in Nat /\ k - 1 \in 0 .. b /\ k - 1 < k /\ a + (k - 1) \in Nat
        BY <2>3
    <2>5. 2^(a + (k - 1)) = 2^a * 2^(k - 1)
        BY <2>2, <2>4
    <2>6. 2^((k - 1) + 1) = 2 * 2^(k - 1) /\ 2^((a + (k - 1)) + 1) = 2 * 2^(a + (k - 1))
        BY <2>4, PowerStep
    <2>7. (k - 1) + 1 = k /\ (a + (k - 1)) + 1 = a + k
        BY <2>4
    <2> DEFINE u == 2^a
               v == 2^(k - 1)
    <2>8. u \in Nat /\ v \in Nat
        BY <2>4, SubsetsOfRange
    <2>9. 2^(a + k) = 2 * (u * v) /\ 2^k = 2 * v
        BY <2>5, <2>6, <2>7
    <2>10. 2 * (u * v) = u * (2 * v)
        <3> HIDE DEF u, v
        <3> QED
            BY <2>8
    <2> QED
        BY <2>2, <2>9, <2>10
<1>2. b \in 0 .. b
    OBVIOUS
<1> QED
    BY <1>1, <1>2

\* A power of two is twice the one before.
LEMMA Halves ==
    ASSUME NEW w \in Nat \ {0}
    PROVE  2^(w - 1) \in Nat \ {0} /\ 2^w = 2 * 2^(w - 1)
<1>1. w - 1 \in Nat /\ (w - 1) + 1 = w
    OBVIOUS
<1>2. 2^(w - 1) \in Nat \ {0} /\ 2^((w - 1) + 1) = 2 * 2^(w - 1)
    BY <1>1, PowerPositive, PowerStep
<1> QED
    BY <1>1, <1>2, Zenon

(***************************************************************************)
(* More about numbers.                                                     *)
(***************************************************************************)
\* The larger of three numbers is one of them.
LEMMA MaxOfThree ==
    ASSUME NEW x \in Int, NEW y \in Int, NEW z \in Int
    PROVE  Max({x, y, z}) \in Int /\ Max({x, y, z}) >= x
<1>1. \E u \in {x, y, z} : \A v \in {x, y, z} : u >= v
    <2>1. CASE x >= y /\ x >= z
        BY <2>1
    <2>2. CASE y >= x /\ y >= z
        BY <2>2
    <2>3. CASE z >= x /\ z >= y
        BY <2>3
    <2> QED
        BY <2>1, <2>2, <2>3
<1> QED
    BY <1>1 DEF Max

\* The larger of two numbers.
LEMMA MaxOfTwo ==
    ASSUME NEW x \in Int, NEW y \in Int
    PROVE  Max({x, y}) \in {x, y} /\ Max({x, y}) >= x /\ Max({x, y}) >= y
<1>1. \E u \in {x, y} : \A v \in {x, y} : u >= v
    <2>1. CASE x >= y
        BY <2>1
    <2>2. CASE y >= x
        BY <2>2
    <2> QED
        BY <2>1, <2>2
<1> QED
    BY <1>1 DEF Max

\* So many rows of W words as divide a memory fit it.
LEMMA RowsFit ==
    ASSUME NEW size \in Nat, NEW W \in Nat \ {0}, NEW rows \in Nat, rows <= size \div W
    PROVE  rows * W <= size
<1> DEFINE q == size \div W
           u == q * W
           v == rows * W
<1>1. q \in Nat /\ size % W \in 0 .. W - 1 /\ size = u + (size % W)
    BY DivMod
<1>2. v <= u
    <2> HIDE DEF q
    <2> QED
        BY <1>1, TimesMonotone
<1>3. u \in Nat /\ v \in Nat
    BY <1>1
<1> HIDE DEF u, v
<1>4. size % W >= 0 /\ size % W \in Int
    BY <1>1
<1> QED
    BY <1>1, <1>2, <1>3, <1>4 DEF v

\* A multiple of an even number is even.
LEMMA EvenTimes ==
    ASSUME NEW k \in Nat, NEW s \in Nat, s % 2 = 0
    PROVE  (k * s) % 2 = 0
<1> DEFINE h == s \div 2
           x == k * s
           m == k * h
           q == x \div 2
           r == x % 2
<1>1. h \in Nat /\ s = h * 2
    BY DivMod
<1>2. x \in Nat /\ m \in Nat /\ m * 2 = k * (h * 2)
    <2> HIDE DEF h
    <2>1. m \in Nat /\ m * 2 = k * (h * 2)
        BY <1>1, TimesAssoc
    <2> QED
        BY <2>1
<1>3. m * 2 = x
    BY <1>1, <1>2
<1>4. q \in Nat /\ r \in 0 .. 1 /\ x = (q * 2) + r
    <2>1. 2 \in Nat \ {0} /\ 2 - 1 = 1
        OBVIOUS
    <2> HIDE DEF x
    <2> QED
        BY <1>2, <2>1, DivMod
<1> HIDE DEF x, m, q, r, h
<1> QED
    BY <1>2, <1>3, <1>4 DEF r, x

\* The nodes are dealt to the tile groups: so many row slices to each.
LEMMA SlicesOfGroups ==
    ASSUME NEW len \in Nat \ {0}, NEW groups \in Nat \ {0}, len % groups = 0, NEW n \in 1 .. len
    PROVE  LET slices == len \div groups
           IN  slices \in Nat \ {0} /\ (n - 1) \div slices \in 0 .. groups - 1 /\ (n - 1) % slices \in 0 .. slices - 1
<1> DEFINE s == len \div groups
           x == n - 1
           tg == x \div s
           rs == x % s
           all == groups * s
           before == tg * s
<1>1. s \in Nat /\ len = s * groups
    BY DivMod
<1>2. all = len
    BY <1>1
<1>3. s # 0
    <2>1. ASSUME s = 0 PROVE FALSE
        <3>1. s * groups = 0
            BY <2>1
        <3> QED
            BY <1>1, <3>1
    <2> QED
        BY <2>1
<1>4. x \in Nat /\ x < len
    OBVIOUS
<1>5. tg \in Nat /\ rs \in 0 .. s - 1 /\ x = before + rs
    <2> HIDE DEF x, s
    <2> QED
        BY <1>1, <1>3, <1>4, DivMod
<1> HIDE DEF s, x, tg, rs
<1>6. tg < groups
    <2>1. ASSUME groups <= tg PROVE FALSE
        <3>1. all <= before
            BY <1>1, <1>5, <2>1, TimesMonotone
        <3>2. before \in Nat /\ all \in Nat
            BY <1>1, <1>5
        <3> HIDE DEF all, before
        <3> QED
            BY <1>1, <1>2, <1>3, <1>4, <1>5, <3>1, <3>2
    <2> QED
        BY <1>5, <2>1
<1>7. tg \in 0 .. groups - 1
    BY <1>5, <1>6
<1> QED
    BY <1>1, <1>3, <1>5, <1>7 DEF s, x, tg, rs

(***************************************************************************)
(* Lists.                                                                  *)
(***************************************************************************)
\* What a list is.
LEMMA SeqShape ==
    ASSUME NEW S, NEW q \in Seq(S)
    PROVE  Len(q) \in Nat /\ DOMAIN q = 1 .. Len(q) /\ \A i \in 1 .. Len(q) : q[i] \in S
    OBVIOUS

\* The equation of the lists put together so far.
LEMMA FlattenExists ==
    ASSUME NEW S, NEW seqs \in Seq(Seq(S)), Len(seqs) # 0
    PROVE  \E g : g = [i \in 1 .. Len(seqs) |-> IF i = 1 THEN seqs[i] ELSE g[i - 1] \o seqs[i]]
<1> DEFINE n == Len(seqs)
           Up(m) == \E h \in [1 .. m -> Seq(S)] :
                        \A i \in 1 .. m : h[i] = IF i = 1 THEN seqs[i] ELSE h[i - 1] \o seqs[i]
           Bad == {m \in 1 .. n : ~Up(m)}
<1>1. n \in Nat \ {0} /\ \A i \in 1 .. n : seqs[i] \in Seq(S)
    OBVIOUS
<1>2. Up(1)
    <2> DEFINE h == [i \in 1 .. 1 |-> seqs[1]]
    <2>1. h \in [1 .. 1 -> Seq(S)] /\ \A i \in 1 .. 1 : h[i] = IF i = 1 THEN seqs[i] ELSE h[i - 1] \o seqs[i]
        BY <1>1
    <2> QED
        BY <2>1
<1>3. ASSUME NEW m \in 2 .. n, Up(m - 1) PROVE Up(m)
    <2>1. PICK h \in [1 .. m - 1 -> Seq(S)] :
              \A i \in 1 .. m - 1 : h[i] = IF i = 1 THEN seqs[i] ELSE h[i - 1] \o seqs[i]
        BY <1>3
    <2> DEFINE k == [i \in 1 .. m |-> IF i = m THEN h[m - 1] \o seqs[m] ELSE h[i]]
    <2>2. h[m - 1] \o seqs[m] \in Seq(S)
        <3>1. h[m - 1] \in Seq(S) /\ seqs[m] \in Seq(S)
            BY <1>1
        <3> QED
            BY <3>1
    <2>3. k \in [1 .. m -> Seq(S)]
        BY <2>2
    <2>4. ASSUME NEW i \in 1 .. m PROVE k[i] = IF i = 1 THEN seqs[i] ELSE k[i - 1] \o seqs[i]
        <3>1. CASE i = m
            <4>1. m \in 1 .. m /\ m - 1 \in 1 .. m /\ m - 1 # m /\ m # 1
                BY <1>1
            <4>2. k[m] = h[m - 1] \o seqs[m] /\ k[m - 1] = h[m - 1]
                BY <4>1
            <4> HIDE DEF k
            <4> QED
                BY <3>1, <4>1, <4>2
        <3>2. CASE i # m
            <4>1. i \in 1 .. m - 1 /\ k[i] = h[i]
                BY <3>2
            <4>2. i # 1 => k[i - 1] = h[i - 1]
                BY <4>1
            <4>3. h[i] = IF i = 1 THEN seqs[i] ELSE h[i - 1] \o seqs[i]
                BY <2>1, <4>1
            <4> HIDE DEF k
            <4> QED
                BY <4>1, <4>2, <4>3
        <3> QED
            BY <3>1, <3>2
    <2> HIDE DEF k
    <2> QED
        BY <2>3, <2>4
<1> HIDE DEF Up
<1>4. Bad = {}
    <2>1. SUFFICES ASSUME Bad # {} PROVE FALSE
        OBVIOUS
    <2>2. PICK m \in Bad : \A p \in Bad : m <= p
        <3>1. n \in Int /\ 1 \in Int /\ Bad \in SUBSET (1 .. n)
            BY <1>1
        <3> HIDE DEF Bad, n
        <3> QED
            BY <2>1, <3>1, LeastNumber
    <2>3. m \in 2 .. n /\ m - 1 \in 1 .. n /\ m - 1 \notin Bad
        BY <1>1, <1>2, <2>2
    <2> QED
        BY <1>3, <2>2, <2>3
<1>5. PICK h \in [1 .. n -> Seq(S)] : \A i \in 1 .. n : h[i] = IF i = 1 THEN seqs[i] ELSE h[i - 1] \o seqs[i]
    <2>1. n \in 1 .. n /\ n \notin Bad
        BY <1>1, <1>4
    <2>2. Up(n)
        BY <2>1
    <2> QED
        BY <2>2 DEF Up
<1>6. h = [i \in 1 .. n |-> IF i = 1 THEN seqs[i] ELSE h[i - 1] \o seqs[i]]
    BY <1>5
<1> QED
    BY <1>6

\* Lists over a set, put together, are a list over it.
LEMMA FlattenIn ==
    ASSUME NEW S, NEW seqs \in Seq(Seq(S))
    PROVE  FlattenSeq(seqs) \in Seq(S)
<1>1. CASE Len(seqs) = 0
    <2>1. FlattenSeq(seqs) = seqs /\ seqs = <<>>
        BY <1>1 DEF FlattenSeq
    <2> QED
        BY <2>1
<1>2. CASE Len(seqs) # 0
    <2> DEFINE n == Len(seqs)
               g == CHOOSE g : g = [i \in 1 .. n |-> IF i = 1 THEN seqs[i] ELSE g[i - 1] \o seqs[i]]
               Bad == {i \in 1 .. n : g[i] \notin Seq(S)}
    <2>1. g = [i \in 1 .. n |-> IF i = 1 THEN seqs[i] ELSE g[i - 1] \o seqs[i]]
        BY <1>2, FlattenExists
    <2>2. FlattenSeq(seqs) = g[n]
        BY <1>2 DEF FlattenSeq
    <2>3. n \in Nat \ {0} /\ \A i \in 1 .. n : seqs[i] \in Seq(S)
        BY <1>2
    <2> HIDE DEF g
    <2>4. \A i \in 1 .. n : g[i] = IF i = 1 THEN seqs[i] ELSE g[i - 1] \o seqs[i]
        BY <2>1
    <2>5. Bad = {}
        <3>1. SUFFICES ASSUME Bad # {} PROVE FALSE
            OBVIOUS
        <3>2. PICK m \in Bad : \A p \in Bad : m <= p
            <4>1. n \in Int /\ 1 \in Int /\ Bad \in SUBSET (1 .. n)
                BY <2>3
            <4> HIDE DEF Bad, n
            <4> QED
                BY <3>1, <4>1, LeastNumber
        <3>3. m \in 2 .. n /\ m - 1 \in 1 .. n /\ m - 1 \notin Bad
            BY <2>3, <2>4, <3>2
        <3>4. g[m - 1] \in Seq(S) /\ seqs[m] \in Seq(S) /\ g[m] = g[m - 1] \o seqs[m]
            BY <2>3, <2>4, <3>3
        <3>5. g[m] \in Seq(S)
            BY <3>4
        <3> QED
            BY <3>2, <3>5
    <2> QED
        BY <2>2, <2>3, <2>5
<1> QED
    BY <1>1, <1>2

\* A list is one over its own members.
IsSequence(q) == q \in Seq(ToSet(q))

\* A list over a set is a list of its own members.
LEMMA ListOver ==
    ASSUME NEW S, NEW q \in Seq(S)
    PROVE  IsSequence(q) /\ ToSet(q) \subseteq S
<1>1. Len(q) \in Nat /\ DOMAIN q = 1 .. Len(q) /\ \A i \in 1 .. Len(q) : q[i] \in S
    BY SeqShape
<1>2. \A i \in 1 .. Len(q) : q[i] \in ToSet(q)
    BY <1>1 DEF ToSet
<1>3. q \in Seq(ToSet(q))
    <2>1. q = [i \in 1 .. Len(q) |-> q[i]]
        BY <1>1
    <2> QED
        BY <1>1, <1>2, <2>1
<1> QED
    BY <1>1, <1>3 DEF IsSequence, ToSet

\* What a list is made of.
LEMMA ListMade ==
    ASSUME NEW n \in Nat, NEW q, q = [i \in 1 .. n |-> q[i]]
    PROVE  IsSequence(q) /\ Len(q) = n /\ DOMAIN q = 1 .. n /\ \A e \in ToSet(q) : \E i \in 1 .. n : e = q[i]
<1>1. DOMAIN q = 1 .. n /\ Len(q) = n
    <2> DEFINE At(i) == q[i]
    <2>1. q = [i \in 1 .. n |-> At(i)]
        OBVIOUS
    <2> HIDE DEF At
    <2> QED
        BY <2>1
<1>2. \A i \in 1 .. n : q[i] \in ToSet(q)
    BY <1>1 DEF ToSet
<1>3. q \in Seq(ToSet(q))
    BY <1>1, <1>2
<1> QED
    BY <1>1, <1>3 DEF IsSequence, ToSet

\* The positions of a list.
LEMMA ListParts ==
    ASSUME NEW q, IsSequence(q)
    PROVE  Len(q) \in Nat /\ DOMAIN q = 1 .. Len(q) /\ \A i \in 1 .. Len(q) : q[i] \in ToSet(q)
    BY SeqShape DEF IsSequence

\* Lists put together have the members of the lists.
LEMMA FlattenList ==
    ASSUME NEW seqs, IsSequence(seqs), \A q \in ToSet(seqs) : IsSequence(q)
    PROVE  IsSequence(FlattenSeq(seqs)) /\ \A e \in ToSet(FlattenSeq(seqs)) : \E q \in ToSet(seqs) : e \in ToSet(q)
<1> DEFINE U == UNION {ToSet(q) : q \in ToSet(seqs)}
<1>1. ASSUME NEW q \in ToSet(seqs) PROVE q \in Seq(U)
    <2>1. ToSet(q) \subseteq U
        OBVIOUS
    <2> HIDE DEF U
    <2>2. q \in Seq(ToSet(q))
        BY DEF IsSequence
    <2> QED
        BY <2>1, <2>2
<1>2. seqs \in Seq(Seq(U))
    <2> HIDE DEF U
    <2>1. seqs \in Seq(ToSet(seqs)) /\ ToSet(seqs) \subseteq Seq(U)
        BY <1>1 DEF IsSequence
    <2> QED
        BY <2>1
<1>3. FlattenSeq(seqs) \in Seq(U)
    <2> HIDE DEF U
    <2> QED
        BY <1>2, FlattenIn
<1>4. IsSequence(FlattenSeq(seqs)) /\ ToSet(FlattenSeq(seqs)) \subseteq U
    <2> HIDE DEF U
    <2> QED
        BY <1>3, ListOver
<1> QED
    BY <1>4

\* A list one after the other.
LEMMA JoinList ==
    ASSUME NEW p, NEW q, IsSequence(p), IsSequence(q)
    PROVE  IsSequence(p \o q) /\ ToSet(p \o q) \subseteq ToSet(p) \cup ToSet(q)
<1> DEFINE U == ToSet(p) \cup ToSet(q)
<1>1. p \in Seq(U) /\ q \in Seq(U)
    <2>1. ToSet(p) \subseteq U /\ ToSet(q) \subseteq U /\ p \in Seq(ToSet(p)) /\ q \in Seq(ToSet(q))
        BY DEF IsSequence
    <2> HIDE DEF U
    <2> QED
        BY <2>1
<1>2. p \o q \in Seq(U)
    <2> HIDE DEF U
    <2> QED
        BY <1>1
<1> QED
    BY <1>2, ListOver

(***************************************************************************)
(* Folds.  They take off the greatest member of a set of positions.        *)
(***************************************************************************)
\* The greatest of a set of positions, and what is left without it.
LEMMA Greatest ==
    ASSUME NEW n \in Nat, NEW s \in SUBSET (1 .. n), s # {}
    PROVE  Max(s) \in s /\ s \ {Max(s)} \in SUBSET (1 .. n - 1)
<1>1. \E m \in s : \A p \in s : p <= m
    <2>1. 1 \in Int /\ n \in Int
        OBVIOUS
    <2> QED
        BY <2>1, GreatestNumber
<1>2. \E m \in s : \A p \in s : m >= p
    <2>1. \A p, m \in s : p <= m => m >= p
        OBVIOUS
    <2> QED
        BY <1>1, <2>1
<1>3. Max(s) = CHOOSE m \in s : \A p \in s : m >= p
    BY DEF Max
<1>4. Max(s) \in s /\ \A p \in s : Max(s) >= p
    BY <1>2, <1>3
<1>5. \A p \in s : p \in Int /\ 1 <= p /\ p <= n
    OBVIOUS
<1> DEFINE x == Max(s)
<1> HIDE DEF x
<1>6. x \in s /\ \A p \in s : x >= p
    BY <1>4 DEF x
<1>7. ASSUME NEW p \in s, p # x PROVE p \in 1 .. n - 1
    <2>1. p \in Int /\ x \in Int /\ x <= n /\ x >= p /\ 1 <= p
        BY <1>5, <1>6
    <2> QED
        BY <1>7, <2>1
<1> QED
    BY <1>6, <1>7 DEF x

\* What a fold yields is what its steps keep.
LEMMA FoldKeeps ==
    ASSUME NEW n \in Nat, NEW V, NEW g, g[{}] \in V[{}],
           \A s \in SUBSET (1 .. n) : s # {} /\ g[s \ {Max(s)}] \in V[s \ {Max(s)}] => g[s] \in V[s]
    PROVE  \A s \in SUBSET (1 .. n) : g[s] \in V[s]
<1> DEFINE Kept(m) == \A s \in SUBSET (1 .. m) : g[s] \in V[s]
           Bad == {m \in 0 .. n : ~Kept(m)}
<1>1. Kept(0)
    <2>1. \A s \in SUBSET (1 .. 0) : s = {}
        OBVIOUS
    <2> QED
        BY <2>1
<1>2. ASSUME NEW m \in 1 .. n, Kept(m - 1) PROVE Kept(m)
    <2>1. SUFFICES ASSUME NEW s \in SUBSET (1 .. m) PROVE g[s] \in V[s]
        OBVIOUS
    <2>2. CASE s = {}
        BY <2>2
    <2>3. CASE s # {}
        <3>1. s \ {Max(s)} \in SUBSET (1 .. m - 1)
            BY <2>3, Greatest
        <3>2. s \in SUBSET (1 .. n)
            OBVIOUS
        <3>3. g[s \ {Max(s)}] \in V[s \ {Max(s)}]
            BY <1>2, <3>1
        <3> QED
            BY <2>3, <3>2, <3>3
    <2> QED
        BY <2>2, <2>3
<1> HIDE DEF Kept
<1>3. Bad = {}
    <2>1. SUFFICES ASSUME Bad # {} PROVE FALSE
        OBVIOUS
    <2>2. PICK m \in Bad : \A p \in Bad : m <= p
        <3>1. n \in Int /\ 0 \in Int /\ Bad \in SUBSET (0 .. n)
            OBVIOUS
        <3> HIDE DEF Bad
        <3> QED
            BY <2>1, <3>1, LeastNumber
    <2>3. m \in 1 .. n /\ m - 1 \in 0 .. n /\ m - 1 \notin Bad
        BY <1>1, <2>2
    <2> QED
        BY <1>2, <2>2, <2>3
<1>4. Kept(n)
    <2>1. n \in 0 .. n /\ n \notin Bad
        BY <1>3
    <2> QED
        BY <2>1
<1> QED
    BY <1>4 DEF Kept

\* The equation of a fold, its step a function of the position and of the value so far.
IsFold(g, n, base, F) == g = [s \in SUBSET (1 .. n) |-> IF s = {} THEN base ELSE F[<<Max(s), g[s \ {Max(s)}]>>]]

\* There is such a fold: the equation of the library's definition has a solution.
LEMMA FoldExists ==
    ASSUME NEW n \in Nat, NEW base, NEW F
    PROVE  \E g : IsFold(g, n, base, F)
<1> DEFINE Eq(g, s) == g[s] = IF s = {} THEN base ELSE F[<<Max(s), g[s \ {Max(s)}]>>]
           Up(m) == \E g : DOMAIN g = SUBSET (1 .. m) /\ \A s \in SUBSET (1 .. m) : Eq(g, s)
           Bad == {m \in 0 .. n : ~Up(m)}
<1>1. Up(0)
    <2> DEFINE g == [s \in SUBSET (1 .. 0) |-> base]
    <2>1. \A s \in SUBSET (1 .. 0) : s = {} /\ g[s] = base
        OBVIOUS
    <2>2. DOMAIN g = SUBSET (1 .. 0)
        OBVIOUS
    <2> HIDE DEF g
    <2>3. \A s \in SUBSET (1 .. 0) : Eq(g, s)
        BY <2>1
    <2> QED
        BY <2>2, <2>3
<1>2. ASSUME NEW m \in 1 .. n, Up(m - 1) PROVE Up(m)
    <2>1. PICK g : DOMAIN g = SUBSET (1 .. m - 1) /\ \A s \in SUBSET (1 .. m - 1) : Eq(g, s)
        BY <1>2
    <2> DEFINE h == [s \in SUBSET (1 .. m) |->
                        IF s \in SUBSET (1 .. m - 1) THEN g[s] ELSE F[<<Max(s), g[s \ {Max(s)}]>>]]
    <2>2. DOMAIN h = SUBSET (1 .. m)
        OBVIOUS
    <2>3. ASSUME NEW s \in SUBSET (1 .. m) PROVE Eq(h, s)
        <3>1. CASE s = {}
            <4>1. s \in SUBSET (1 .. m - 1) /\ h[s] = g[s] /\ g[s] = base
                BY <2>1, <3>1
            <4> HIDE DEF h
            <4> QED
                BY <3>1, <4>1
        <3>2. CASE s # {}
            <4> DEFINE r == s \ {Max(s)}
            <4>2. r \in SUBSET (1 .. m - 1)
                BY <3>2, Greatest
            <4>3. h[r] = g[r]
                <5>1. r \in SUBSET (1 .. m)
                    OBVIOUS
                <5> HIDE DEF r
                <5> QED
                    BY <4>2, <5>1
            <4>4. s \in SUBSET (1 .. m - 1) => g[s] = F[<<Max(s), g[r]>>]
                BY <2>1, <3>2
            <4>5. h[s] = F[<<Max(s), g[r]>>]
                BY <4>4
            <4> HIDE DEF h
            <4> QED
                BY <3>2, <4>3, <4>5
        <3> QED
            BY <3>1, <3>2
    <2> HIDE DEF h
    <2> QED
        BY <2>2, <2>3
<1> HIDE DEF Up
<1>3. Bad = {}
    <2>1. SUFFICES ASSUME Bad # {} PROVE FALSE
        OBVIOUS
    <2>2. PICK m \in Bad : \A p \in Bad : m <= p
        <3>1. n \in Int /\ 0 \in Int /\ Bad \in SUBSET (0 .. n)
            OBVIOUS
        <3> HIDE DEF Bad
        <3> QED
            BY <2>1, <3>1, LeastNumber
    <2>3. m \in 1 .. n /\ m - 1 \in 0 .. n /\ m - 1 \notin Bad
        BY <1>1, <2>2
    <2> QED
        BY <1>2, <2>2, <2>3
<1>4. Up(n)
    <2>1. n \in 0 .. n /\ n \notin Bad
        BY <1>3
    <2> QED
        BY <2>1
<1>5. PICK h : DOMAIN h = SUBSET (1 .. n) /\ \A s \in SUBSET (1 .. n) : Eq(h, s)
    BY <1>4 DEF Up
<1> DEFINE g == [s \in SUBSET (1 .. n) |-> h[s]]
<1>6. ASSUME NEW s \in SUBSET (1 .. n) PROVE g[s] = IF s = {} THEN base ELSE F[<<Max(s), g[s \ {Max(s)}]>>]
    BY <1>5
<1>7. g = [s \in SUBSET (1 .. n) |-> IF s = {} THEN base ELSE F[<<Max(s), g[s \ {Max(s)}]>>]]
    BY <1>6
<1>8. IsFold(g, n, base, F)
    BY <1>7 DEF IsFold
<1> QED
    BY <1>8

\* A fold with steps that keep V.
LEMMA FoldMeets ==
    ASSUME NEW n \in Nat, NEW base, NEW F, NEW V, base \in V[{}],
           \A s \in SUBSET (1 .. n) : s # {} => \A v \in V[s \ {Max(s)}] : F[<<Max(s), v>>] \in V[s]
    PROVE  \E g : /\ IsFold(g, n, base, F)
                  /\ \A s \in SUBSET (1 .. n) : g[s] \in V[s]
<1>1. PICK g : IsFold(g, n, base, F)
    BY FoldExists
<1>2. \A s \in SUBSET (1 .. n) : g[s] = IF s = {} THEN base ELSE F[<<Max(s), g[s \ {Max(s)}]>>]
    BY <1>1 DEF IsFold
<1>3. {} \in SUBSET (1 .. n) /\ g[{}] \in V[{}]
    BY <1>2
<1>4. ASSUME NEW s \in SUBSET (1 .. n), s # {}, g[s \ {Max(s)}] \in V[s \ {Max(s)}] PROVE g[s] \in V[s]
    BY <1>2, <1>4
<1>5. \A s \in SUBSET (1 .. n) : g[s] \in V[s]
    BY <1>3, <1>4, FoldKeeps
<1> QED
    BY <1>1, <1>5

\* One list after the other.
LEMMA Joined ==
    ASSUME NEW S, NEW p \in Seq(S), NEW q \in Seq(S)
    PROVE  /\ p \o q \in Seq(S) /\ Len(p \o q) = Len(p) + Len(q)
           /\ \A i \in 1 .. Len(p) : (p \o q)[i] = p[i]
           /\ \A j \in 1 .. Len(q) : (p \o q)[Len(p) + j] = q[j]
<1>1. Len(p \o q) = Len(p) + Len(q)
    OBVIOUS
<1>2. p \o q \in Seq(S)
    OBVIOUS
<1>3. \A i \in 1 .. Len(p) : (p \o q)[i] = p[i]
    OBVIOUS
<1>4. \A j \in 1 .. Len(q) : (p \o q)[Len(p) + j] = q[j]
    OBVIOUS
<1> QED
    BY <1>1, <1>2, <1>3, <1>4

\* What joining one list after the other keeps, lists put together have.
LEMMA FlattenKeeps ==
    ASSUME NEW S, NEW seqs \in Seq(Seq(S)), Len(seqs) # 0, NEW V, seqs[1] \in V,
           \A i \in 2 .. Len(seqs) : \A p \in V : p \o seqs[i] \in V
    PROVE  FlattenSeq(seqs) \in V
<1> DEFINE n == Len(seqs)
           g == CHOOSE g : g = [i \in 1 .. n |-> IF i = 1 THEN seqs[i] ELSE g[i - 1] \o seqs[i]]
           Bad == {i \in 1 .. n : g[i] \notin V}
<1>1. g = [i \in 1 .. n |-> IF i = 1 THEN seqs[i] ELSE g[i - 1] \o seqs[i]]
    BY FlattenExists
<1>2. FlattenSeq(seqs) = g[n]
    BY DEF FlattenSeq
<1>3. n \in Nat \ {0}
    OBVIOUS
<1> HIDE DEF g
<1>4. \A i \in 1 .. n : g[i] = IF i = 1 THEN seqs[i] ELSE g[i - 1] \o seqs[i]
    BY <1>1
<1>5. Bad = {}
    <2>1. SUFFICES ASSUME Bad # {} PROVE FALSE
        OBVIOUS
    <2>2. PICK m \in Bad : \A p \in Bad : m <= p
        <3>1. n \in Int /\ 1 \in Int /\ Bad \in SUBSET (1 .. n)
            BY <1>3
        <3> HIDE DEF Bad, n
        <3> QED
            BY <2>1, <3>1, LeastNumber
    <2>3. m \in 2 .. n /\ m - 1 \in 1 .. n /\ m - 1 \notin Bad
        BY <1>3, <1>4, <2>2
    <2>4. g[m - 1] \in V /\ g[m] = g[m - 1] \o seqs[m]
        BY <1>3, <1>4, <2>3
    <2>5. g[m] \in V
        BY <2>3, <2>4
    <2> QED
        BY <2>2, <2>5
<1> QED
    BY <1>2, <1>3, <1>5

\* Lists over a set, one after the other: position off[k] + j is position j of list k.
LEMMA FlattenAt ==
    ASSUME NEW S, NEW seqs \in Seq(Seq(S)), Len(seqs) # 0, NEW off, off[1] = 0,
           \A k \in 1 .. Len(seqs) : off[k] \in Nat /\ off[k + 1] = off[k] + Len(seqs[k])
    PROVE  /\ Len(FlattenSeq(seqs)) = off[Len(seqs) + 1]
           /\ \A k \in 1 .. Len(seqs) : \A j \in 1 .. Len(seqs[k]) : FlattenSeq(seqs)[off[k] + j] = seqs[k][j]
<1> DEFINE n == Len(seqs)
           g == CHOOSE g : g = [i \in 1 .. n |-> IF i = 1 THEN seqs[i] ELSE g[i - 1] \o seqs[i]]
           Good(m) == /\ g[m] \in Seq(S) /\ Len(g[m]) = off[m + 1]
                      /\ \A k \in 1 .. m : /\ off[k] + Len(seqs[k]) <= off[m + 1]
                                           /\ \A j \in 1 .. Len(seqs[k]) : g[m][off[k] + j] = seqs[k][j]
           Bad == {i \in 1 .. n : ~Good(i)}
<1>1. g = [i \in 1 .. n |-> IF i = 1 THEN seqs[i] ELSE g[i - 1] \o seqs[i]]
    BY FlattenExists
<1>2. FlattenSeq(seqs) = g[n]
    BY DEF FlattenSeq
<1>3. n \in Nat \ {0} /\ \A i \in 1 .. n : seqs[i] \in Seq(S) /\ Len(seqs[i]) \in Nat
    OBVIOUS
<1> HIDE DEF g, n
<1>4. \A i \in 1 .. n : g[i] = IF i = 1 THEN seqs[i] ELSE g[i - 1] \o seqs[i]
    BY <1>1
<1>5. \A k \in 1 .. n : off[k] \in Nat /\ off[k + 1] = off[k] + Len(seqs[k]) /\ off[k + 1] \in Nat
    BY <1>3 DEF n
<1>6. Good(1)
    <2>1. 1 \in 1 .. n
        BY <1>3
    <2>2. g[1] = seqs[1] /\ seqs[1] \in Seq(S) /\ off[1 + 1] = 0 + Len(seqs[1]) /\ Len(seqs[1]) \in Nat
        BY <1>3, <1>4, <1>5, <2>1
    <2>3. \A k \in 1 .. 1 : k = 1
        OBVIOUS
    <2>4. \A j \in 1 .. Len(seqs[1]) : 0 + j = j
        OBVIOUS
    <2> QED
        BY <2>2, <2>3, <2>4
<1>7. ASSUME NEW m \in 2 .. n, Good(m - 1) PROVE Good(m)
    <2>1. m \in 1 .. n /\ m - 1 \in 1 .. n /\ (m - 1) + 1 = m /\ m # 1
        BY <1>3
    <2> DEFINE p == g[m - 1]
               q == seqs[m]
               x == off[m]
    <2>2. g[m] = p \o q /\ p \in Seq(S) /\ q \in Seq(S) /\ Len(p) = x /\ off[m + 1] = x + Len(q)
          /\ x \in Nat /\ Len(q) \in Nat
        BY <1>3, <1>4, <1>5, <1>7, <2>1
    <2> DEFINE y == off[m + 1]
               len == Len(q)
    <2>8. x \in Nat /\ len \in Nat /\ y = x + len
        BY <2>2
    <2>3. ASSUME NEW k \in 1 .. m - 1
          PROVE  /\ off[k] + Len(seqs[k]) <= off[m + 1]
                 /\ \A j \in 1 .. Len(seqs[k]) : g[m][off[k] + j] = seqs[k][j]
        <3>1. off[k] + Len(seqs[k]) <= x /\ (\A j \in 1 .. Len(seqs[k]) : p[off[k] + j] = seqs[k][j])
            BY <1>7, <2>1
        <3>2. k \in 1 .. n /\ off[k] \in Nat /\ Len(seqs[k]) \in Nat
            BY <1>3, <1>5, <2>1
        <3> DEFINE u == off[k]
                   v == Len(seqs[k])
        <3>5. u \in Nat /\ v \in Nat /\ u + v <= x
            BY <3>1, <3>2
        <3>3. ASSUME NEW j \in 1 .. Len(seqs[k]) PROVE g[m][off[k] + j] = p[off[k] + j]
            <4> DEFINE i == u + j
            <4>1. i \in 1 .. x
                <5>1. j \in 1 .. v
                    OBVIOUS
                <5> HIDE DEF u, v, x, y, len
                <5> QED
                    BY <2>8, <3>5, <5>1
            <4>2. (p \o q)[i] = p[i]
                <5> HIDE DEF i, p, q, x
                <5> QED
                    BY <2>2, <4>1
            <4> HIDE DEF p, q
            <4> QED
                BY <2>2, <4>2
        <3>4. u + v <= y
            <4> HIDE DEF u, v, x, y, len
            <4> QED
                BY <2>8, <3>5
        <3> QED
            BY <3>1, <3>3, <3>4
    <2>4. ASSUME NEW j \in 1 .. Len(q) PROVE g[m][x + j] = q[j]
        <3> HIDE DEF p, q, x
        <3>1. x + j \in 1 .. x + Len(q) /\ (x + j) - x = j /\ ~(x + j <= x)
            BY <2>2
        <3> QED
            BY <2>2, <3>1
    <2>5. g[m] \in Seq(S) /\ Len(g[m]) = off[m + 1]
        <3> HIDE DEF p, q, x
        <3>1. p \o q \in Seq(S) /\ Len(p \o q) = Len(p) + Len(q)
            BY <2>2, Joined
        <3> QED
            BY <2>2, <3>1
    <2>6. \A k \in 1 .. m : k \in 1 .. m - 1 \/ k = m
        BY <2>1
    <2>7. x + len <= y
        <3> HIDE DEF x, y, len
        <3> QED
            BY <2>8
    <2> HIDE DEF p
    <2> QED
        BY <2>3, <2>4, <2>5, <2>6, <2>7
<1> HIDE DEF Good
<1>8. Bad = {}
    <2>1. SUFFICES ASSUME Bad # {} PROVE FALSE
        OBVIOUS
    <2>2. PICK m \in Bad : \A p \in Bad : m <= p
        <3>1. n \in Int /\ 1 \in Int /\ Bad \in SUBSET (1 .. n)
            BY <1>3
        <3> HIDE DEF Bad
        <3> QED
            BY <2>1, <3>1, LeastNumber
    <2>3. m \in 2 .. n /\ m - 1 \in 1 .. n /\ m - 1 \notin Bad
        BY <1>3, <1>6, <2>2
    <2>4. Good(m)
        BY <1>7, <2>3
    <2> QED
        BY <2>2, <2>4
<1>9. Good(n)
    BY <1>3, <1>8
<1> QED
    BY <1>2, <1>3, <1>9 DEF Good, n

\* Every position lies in one of the lists.
LEMMA ListOfPosition ==
    ASSUME NEW n \in Nat \ {0}, NEW off, off[1] = 0, \A k \in 1 .. n + 1 : off[k] \in Nat, NEW i \in 1 .. off[n + 1]
    PROVE  \E k \in 1 .. n : off[k] < i /\ i <= off[k + 1]
<1> DEFINE S == {k \in 1 .. n : i <= off[k + 1]}
<1>1. n \in S /\ i \in Nat /\ i > 0
    OBVIOUS
<1>2. PICK k \in S : \A p \in S : k <= p
    <2>1. n \in Int /\ 1 \in Int /\ S \in SUBSET (1 .. n)
        OBVIOUS
    <2> HIDE DEF S
    <2> QED
        BY <1>1, <2>1, LeastNumber
<1>3. k \in 1 .. n /\ i <= off[k + 1] /\ k \in 1 .. n + 1 /\ off[k] \in Nat
    BY <1>2
<1>4. off[k] < i
    <2>1. CASE k = 1
        BY <1>1, <2>1
    <2>2. CASE k # 1
        <3>1. k - 1 \in 1 .. n /\ (k - 1) + 1 = k /\ k - 1 \notin S
            BY <1>2, <1>3, <2>2
        <3>2. ~(i <= off[k])
            BY <3>1
        <3> QED
            BY <1>1, <1>3, <3>2
    <2> QED
        BY <2>1, <2>2
<1> QED
    BY <1>3, <1>4

\* One list after the other, position by position.
LEMMA JoinAt ==
    ASSUME NEW p, NEW q, IsSequence(p), IsSequence(q)
    PROVE  /\ IsSequence(p \o q) /\ Len(p) \in Nat /\ Len(q) \in Nat /\ Len(p \o q) = Len(p) + Len(q)
           /\ \A i \in 1 .. Len(p) : (p \o q)[i] = p[i]
           /\ \A j \in 1 .. Len(q) : (p \o q)[Len(p) + j] = q[j]
<1> DEFINE U == ToSet(p) \cup ToSet(q)
<1>1. p \in Seq(U) /\ q \in Seq(U)
    <2>1. ToSet(p) \subseteq U /\ ToSet(q) \subseteq U /\ p \in Seq(ToSet(p)) /\ q \in Seq(ToSet(q))
        BY DEF IsSequence
    <2> HIDE DEF U
    <2> QED
        BY <2>1
<1>2. IsSequence(p \o q) /\ Len(p) \in Nat /\ Len(q) \in Nat
    BY JoinList, ListParts
<1> HIDE DEF U
<1>3. /\ Len(p \o q) = Len(p) + Len(q)
      /\ \A i \in 1 .. Len(p) : (p \o q)[i] = p[i]
      /\ \A j \in 1 .. Len(q) : (p \o q)[Len(p) + j] = q[j]
    BY <1>1, Joined
<1> QED
    BY <1>2, <1>3

\* Lists, as lists over one set.
LEMMA ListsOver ==
    ASSUME NEW n \in Nat, NEW seqs, seqs = [i \in 1 .. n |-> seqs[i]], \A i \in 1 .. n : IsSequence(seqs[i])
    PROVE  \E S : seqs \in Seq(Seq(S)) /\ Len(seqs) = n /\ \A i \in 1 .. n : seqs[i] \in Seq(S)
<1> DEFINE U == UNION {ToSet(seqs[i]) : i \in 1 .. n}
<1>1. ASSUME NEW i \in 1 .. n PROVE seqs[i] \in Seq(U)
    <2>1. ToSet(seqs[i]) \subseteq U
        OBVIOUS
    <2>2. seqs[i] \in Seq(ToSet(seqs[i]))
        BY DEF IsSequence
    <2> HIDE DEF U
    <2> QED
        BY <2>1, <2>2
<1> HIDE DEF U
<1>2. Len(seqs) = n
    BY ListMade
<1>3. seqs \in Seq(Seq(U))
    BY <1>1
<1> QED
    BY <1>1, <1>2, <1>3

\* No lists at all.
LEMMA FlattenNone ==
    ASSUME NEW seqs, seqs = [i \in 1 .. 0 |-> seqs[i]]
    PROVE  FlattenSeq(seqs) = <<>>
<1>1. seqs = <<>> /\ Len(<<>>) = 0
    <2>1. 1 .. 0 = {}
        OBVIOUS
    <2>2. seqs = [i \in {} |-> seqs[i]]
        BY <2>1
    <2> QED
        BY <2>2
<1> QED
    BY <1>1 DEF FlattenSeq
=============================================================================
