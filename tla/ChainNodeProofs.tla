-------------------------- MODULE ChainNodeProofs --------------------------
(***************************************************************************)
(* A chain node and its feeder.  First the programs: every command the     *)
(* tilers, the cut into rows and the golden scripts make fits the memories *)
(* of the node that runs it.  Then the nodes: whatever such programs they  *)
(* run, the loader stays out of the words the sequencer has yet to read.   *)
(* At last what the programs touch: every part a node runs has a shape     *)
(* that tells where the writer and the loader are, so what it reads and    *)
(* writes lies in the ranges the dependence tracker has for it.            *)
(***************************************************************************)
EXTENDS ChainNode, NumberLemmas

(***************************************************************************)
(* Lists of commands.                                                      *)
(***************************************************************************)
\* The members of a finite set of numbers, in order, are its members, each with as
\* many less ones as come before it.
LEMMA InOrderRank ==
    ASSUME NEW S \in SUBSET Int, IsFiniteSet(S)
    PROVE  /\ Cardinality(S) \in Nat /\ InOrder(S) \in Seq(S) /\ Len(InOrder(S)) = Cardinality(S)
           /\ \A k \in 1 .. Cardinality(S) :
                InOrder(S)[k] \in S /\ Cardinality({y \in S : y < InOrder(S)[k]}) = k - 1
<1> DEFINE n == Cardinality(S)
           Below(x) == {y \in S : y < x}
           f == [x \in S |-> Cardinality(Below(x))]
           I == 0 .. n - 1
<1>1. n \in Nat /\ IsFiniteSet(I) /\ Cardinality(I) = n
    <2>1. n \in Nat
        BY FS_CardinalityType
    <2> HIDE DEF n
    <2> QED
        BY <2>1, FS_Interval
<1>2. ASSUME NEW x \in S PROVE IsFiniteSet(Below(x)) /\ f[x] \in I
    <2>1. IsFiniteSet(Below(x)) /\ IsFiniteSet(S \ {x}) /\ Cardinality(S \ {x}) = n - 1
        BY FS_Subset, FS_RemoveElement
    <2>2. Below(x) \subseteq S \ {x}
        OBVIOUS
    <2>3. Cardinality(Below(x)) <= n - 1 /\ Cardinality(Below(x)) \in Nat
        BY <2>1, <2>2, FS_Subset, FS_CardinalityType
    <2> HIDE DEF Below
    <2> QED
        BY <1>1, <2>1, <2>3
<1>3. ASSUME NEW x \in S, NEW z \in S, x < z PROVE f[x] # f[z]
    <2>1. Below(x) \subseteq Below(z) /\ x \in Below(z) /\ x \notin Below(x)
        <3>1. x \in Int /\ z \in Int /\ \A y \in S : y \in Int
            OBVIOUS
        <3>2. \A y \in S : y < x => y < z
            BY <1>3, <3>1
        <3>3. ~(x < x)
            BY <3>1
        <3> QED
            BY <1>3, <3>2, <3>3, Zenon
    <2>2. Below(x) # Below(z)
        BY <2>1
    <2> HIDE DEF Below
    <2>3. Cardinality(Below(x)) # Cardinality(Below(z))
        BY <1>2, <2>1, <2>2, FS_Subset
    <2> QED
        BY <2>3
<1>4. f \in Injection(S, I)
    <2>1. \A x, z \in S : x # z => x < z \/ z < x
        OBVIOUS
    <2>2. f \in [S -> I]
        BY <1>2
    <2> HIDE DEF f
    <2>3. \A x, z \in S : f[x] = f[z] => x = z
        BY <1>3, <2>1
    <2> QED
        BY <2>2, <2>3 DEF Injection, IsInjective
<1>5. f \in Surjection(S, I)
    <2> HIDE DEF f, I, n
    <2> QED
        BY <1>1, <1>4, FS_Injection DEF n
<1>6. ASSUME NEW k \in 1 .. n PROVE InOrder(S)[k] \in S /\ Cardinality({y \in S : y < InOrder(S)[k]}) = k - 1
    <2>1. k - 1 \in I
        BY <1>1
    <2>2. \E x \in S : f[x] = k - 1
        <3> HIDE DEF f, I
        <3> QED
            BY <1>5, <2>1 DEF Surjection
    <2>3. \E x \in S : Cardinality({y \in S : y < x}) = k - 1
        BY <2>2
    <2>4. InOrder(S)[k] = CHOOSE x \in S : Cardinality({y \in S : y < x}) = k - 1
        BY DEF InOrder
    <2> QED
        BY <2>3, <2>4
<1>7. InOrder(S) = [k \in 1 .. n |-> InOrder(S)[k]] /\ Len(InOrder(S)) = n
    <2>1. InOrder(S) = [k \in 1 .. n |-> CHOOSE x \in S : Cardinality({y \in S : y < x}) = k - 1]
        BY DEF InOrder
    <2> DEFINE At(k) == CHOOSE x \in S : Cardinality({y \in S : y < x}) = k - 1
    <2>2. InOrder(S) = [k \in 1 .. n |-> At(k)]
        BY <2>1
    <2> HIDE DEF n, At
    <2> QED
        BY <1>1, <2>2
<1> HIDE DEF n
<1>12. \A k \in 1 .. n : InOrder(S)[k] \in S
    BY <1>6
<1>8. InOrder(S) \in Seq(S)
    BY <1>1, <1>12, <1>7
<1>9. \A k \in 1 .. n : InOrder(S)[k] \in S /\ Cardinality({y \in S : y < InOrder(S)[k]}) = k - 1
    BY <1>6
<1>10. \A k \in 1 .. Cardinality(S) : InOrder(S)[k] \in S /\ Cardinality({y \in S : y < InOrder(S)[k]}) = k - 1
    BY ONLY <1>9 DEF n
<1>11. Cardinality(S) \in Nat /\ InOrder(S) \in Seq(S) /\ Len(InOrder(S)) = Cardinality(S)
    BY <1>1, <1>7, <1>8 DEF n
<1> QED
    BY <1>10, <1>11, Zenon

\* They make up a list.
LEMMA InOrderIn ==
    ASSUME NEW S \in SUBSET Int, IsFiniteSet(S)
    PROVE  Cardinality(S) \in Nat /\ InOrder(S) \in Seq(S) /\ Len(InOrder(S)) = Cardinality(S)
BY InOrderRank

\* A list of commands that fit.
Program(words) == IsSequence(words) /\ \A e \in ToSet(words) : Fits(e)

\* Commands that fit, one after the other.
LEMMA ProgramMade ==
    ASSUME NEW n \in Nat, NEW q, q = [i \in 1 .. n |-> q[i]], \A i \in 1 .. n : Fits(q[i])
    PROVE  Program(q)
<1>1. IsSequence(q) /\ \A e \in ToSet(q) : \E i \in 1 .. n : e = q[i]
    BY ListMade
<1> QED
    BY <1>1 DEF Program

\* One program after another.
LEMMA ProgramJoined ==
    ASSUME NEW p, NEW q, Program(p), Program(q)
    PROVE  Program(p \o q)
    BY JoinList DEF Program

\* So many programs, one after the other.
LEMMA ProgramsJoined ==
    ASSUME NEW n \in Nat, NEW seqs, seqs = [i \in 1 .. n |-> seqs[i]], \A i \in 1 .. n : Program(seqs[i])
    PROVE  Program(FlattenSeq(seqs))
<1>1. IsSequence(seqs) /\ \A q \in ToSet(seqs) : \E i \in 1 .. n : q = seqs[i]
    BY ListMade
<1>2. \A q \in ToSet(seqs) : Program(q)
    BY <1>1
<1>3. IsSequence(FlattenSeq(seqs)) /\ \A e \in ToSet(FlattenSeq(seqs)) : \E q \in ToSet(seqs) : e \in ToSet(q)
    BY <1>1, <1>2, FlattenList DEF Program
<1> QED
    BY <1>2, <1>3 DEF Program

\* What is neither a tile nor a group always fits.
LEMMA OthersFit ==
    /\ \A base, blk, gap : Fits(Out(base, blk, gap))
    /\ \A base, first, nreg, nwords : Fits(Load(base, first, nreg, nwords))
    /\ \A base, first, nreg, nwords, nsegs, segStep, tgtStep : Fits(LoadX(base, first, nreg, nwords, nsegs, segStep, tgtStep))
    /\ Fits(Flush)
<1>1. \A base, blk, gap : Out(base, blk, gap).op = "OUT"
    BY DEF Out
<1>2. \A base, first, nreg, nwords : Load(base, first, nreg, nwords).op = "LOAD"
    BY DEF Load, LoadX
<1>3. \A base, first, nreg, nwords, nsegs, segStep, tgtStep :
          LoadX(base, first, nreg, nwords, nsegs, segStep, tgtStep).op = "LOADX"
    BY DEF LoadX
<1>4. Flush.op = "FLUSH"
    BY DEF Flush
<1> QED
    BY <1>1, <1>2, <1>3, <1>4 DEF Fits

\* A command that fits, on its own.
LEMMA ProgramOfOne ==
    ASSUME NEW e, Fits(e)
    PROVE  Program(<<e>>)
<1> DEFINE q == <<e>>
<1>1. q = [i \in 1 .. 1 |-> q[i]] /\ \A i \in 1 .. 1 : q[i] = e
    OBVIOUS
<1> HIDE DEF q
<1>2. Program(q)
    BY <1>1, ProgramMade
<1> QED
    BY <1>2 DEF q

\* Two commands that fit.
LEMMA ProgramOfTwo ==
    ASSUME NEW e, NEW f, Fits(e), Fits(f)
    PROVE  Program(<<e, f>>)
<1> DEFINE q == <<e, f>>
<1>1. q = [i \in 1 .. 2 |-> q[i]] /\ \A i \in 1 .. 2 : q[i] \in {e, f}
    OBVIOUS
<1> HIDE DEF q
<1>2. Program(q)
    BY <1>1, ProgramMade
<1> QED
    BY <1>2 DEF q

\* A node may have nothing to do.
LEMMA ProgramOfNone == Program(<<>>)
<1> DEFINE q == <<>>
<1>1. q = [i \in 1 .. 0 |-> q[i]] /\ 0 \in Nat
    OBVIOUS
<1>2. \A i \in 1 .. 0 : Fits(q[i])
    OBVIOUS
<1> HIDE DEF q
<1>3. Program(q)
    BY <1>1, <1>2, ProgramMade
<1> QED
    BY <1>3 DEF q

(***************************************************************************)
(* Sums and shares.                                                        *)
(***************************************************************************)
\* A sum of positive numbers.
LEMMA TotalPositive ==
    ASSUME NEW q \in Seq(Nat \ {0}), Len(q) # 0
    PROVE  Total(q) \in Nat \ {0}
<1> DEFINE n == Len(q)
           V == [s \in SUBSET (1 .. n) |-> IF s = {} THEN {0} ELSE Nat \ {0}]
           F == [p \in (1 .. n) \X Nat |-> p[2] + q[p[1]]]
           Eq(g) == g = [s \in SUBSET (DOMAIN q) |-> IF s = {} THEN 0 ELSE g[s \ {Max(s)}] + q[Max(s)]]
           g == CHOOSE g : Eq(g)
<1>1. n \in Nat \ {0} /\ DOMAIN q = 1 .. n /\ \A i \in 1 .. n : q[i] \in Nat \ {0}
    OBVIOUS
<1>2. ASSUME NEW s \in SUBSET (1 .. n), s # {}
      PROVE  Max(s) \in 1 .. n /\ s \ {Max(s)} \in SUBSET (1 .. n)
    BY <1>1, <1>2, Greatest
<1>3. ASSUME NEW s \in SUBSET (1 .. n) PROVE V[s] \subseteq Nat /\ (s # {} => V[s] = Nat \ {0})
    <2>1. V[s] = IF s = {} THEN {0} ELSE Nat \ {0}
        OBVIOUS
    <2> HIDE DEF V
    <2>2. CASE s = {}
        BY <2>1, <2>2
    <2>3. CASE s # {}
        BY <2>1, <2>3
    <2> QED
        BY <2>2, <2>3
<1>4. V[{}] = {0}
    OBVIOUS
<1>5. ASSUME NEW s \in SUBSET (1 .. n), s # {}, NEW v \in V[s \ {Max(s)}]
      PROVE  F[<<Max(s), v>>] = v + q[Max(s)] /\ v + q[Max(s)] \in V[s]
    <2>1. v \in Nat /\ Max(s) \in 1 .. n /\ V[s] = Nat \ {0}
        BY <1>2, <1>3, <1>5
    <2>2. F[<<Max(s), v>>] = v + q[Max(s)]
        BY <2>1
    <2>3. v + q[Max(s)] \in Nat \ {0}
        BY <1>1, <2>1
    <2> QED
        BY <2>1, <2>2, <2>3
<1> HIDE DEF F, V
<1>6. \E h : Eq(h)
    <2>1. PICK h : /\ IsFold(h, n, 0, F)
                   /\ \A s \in SUBSET (1 .. n) : h[s] \in V[s]
        <3>1. ASSUME NEW s \in SUBSET (1 .. n), s # {}, NEW v \in V[s \ {Max(s)}] PROVE F[<<Max(s), v>>] \in V[s]
            BY <1>5, <3>1
        <3> QED
            BY <1>1, <1>4, <3>1, FoldMeets
    <2>2. ASSUME NEW s \in SUBSET (1 .. n), s # {}
          PROVE  F[<<Max(s), h[s \ {Max(s)}]>>] = h[s \ {Max(s)}] + q[Max(s)]
        BY <1>2, <1>5, <2>1, <2>2
    <2>3. h = [s \in SUBSET (DOMAIN q) |-> IF s = {} THEN 0 ELSE h[s \ {Max(s)}] + q[Max(s)]]
        BY <1>1, <2>1, <2>2 DEF IsFold
    <2> QED
        BY <2>3
<1>7. Eq(g)
    BY <1>6
<1>8. Total(q) = g[DOMAIN q]
    BY DEF Total, FoldLeft, MapThenFoldSet
<1> HIDE DEF g
<1>9. \A s \in SUBSET (1 .. n) : g[s] = IF s = {} THEN 0 ELSE g[s \ {Max(s)}] + q[Max(s)]
    BY <1>1, <1>7
<1>10. g[{}] \in V[{}]
    BY <1>4, <1>9
<1>11. ASSUME NEW s \in SUBSET (1 .. n), s # {}, g[s \ {Max(s)}] \in V[s \ {Max(s)}] PROVE g[s] \in V[s]
    BY <1>5, <1>9, <1>11
<1>12. \A s \in SUBSET (1 .. n) : g[s] \in V[s]
    BY <1>1, <1>10, <1>11, FoldKeeps
<1>13. 1 .. n # {} /\ 1 .. n \in SUBSET (1 .. n)
    BY <1>1
<1> QED
    BY <1>1, <1>3, <1>8, <1>12, <1>13

\* A product of the passes of the other depths.
LEMMA ProductPositive ==
    ASSUME NEW c, NEW d, DeepFirst(c) \in Seq(Nat), \A e \in Nat : Pass(c.W, e) \in Nat \ {0}
    PROVE  OtherPasses(c, d) \in Nat \ {0}
<1> DEFINE q == DeepFirst(c)
           W == c.W
           n == Len(q)
           N1 == Nat \ {0}
           V == [s \in SUBSET (1 .. n) |-> N1]
           Op(a, e) == IF e = d THEN a ELSE a * Pass(W, e)
           F == [p \in (1 .. n) \X N1 |-> Op(p[2], q[p[1]])]
           Eq(g) == g = [s \in SUBSET (DOMAIN q) |-> IF s = {} THEN 1 ELSE Op(g[s \ {Max(s)}], q[Max(s)])]
           g == CHOOSE g : Eq(g)
<1>1. n \in Nat /\ DOMAIN q = 1 .. n /\ \A i \in 1 .. n : q[i] \in Nat
    BY SeqShape
<1>2. ASSUME NEW s \in SUBSET (1 .. n), s # {}
      PROVE  Max(s) \in 1 .. n /\ s \ {Max(s)} \in SUBSET (1 .. n)
    BY <1>1, <1>2, Greatest
<1>3. \A s \in SUBSET (1 .. n) : V[s] = N1
    OBVIOUS
<1>4. 1 \in V[{}] /\ {} \in SUBSET (1 .. n)
    <2>1. {} \in SUBSET (1 .. n)
        BY Zenon
    <2>2. 1 \in N1
        OBVIOUS
    <2> HIDE DEF V, N1
    <2> QED
        BY <1>3, <2>1, <2>2
<1>5. ASSUME NEW s \in SUBSET (1 .. n), s # {}, NEW v \in V[s \ {Max(s)}]
      PROVE  F[<<Max(s), v>>] = Op(v, q[Max(s)]) /\ Op(v, q[Max(s)]) \in V[s]
    <2>1. v \in N1 /\ Max(s) \in 1 .. n /\ V[s] = N1
        BY <1>2, <1>3, <1>5
    <2>2. F[<<Max(s), v>>] = Op(v, q[Max(s)])
        BY <2>1
    <2>3. Op(v, q[Max(s)]) \in N1
        <3>1. Pass(W, q[Max(s)]) \in N1
            BY <1>1, <2>1
        <3> DEFINE u == Pass(W, q[Max(s)])
        <3>2. v * u \in N1
            <4>1. v \in Nat \ {0} /\ u \in Nat \ {0}
                BY <2>1, <3>1
            <4> HIDE DEF u
            <4> QED
                BY <4>1
        <3> QED
            BY <2>1, <3>2
    <2> QED
        BY <2>1, <2>2, <2>3
<1>8. OtherPasses(c, d) = g[DOMAIN q]
    BY DEF OtherPasses, FoldLeft, MapThenFoldSet
<1> HIDE DEF F, V, Op, W, q
<1>6. \E h : Eq(h)
    <2>1. PICK h : /\ IsFold(h, n, 1, F)
                   /\ \A s \in SUBSET (1 .. n) : h[s] \in V[s]
        <3>1. ASSUME NEW s \in SUBSET (1 .. n), s # {}, NEW v \in V[s \ {Max(s)}] PROVE F[<<Max(s), v>>] \in V[s]
            BY <1>5, <3>1
        <3> QED
            BY <1>1, <1>4, <3>1, FoldMeets
    <2>2. ASSUME NEW s \in SUBSET (1 .. n), s # {}
          PROVE  F[<<Max(s), h[s \ {Max(s)}]>>] = Op(h[s \ {Max(s)}], q[Max(s)])
        BY <1>2, <1>5, <2>1, <2>2
    <2>3. h = [s \in SUBSET (DOMAIN q) |-> IF s = {} THEN 1 ELSE Op(h[s \ {Max(s)}], q[Max(s)])]
        BY <1>1, <2>1, <2>2 DEF IsFold
    <2> QED
        BY <2>3
<1>7. Eq(g)
    BY <1>6
<1> HIDE DEF g
<1>9. \A s \in SUBSET (1 .. n) : g[s] = IF s = {} THEN 1 ELSE Op(g[s \ {Max(s)}], q[Max(s)])
    BY <1>1, <1>7
<1>10. g[{}] \in V[{}]
    BY <1>4, <1>9
<1>11. ASSUME NEW s \in SUBSET (1 .. n), s # {}, g[s \ {Max(s)}] \in V[s \ {Max(s)}] PROVE g[s] \in V[s]
    BY <1>5, <1>9, <1>11
<1>12. \A s \in SUBSET (1 .. n) : g[s] \in V[s]
    BY <1>1, <1>10, <1>11, FoldKeeps
<1> QED
    BY <1>1, <1>3, <1>8, <1>12

\* A quotient rounded up: no fewer than it takes, and none to spare.
LEMMA RoundedUp ==
    ASSUME NEW a \in Nat, NEW b \in Nat \ {0}
    PROVE  /\ UpDiv(a, b) \in Nat /\ a <= UpDiv(a, b) * b
           /\ (UpDiv(a, b) * b) - b < a \/ a = 0
           /\ a # 0 => UpDiv(a, b) # 0
<1> DEFINE x == a + b - 1
           u == x \div b
           r == x % b
           w == u * b
<1>1. x \in Nat /\ u \in Nat /\ r \in 0 .. b - 1 /\ x = w + r
    <2>1. x \in Nat
        OBVIOUS
    <2> HIDE DEF x
    <2> QED
        BY <2>1, DivMod
<1>2. w \in Nat
    BY <1>1
<1>3. UpDiv(a, b) = u
    BY DEF UpDiv
<1>4. u = 0 => w = 0
    OBVIOUS
<1> HIDE DEF u, r, w
<1>5. a <= w /\ (w - b < a \/ a = 0) /\ (a # 0 => w # 0)
    BY <1>1, <1>2
<1> QED
    BY <1>1, <1>2, <1>3, <1>4, <1>5 DEF w

\* A share of a total that has no more than so many parts of q.
LEMMA ShareFits ==
    ASSUME NEW total \in Nat, NEW parts \in Nat \ {0}, parts <= total, NEW q \in Nat, total <= parts * q,
           NEW i \in 0 .. parts - 1
    PROVE  Share(total, parts, i) \in Nat \ {0} /\ Share(total, parts, i) <= q
<1> DEFINE k == total \div parts
           r == total % parts
           m == Share(total, parts, i)
<1>1. k \in Nat /\ r \in 0 .. parts - 1 /\ total = (k * parts) + r
    BY DivMod
<1>2. m = k + (IF i < r THEN 1 ELSE 0)
    BY DEF Share
<1> HIDE DEF k, r, m
<1>3. k # 0
    <2>1. ASSUME k = 0 PROVE FALSE
        <3>1. k * parts = 0
            BY <2>1
        <3> QED
            BY <1>1, <3>1
    <2> QED
        BY <2>1
<1>4. ASSUME q < m PROVE FALSE
    <2>1. CASE i < r
        <3>1. q <= k
            BY <1>1, <1>2, <1>4, <2>1
        <3> DEFINE u == q * parts
                   v == k * parts
        <3>2. u <= v /\ u = parts * q
            BY <1>1, <3>1, TimesMonotone
        <3>3. u \in Nat /\ v \in Nat /\ total = v + r /\ total <= u
            BY <1>1, <3>2
        <3> HIDE DEF u, v
        <3> QED
            BY <1>1, <2>1, <3>2, <3>3
    <2>2. CASE ~(i < r)
        <3>1. q + 1 <= k
            BY <1>1, <1>2, <1>4, <2>2
        <3> DEFINE u == q * parts
                   v == k * parts
        <3>2. (q + 1) * parts <= v /\ (q + 1) * parts = u + (1 * parts) /\ u = parts * q
            BY <1>1, <3>1, TimesMonotone, Distribute
        <3>3. u \in Nat /\ v \in Nat /\ total = v + r /\ total <= u /\ 1 * parts = parts
            BY <1>1, <3>2
        <3> HIDE DEF u, v
        <3> QED
            BY <1>1, <3>2, <3>3
    <2> QED
        BY <2>1, <2>2
<1>5. m \in Nat \ {0}
    BY <1>1, <1>2, <1>3
<1> QED
    BY <1>4, <1>5 DEF m

\* The shares before one, and it, are no more than the total.
LEMMA SharesWithin ==
    ASSUME NEW total \in Nat, NEW parts \in Nat \ {0}, NEW i \in 0 .. parts - 1
    PROVE  /\ ShareStart(total, parts, i) \in Nat /\ Share(total, parts, i) \in Nat
           /\ ShareStart(total, parts, i) + Share(total, parts, i) <= total
<1> DEFINE k == total \div parts
           r == total % parts
           u == i * k
           v == parts * k
<1>1. k \in Nat /\ r \in 0 .. parts - 1 /\ total = v + r
    <2>1. k * parts = v
        BY DivMod
    <2> QED
        BY <2>1, DivMod
<1>2. u \in Nat /\ v \in Nat
    BY <1>1
<1>3. u + k <= v
    <2>1. (i + 1) * k <= parts * k /\ (i + 1) * k = (i * k) + (1 * k)
        BY <1>1, TimesMonotone, Distribute
    <2>2. 1 * k = k
        BY <1>1
    <2> QED
        BY <2>1, <2>2
<1>4. ShareStart(total, parts, i) = u + Least(i, r) /\ Share(total, parts, i) = k + (IF i < r THEN 1 ELSE 0)
    BY DEF ShareStart, Share
<1> HIDE DEF k, r, u, v
<1> QED
    BY <1>1, <1>2, <1>3, <1>4 DEF Least

(***************************************************************************)
(* The column tiles of the two tilers.                                     *)
(***************************************************************************)
\* The depths of a chain, the deep ones first.
LEMMA DepthsOf ==
    ASSUME NEW c \in Case
    PROVE  /\ c.nodes \in Seq(Nat \ {0}) /\ Len(c.nodes) # 0
           /\ Depths(c) \in SUBSET (Nat \ {0}) /\ IsFiniteSet(Depths(c)) /\ Depths(c) # {}
           /\ \A d \in Depths(c) : NodesOf(c, d) \in Nat \ {0}
           /\ DeepFirst(c) \in Seq(Depths(c)) /\ Len(DeepFirst(c)) # 0
<1> DEFINE D == Depths(c)
           q == c.nodes
           I == 1 .. Len(q)
<1>1. q \in Seq(Nat \ {0}) /\ q # <<>>
    BY CaseAssumption DEF CaseType
<1>2. Len(q) \in Nat \ {0} /\ DOMAIN q = I /\ \A i \in I : q[i] \in Nat \ {0}
    <2>1. Len(q) \in Nat /\ DOMAIN q = I /\ \A i \in I : q[i] \in Nat \ {0}
        BY <1>1, SeqShape
    <2>2. Len(q) # 0
        BY <1>1
    <2> QED
        BY <2>1, <2>2
<1>3. D = {q[i] : i \in I}
    BY <1>2 DEF Depths, ToSet
<1>4. D \in SUBSET (Nat \ {0}) /\ D # {}
    <2>1. 1 \in I
        BY <1>2
    <2>2. q[1] \in D
        BY <1>3, <2>1
    <2> HIDE DEF D
    <2> QED
        BY <1>2, <1>3, <2>2
<1>5. IsFiniteSet(I)
    BY <1>2, FS_Interval
<1>6. IsFiniteSet(D)
    <2>1. q \in [I -> D] /\ \A d \in D : \E i \in I : q[i] = d
        <3>1. q = [i \in I |-> q[i]]
            BY <1>1, <1>2
        <3> HIDE DEF D
        <3> QED
            BY <1>3, <3>1
    <2>2. q \in Surjection(I, D)
        BY <2>1 DEF Surjection
    <2> HIDE DEF I, D, q
    <2> QED
        BY <1>5, <2>2, FS_Surjection
<1>7. ASSUME NEW d \in D PROVE NodesOf(c, d) \in Nat \ {0}
    <2> DEFINE A == {n \in DOMAIN c.nodes : c.nodes[n] = d}
    <2>1. A \in SUBSET I /\ A # {}
        BY <1>2, <1>3
    <2>2. IsFiniteSet(A) /\ Cardinality(A) \in Nat /\ Cardinality(A) # 0
        <3> HIDE DEF A, I
        <3>1. IsFiniteSet(A)
            BY <1>5, <2>1, FS_Subset
        <3> QED
            BY <2>1, <3>1, FS_CardinalityType, FS_EmptySet
    <2> QED
        BY <2>2 DEF NodesOf
<1>8. InOrder(D) \in Seq(D) /\ Len(InOrder(D)) \in Nat \ {0}
    <2>1. D \in SUBSET Int
        BY <1>4
    <2> HIDE DEF D
    <2>2. InOrder(D) \in Seq(D) /\ Len(InOrder(D)) = Cardinality(D) /\ Cardinality(D) \in Nat
        BY <1>6, <2>1, InOrderIn
    <2>3. Cardinality(D) # 0
        BY <1>4, <1>6, FS_EmptySet
    <2> QED
        BY <2>2, <2>3
<1>9. DeepFirst(c) \in Seq(D) /\ Len(DeepFirst(c)) # 0
    <2> DEFINE s == InOrder(D)
               m == Len(s)
    <2>1. m \in Nat \ {0} /\ \A i \in 1 .. m : s[i] \in D
        BY <1>8, SeqShape
    <2>2. DeepFirst(c) = [i \in 1 .. m |-> s[(m - i) + 1]]
        BY DEF DeepFirst, Reverse
    <2> HIDE DEF s, m, D
    <2>3. \A i \in 1 .. m : (m - i) + 1 \in 1 .. m
        BY <2>1
    <2>4. \A i \in 1 .. m : s[(m - i) + 1] \in D
        BY <2>1, <2>3
    <2> QED
        BY <2>1, <2>2, <2>4
<1> QED
    BY <1>1, <1>2, <1>4, <1>6, <1>7, <1>9

\* Every depth has a rate.
LEMMA RatePositive ==
    ASSUME NEW c \in Case, NEW d \in Depths(c)
    PROVE  Rate(c, d) \in Nat \ {0}
<1> DEFINE f == OtherPasses(c, d)
<1>1. c.W \in Nat /\ MinPass \in Nat
    BY CaseAssumption DEF CaseType
<1>2. ASSUME NEW e \in Nat PROVE Pass(c.W, e) \in Nat \ {0}
    <2>1. c.W + 1 \in Int /\ e \in Int /\ MinPass \in Int
        BY <1>1
    <2>2. Max({c.W + 1, e, MinPass}) \in Int /\ Max({c.W + 1, e, MinPass}) >= c.W + 1
        BY <2>1, MaxOfThree
    <2> QED
        BY <1>1, <2>2 DEF Pass
<1>3. DeepFirst(c) \in Seq(Nat)
    <2>1. DeepFirst(c) \in Seq(Depths(c)) /\ Depths(c) \subseteq Nat
        BY DepthsOf
    <2> QED
        BY <2>1
<1>4. f \in Nat \ {0}
    BY <1>1, <1>2, <1>3, ProductPositive
<1>5. d \in Nat \ {0} /\ NodesOf(c, d) \in Nat \ {0}
    BY DepthsOf
<1>6. Rate(c, d) = (d * NodesOf(c, d)) * f
    BY DEF Rate
<1> HIDE DEF f
<1> DEFINE u == NodesOf(c, d)
           v == d * u
<1>7. v \in Nat \ {0}
    <2>1. u \in Nat \ {0}
        BY <1>5
    <2> HIDE DEF u
    <2> QED
        BY <1>5, <2>1
<1>8. v * f \in Nat \ {0}
    <2> HIDE DEF v
    <2> QED
        BY <1>4, <1>7
<1> QED
    BY <1>6, <1>8

\* The columns dealt to the classes: as many numbers as there are classes.
LEMMA SharesIn ==
    ASSUME NEW c \in Case, NEW cols \in Nat
    PROVE  Shares(c, cols) \in Seq(Nat) /\ Len(Shares(c, cols)) = Len(DeepFirst(c))
<1> DEFINE cls == DeepFirst(c)
           n == Len(cls)
           weight == Total([i \in DOMAIN cls |-> Rate(c, cls[i])])
           q == [i \in DOMAIN cls |-> i]
           start == [left |-> cols, got |-> <<>>]
           some(a, i) == IF i = Len(cls) THEN a.left
                         ELSE Least(a.left, (((cols * Rate(c, cls[i])) \div weight) \div cls[i]) * cls[i])
           take(a, i) == [left |-> a.left - some(a, i), got |-> Append(a.got, some(a, i))]
           A == [left : Nat, got : Seq(Nat)]
           V == [s \in SUBSET (1 .. n) |-> {a \in A : Len(a.got) = Cardinality(s)}]
           F == [p \in (1 .. n) \X A |-> take(p[2], q[p[1]])]
           Eq(g) == g = [s \in SUBSET (DOMAIN q) |-> IF s = {} THEN start ELSE take(g[s \ {Max(s)}], q[Max(s)])]
           g == CHOOSE g : Eq(g)
<1>1. n \in Nat \ {0} /\ DOMAIN cls = 1 .. n /\ \A i \in 1 .. n : cls[i] \in Nat \ {0} /\ cls[i] \in Depths(c)
    <2>1. cls \in Seq(Depths(c)) /\ n # 0 /\ Depths(c) \in SUBSET (Nat \ {0})
        BY DepthsOf
    <2>2. n \in Nat /\ DOMAIN cls = 1 .. n /\ \A i \in 1 .. n : cls[i] \in Depths(c)
        BY <2>1, SeqShape
    <2> HIDE DEF cls, n
    <2> QED
        BY <2>1, <2>2
<1>2. DOMAIN q = 1 .. n /\ \A i \in 1 .. n : q[i] = i
    BY <1>1
<1>3. Shares(c, cols) = g[DOMAIN q].got
    BY DEF Shares, FoldLeft, MapThenFoldSet
<1>4. weight \in Nat \ {0}
    <2> DEFINE r == [i \in DOMAIN cls |-> Rate(c, cls[i])]
    <2>1. \A i \in 1 .. n : Rate(c, cls[i]) \in Nat \ {0}
        BY <1>1, RatePositive
    <2>2. r = [i \in 1 .. n |-> Rate(c, cls[i])]
        BY <1>1
    <2>3. r \in Seq(Nat \ {0}) /\ Len(r) # 0
        <3> HIDE DEF r, n
        <3> QED
            BY <1>1, <2>1, <2>2
    <2> HIDE DEF r
    <2> QED
        BY <2>3, TotalPositive DEF r
<1> HIDE DEF weight
<1>5. ASSUME NEW a \in A, NEW i \in 1 .. n
      PROVE  take(a, i) \in A /\ Len(take(a, i).got) = Len(a.got) + 1
    <2> DEFINE m == some(a, i)
               d == cls[i]
               k == (cols * Rate(c, d)) \div weight
    <2>1. a.left \in Nat /\ a.got \in Seq(Nat)
        BY <1>5
    <2>2. k \in Nat
        <3> DEFINE R == Rate(c, d)
                   x == cols * R
        <3>1. R \in Nat
            BY <1>1, RatePositive
        <3>2. x \in Nat
            <4> HIDE DEF R
            <4> QED
                BY <3>1
        <3>3. x \div weight \in Nat
            <4> HIDE DEF x
            <4> QED
                BY <1>4, <3>2, DivMod
        <3> QED
            BY <3>3
    <2>3. (k \div d) * d \in Nat
        <3> DEFINE e == k \div d
        <3>1. d \in Nat \ {0}
            BY <1>1
        <3> HIDE DEF k, d
        <3>2. e \in Nat
            BY <2>2, <3>1, DivMod
        <3> HIDE DEF e
        <3>3. e * d \in Nat
            BY <3>1, <3>2
        <3> QED
            BY <3>3 DEF e
    <2>4. m \in Nat /\ m <= a.left
        <3> DEFINE y == (k \div d) * d
        <3>1. m = IF i = Len(cls) THEN a.left ELSE Least(a.left, y)
            OBVIOUS
        <3> HIDE DEF y, m
        <3>2. y \in Nat
            BY <2>3 DEF y
        <3> QED
            BY <2>1, <3>1, <3>2 DEF Least
    <2> HIDE DEF m
    <2>5. take(a, i) = [left |-> a.left - m, got |-> Append(a.got, m)]
        BY DEF m
    <2>6. a.left - m \in Nat /\ Append(a.got, m) \in Seq(Nat) /\ Len(Append(a.got, m)) = Len(a.got) + 1
        BY <2>1, <2>4
    <2> HIDE DEF take
    <2> QED
        BY <2>5, <2>6
<1> HIDE DEF take, q, A
<1>6. ASSUME NEW s \in SUBSET (1 .. n), s # {}
      PROVE  /\ Max(s) \in 1 .. n /\ s \ {Max(s)} \in SUBSET (1 .. n)
             /\ Cardinality(s) = Cardinality(s \ {Max(s)}) + 1
    <2>1. Max(s) \in s /\ s \ {Max(s)} \in SUBSET (1 .. n)
        BY <1>1, <1>6, Greatest
    <2>2. IsFiniteSet(s)
        <3>1. n \in Int /\ 1 \in Int
            BY <1>1
        <3> HIDE DEF n
        <3>2. IsFiniteSet(1 .. n)
            BY <3>1, FS_Interval
        <3> QED
            BY <3>2, FS_Subset
    <2>3. Cardinality(s \ {Max(s)}) = Cardinality(s) - 1 /\ Cardinality(s) \in Nat
        BY <2>1, <2>2, FS_RemoveElement, FS_CardinalityType
    <2> HIDE DEF n
    <2>4. Max(s) \in 1 .. n
        BY <2>1
    <2>5. Cardinality(s) = Cardinality(s \ {Max(s)}) + 1
        BY <2>3
    <2> QED
        BY <2>1, <2>4, <2>5
<1>7. \A s \in SUBSET (1 .. n) : \A a : a \in V[s] <=> a \in A /\ Len(a.got) = Cardinality(s)
    OBVIOUS
<1>8. start \in V[{}] /\ {} \in SUBSET (1 .. n)
    <2>1. start \in A /\ Len(start.got) = 0
        BY DEF A
    <2>2. {} \in SUBSET (1 .. n) /\ Cardinality({}) = 0
        BY FS_EmptySet, Zenon
    <2> HIDE DEF start, V
    <2> QED
        BY <1>7, <2>1, <2>2
<1>9. ASSUME NEW s \in SUBSET (1 .. n), s # {}, NEW v \in V[s \ {Max(s)}]
      PROVE  F[<<Max(s), v>>] = take(v, q[Max(s)]) /\ take(v, q[Max(s)]) \in V[s]
    <2>1. v \in A /\ Len(v.got) = Cardinality(s \ {Max(s)}) /\ Max(s) \in 1 .. n
        BY <1>6, <1>7, <1>9
    <2>2. F[<<Max(s), v>>] = take(v, q[Max(s)])
        BY <2>1
    <2>3. take(v, q[Max(s)]) \in A /\ Len(take(v, q[Max(s)]).got) = Cardinality(s)
        <3>1. q[Max(s)] = Max(s) /\ Cardinality(s) = Cardinality(s \ {Max(s)}) + 1
            BY <1>2, <1>6, <1>9, <2>1
        <3>2. take(v, Max(s)) \in A /\ Len(take(v, Max(s)).got) = Len(v.got) + 1
            BY <1>5, <2>1
        <3> QED
            BY <2>1, <3>1, <3>2
    <2> HIDE DEF F, V
    <2> QED
        BY <1>7, <2>2, <2>3
<1> HIDE DEF F, V, start
<1>10. \E h : Eq(h)
    <2>1. PICK h : /\ IsFold(h, n, start, F)
                   /\ \A s \in SUBSET (1 .. n) : h[s] \in V[s]
        <3>1. ASSUME NEW s \in SUBSET (1 .. n), s # {}, NEW v \in V[s \ {Max(s)}] PROVE F[<<Max(s), v>>] \in V[s]
            BY <1>9, <3>1
        <3> QED
            BY <1>1, <1>8, <3>1, FoldMeets
    <2>2. ASSUME NEW s \in SUBSET (1 .. n), s # {}
          PROVE  F[<<Max(s), h[s \ {Max(s)}]>>] = take(h[s \ {Max(s)}], q[Max(s)])
        BY <1>6, <1>9, <2>1, <2>2
    <2>3. h = [s \in SUBSET (DOMAIN q) |-> IF s = {} THEN start ELSE take(h[s \ {Max(s)}], q[Max(s)])]
        BY <1>2, <2>1, <2>2 DEF IsFold
    <2> QED
        BY <2>3
<1>11. Eq(g)
    BY <1>10
<1> HIDE DEF g
<1>12. \A s \in SUBSET (1 .. n) : g[s] = IF s = {} THEN start ELSE take(g[s \ {Max(s)}], q[Max(s)])
    BY <1>2, <1>11
<1>13. g[{}] \in V[{}]
    BY <1>8, <1>12
<1>14. ASSUME NEW s \in SUBSET (1 .. n), s # {}, g[s \ {Max(s)}] \in V[s \ {Max(s)}] PROVE g[s] \in V[s]
    BY <1>9, <1>12, <1>14
<1>15. \A s \in SUBSET (1 .. n) : g[s] \in V[s]
    BY <1>1, <1>13, <1>14, FoldKeeps
<1>16. 1 .. n \in SUBSET (1 .. n) /\ Cardinality(1 .. n) = n
    BY <1>1, FS_Interval
<1>17. g[1 .. n] \in A /\ Len(g[1 .. n].got) = n
    BY <1>7, <1>15, <1>16
<1> QED
    BY <1>2, <1>3, <1>17 DEF A

\* The columns of a tile fit a stage.
TileFits(c, t) == t.P \in Nat \ {0} /\ t.d \in Nat \ {0} /\ t.P * c.W <= Words

Tiled(c, tiles) == IsSequence(tiles) /\ \A t \in ToSet(tiles) : TileFits(c, t)

\* Words of a stage divided by the words of a column.
LEMMA ColumnsOfStage ==
    ASSUME NEW c \in Case
    PROVE  /\ c.W \in Nat \ {0} /\ Words \in Nat \ {0} /\ Words \div c.W \in Nat \ {0}
           /\ \A k \in Nat : k <= Words \div c.W => k * c.W <= Words
<1> DEFINE W == c.W
           q == Words \div W
<1>1. W \in Nat \ {0} /\ Words \in Nat \ {0} /\ W <= Words
    BY CaseAssumption DEF CaseType
<1>2. q \in Nat /\ Words % W \in 0 .. W - 1 /\ Words = (q * W) + (Words % W)
    <2> HIDE DEF W
    <2> QED
        BY <1>1, DivMod
<1>3. q # 0
    <2>1. ASSUME q = 0 PROVE FALSE
        <3>1. q * W = 0
            BY <1>1, <2>1
        <3> QED
            BY <1>1, <1>2, <3>1
    <2> QED
        BY <2>1
<1>4. ASSUME NEW k \in Nat, k <= q PROVE k * W <= Words
    <2> DEFINE u == k * W
               v == q * W
    <2>1. u <= v /\ u \in Nat /\ v \in Nat
        <3> HIDE DEF W, q
        <3> QED
            BY <1>1, <1>2, <1>4, TimesMonotone
    <2>2. Words = v + (Words % W)
        BY <1>2
    <2> HIDE DEF u, v, W
    <2>3. u <= Words
        BY <1>1, <1>2, <2>1, <2>2
    <2> QED
        BY <2>3 DEF u
<1> QED
    BY <1>1, <1>2, <1>3, <1>4

\* A total cut into parts that are enough, as tiles.
LEMMA EvenTilesFit ==
    ASSUME NEW c \in Case, NEW d \in Nat \ {0}, NEW total \in Nat, NEW n \in Nat \ {0}, n <= total,
           total <= n * (Words \div c.W)
    PROVE  Tiled(c, [k \in 1 .. n |-> [P |-> Share(total, n, k - 1), d |-> d]])
<1> DEFINE q == Words \div c.W
           tileOf(k) == [P |-> Share(total, n, k - 1), d |-> d]
           s == [k \in 1 .. n |-> tileOf(k)]
<1>1. q \in Nat
    BY ColumnsOfStage
<1>2. ASSUME NEW k \in 1 .. n PROVE TileFits(c, tileOf(k))
    <2>1. k - 1 \in 0 .. n - 1
        OBVIOUS
    <2>2. Share(total, n, k - 1) \in Nat \ {0} /\ Share(total, n, k - 1) <= q
        <3> HIDE DEF q
        <3> QED
            BY <1>1, <2>1, ShareFits DEF q
    <2>3. Share(total, n, k - 1) * c.W <= Words
        BY <2>2, ColumnsOfStage
    <2> QED
        BY <2>2, <2>3 DEF TileFits
<1> HIDE DEF tileOf
<1>3. s = [k \in 1 .. n |-> s[k]] /\ \A k \in 1 .. n : s[k] = tileOf(k)
    OBVIOUS
<1> HIDE DEF s
<1>4. IsSequence(s) /\ \A e \in ToSet(s) : \E k \in 1 .. n : e = s[k]
    BY <1>3, ListMade
<1>5. Tiled(c, s)
    BY <1>2, <1>3, <1>4 DEF Tiled
<1> QED
    BY <1>5 DEF s, tileOf

\* Tiles of several classes or blocks, one after the other.
LEMMA TiledJoined ==
    ASSUME NEW c, NEW n \in Nat, NEW seqs, seqs = [i \in 1 .. n |-> seqs[i]], \A i \in 1 .. n : Tiled(c, seqs[i])
    PROVE  Tiled(c, FlattenSeq(seqs))
<1>1. IsSequence(seqs) /\ \A q \in ToSet(seqs) : \E i \in 1 .. n : q = seqs[i]
    BY ListMade
<1>2. \A q \in ToSet(seqs) : Tiled(c, q)
    BY <1>1
<1>3. IsSequence(FlattenSeq(seqs)) /\ \A e \in ToSet(FlattenSeq(seqs)) : \E q \in ToSet(seqs) : e \in ToSet(q)
    BY <1>1, <1>2, FlattenList DEF Tiled
<1> QED
    BY <1>2, <1>3 DEF Tiled

\* split_cols_mixed: the tiles of a class, as many as the nodes of the class ask for.
LEMMA ClassTilesFit ==
    ASSUME NEW c \in Case, NEW d \in Depths(c), NEW total \in Nat, NEW least \in Nat \ {0}
    PROVE  Tiled(c, TilesOfClass(c, d, total, least))
<1> DEFINE q == Words \div c.W
           up == UpDiv(total, q)
           fit == Max({least, up})
           N == NodesOf(c, d)
           all == UpDiv(fit, N) * N
           t == Least(total, all)
<1>1. q \in Nat \ {0} /\ N \in Nat \ {0} /\ d \in Nat \ {0}
    BY ColumnsOfStage, DepthsOf
<1>2. CASE total = 0
    <2>1. TilesOfClass(c, d, total, least) = <<>>
        BY <1>2 DEF TilesOfClass
    <2> DEFINE s == <<>>
    <2>2. s = [i \in 1 .. 0 |-> s[i]] /\ 0 \in Nat
        OBVIOUS
    <2> HIDE DEF s
    <2>3. IsSequence(s) /\ \A e \in ToSet(s) : \E i \in 1 .. 0 : e = s[i]
        BY <2>2, ListMade
    <2>4. \A e \in ToSet(s) : FALSE
        BY <2>3
    <2> QED
        BY <2>1, <2>3, <2>4 DEF Tiled, s
<1>3. CASE total # 0
    <2>1. TilesOfClass(c, d, total, least) = [k \in 1 .. t |-> [P |-> Share(total, t, k - 1), d |-> d]]
        BY <1>3 DEF TilesOfClass
    <2> HIDE DEF N, q
    <2>2. up \in Nat /\ total <= up * q
        BY <1>1, RoundedUp
    <2> HIDE DEF up
    <2>3. fit \in Nat \ {0} /\ up <= fit
        <3>1. least \in Int /\ up \in Int
            BY <2>2
        <3>2. fit \in {least, up} /\ fit >= least /\ fit >= up
            BY <3>1, MaxOfTwo
        <3> HIDE DEF fit
        <3> QED
            BY <2>2, <3>2
    <2> HIDE DEF fit
    <2>4. UpDiv(fit, N) \in Nat /\ fit <= all
        BY <1>1, <2>3, RoundedUp
    <2>5. all \in Nat
        BY <1>1, <2>4
    <2> HIDE DEF all
    <2>6. t \in Nat \ {0} /\ t <= total /\ (t = total \/ up <= t)
        BY <1>3, <2>2, <2>3, <2>4, <2>5 DEF Least
    <2> HIDE DEF t
    <2>7. total <= t * q
        <3>1. CASE t = total
            <4>1. 1 * t <= q * t
                BY <1>1, <2>6, TimesMonotone
            <4>2. 1 * t = t /\ q * t = t * q
                BY <1>1, <2>6
            <4> QED
                BY <3>1, <4>1, <4>2
        <3>2. CASE up <= t
            <4>1. up * q <= t * q
                BY <1>1, <2>2, <2>6, <3>2, TimesMonotone
            <4> DEFINE x == up * q
                       y == t * q
            <4>2. x \in Nat /\ y \in Nat /\ x <= y /\ total <= x
                BY <1>1, <2>2, <2>6, <4>1
            <4> HIDE DEF x, y
            <4> QED
                BY <4>2 DEF y
        <3> QED
            BY <2>6, <3>1, <3>2
    <2>8. Tiled(c, [k \in 1 .. t |-> [P |-> Share(total, t, k - 1), d |-> d]])
        BY <1>1, <2>6, <2>7, EvenTilesFit DEF q
    <2> QED
        BY <2>1, <2>8
<1> QED
    BY <1>2, <1>3

\* split_cols_mixed: the tiles of all classes.
LEMMA MixedTilesFit ==
    ASSUME NEW c \in Case, NEW cols \in Nat, NEW least \in Nat \ {0}
    PROVE  Tiled(c, SplitColsMixed(c, cols, least))
<1> DEFINE cls == DeepFirst(c)
           n == Len(cls)
           shares == Shares(c, cols)
           tiles(i) == TilesOfClass(c, cls[i], shares[i] \div cls[i], least)
           seqs == [i \in 1 .. n |-> tiles(i)]
<1>1. n \in Nat /\ DOMAIN cls = 1 .. n /\ \A i \in 1 .. n : cls[i] \in Depths(c) /\ cls[i] \in Nat \ {0}
    <2>1. cls \in Seq(Depths(c)) /\ Depths(c) \in SUBSET (Nat \ {0})
        BY DepthsOf
    <2>2. n \in Nat /\ DOMAIN cls = 1 .. n /\ \A i \in 1 .. n : cls[i] \in Depths(c)
        BY <2>1, SeqShape
    <2> HIDE DEF cls, n
    <2> QED
        BY <2>1, <2>2
<1>2. \A i \in 1 .. n : shares[i] \in Nat
    <2>1. shares \in Seq(Nat) /\ Len(shares) = n
        BY SharesIn
    <2> QED
        BY <2>1, SeqShape
<1>3. SplitColsMixed(c, cols, least) = FlattenSeq(seqs)
    BY <1>1 DEF SplitColsMixed
<1>4. ASSUME NEW i \in 1 .. n PROVE Tiled(c, tiles(i))
    <2>1. shares[i] \div cls[i] \in Nat
        <3> HIDE DEF shares, cls, n
        <3> QED
            BY <1>1, <1>2, DivMod
    <2> QED
        BY <1>1, <2>1, ClassTilesFit
<1> HIDE DEF tiles, n
<1>5. seqs = [i \in 1 .. n |-> seqs[i]] /\ \A i \in 1 .. n : Tiled(c, seqs[i])
    BY <1>4
<1> HIDE DEF seqs
<1>6. Tiled(c, FlattenSeq(seqs))
    BY <1>1, <1>5, TiledJoined
<1> QED
    BY <1>3, <1>6

\* split_cols, as long as there is a column for every tile asked for.
LEMMA UniformTilesFit ==
    ASSUME NEW c \in Case, NEW cols \in Nat, NEW least \in Nat \ {0}, least <= cols \div c.nodes[1]
    PROVE  Tiled(c, SplitCols(c, cols, least))
<1> DEFINE d == c.nodes[1]
           q == Words \div c.W
           total == cols \div d
           up == UpDiv(total, q)
           t == Max({least, up})
<1>1. q \in Nat \ {0}
    BY ColumnsOfStage
<1>2. d \in Nat \ {0}
    <2>1. c.nodes \in Seq(Nat \ {0}) /\ Len(c.nodes) # 0
        BY DepthsOf
    <2>2. Len(c.nodes) \in Nat /\ \A i \in 1 .. Len(c.nodes) : c.nodes[i] \in Nat \ {0}
        BY <2>1, SeqShape
    <2>3. 1 \in 1 .. Len(c.nodes)
        BY <2>1, <2>2
    <2> QED
        BY <2>2, <2>3
<1>3. SplitCols(c, cols, least) = [k \in 1 .. t |-> [P |-> Share(total, t, k - 1), d |-> d]]
    BY DEF SplitCols
<1>4. total \in Nat /\ least <= total
    <2> HIDE DEF d
    <2> QED
        BY <1>2, DivMod DEF d
<1> HIDE DEF total, q
<1>5. up \in Nat /\ total <= up * q
    BY <1>1, <1>4, RoundedUp
<1>6. up <= total
    <2> DEFINE x == up * q
    <2>1. (x - q < total \/ total = 0) /\ x \in Nat
        <3>1. x - q < total \/ total = 0
            BY <1>1, <1>4, RoundedUp
        <3> HIDE DEF up
        <3>2. x \in Nat
            BY <1>1, <1>5
        <3> QED
            BY <3>1, <3>2
    <2>2. ASSUME total < up PROVE FALSE
        <3>1. (total + 1) * q <= up * q /\ (total + 1) * q = (total * q) + (1 * q) /\ 1 * total <= q * total
            BY <1>1, <1>4, <1>5, <2>2, TimesMonotone, Distribute
        <3> DEFINE y == total * q
        <3>2. y \in Nat /\ 1 * q = q /\ 1 * total = total /\ q * total = y
            BY <1>1, <1>4
        <3>3. y + q <= x /\ total <= y
            BY <3>1, <3>2
        <3>4. total # 0
            BY <1>4
        <3> HIDE DEF x, y, up
        <3> QED
            BY <1>1, <1>4, <2>1, <3>2, <3>3, <3>4
    <2> HIDE DEF up
    <2> QED
        BY <1>4, <1>5, <2>2
<1> HIDE DEF up
<1>7. t \in Nat \ {0} /\ t <= total /\ up <= t
    <2>1. least \in Int /\ up \in Int
        BY <1>5
    <2>2. t \in {least, up} /\ t >= least /\ t >= up
        BY <2>1, MaxOfTwo
    <2> HIDE DEF t
    <2> QED
        BY <1>4, <1>5, <1>6, <2>2
<1> HIDE DEF t
<1>8. total <= t * q
    <2> DEFINE x == up * q
               y == t * q
    <2>1. x <= y /\ x \in Nat /\ y \in Nat /\ total <= x
        BY <1>1, <1>5, <1>7, TimesMonotone
    <2> HIDE DEF x, y
    <2> QED
        BY <1>4, <2>1 DEF y
<1>9. Tiled(c, [k \in 1 .. t |-> [P |-> Share(total, t, k - 1), d |-> d]])
    BY <1>2, <1>4, <1>7, <1>8, EvenTilesFit DEF q
<1> QED
    BY <1>3, <1>9

\* Either tiler cuts columns into tiles that fit.
LEMMA TilesFit ==
    ASSUME NEW c \in Case, NEW cols \in Nat, NEW least \in Nat \ {0}, c.mixed \/ least <= cols \div c.nodes[1]
    PROVE  Tiled(c, TilesOf(c, cols, least))
    BY MixedTilesFit, UniformTilesFit DEF TilesOf

\* Where the tiles begin and their images lie changes nothing about their size.
LEMMA PlacedFit ==
    ASSUME NEW c, NEW tiles, Tiled(c, tiles), NEW c0
    PROVE  Tiled(c, Placed(tiles, c0))
<1> DEFINE n == Len(tiles)
           s == Placed(tiles, c0)
<1>1. n \in Nat /\ DOMAIN tiles = 1 .. n /\ \A i \in 1 .. n : TileFits(c, tiles[i])
    BY ListParts DEF Tiled
<1>2. s = [i \in 1 .. n |-> s[i]] /\ \A i \in 1 .. n : s[i].P = tiles[i].P /\ s[i].d = tiles[i].d
    BY <1>1 DEF Placed
<1> HIDE DEF s
<1>3. IsSequence(s) /\ \A e \in ToSet(s) : \E i \in 1 .. n : e = s[i]
    BY <1>1, <1>2, ListMade
<1>4. \A i \in 1 .. n : TileFits(c, s[i])
    BY <1>1, <1>2 DEF TileFits
<1>5. Tiled(c, s)
    BY <1>3, <1>4 DEF Tiled
<1> QED
    BY <1>5 DEF s

\* The images do not change the tiles either.
LEMMA WithImagesFit ==
    ASSUME NEW c, NEW tiles, Tiled(c, tiles)
    PROVE  Tiled(c, WithImages(c, tiles))
<1> DEFINE n == Len(tiles)
           s == WithImages(c, tiles)
<1>1. n \in Nat /\ DOMAIN tiles = 1 .. n /\ \A i \in 1 .. n : TileFits(c, tiles[i])
    BY ListParts DEF Tiled
<1>2. s = [i \in 1 .. n |-> s[i]] /\ \A i \in 1 .. n : s[i].P = tiles[i].P /\ s[i].d = tiles[i].d
    BY <1>1 DEF WithImages
<1> HIDE DEF s
<1>3. IsSequence(s) /\ \A e \in ToSet(s) : \E i \in 1 .. n : e = s[i]
    BY <1>1, <1>2, ListMade
<1>4. \A i \in 1 .. n : TileFits(c, s[i])
    BY <1>1, <1>2 DEF TileFits
<1>5. Tiled(c, s)
    BY <1>3, <1>4 DEF Tiled
<1> QED
    BY <1>5 DEF s

\* put_images: the tiles of every block.
LEMMA ImagesFit ==
    ASSUME NEW c \in Case
    PROVE  Tiled(c, PutImages(c))
<1> DEFINE bw == BlockCols(c)
           placed(b) == Placed(TilesOf(c, bw, c.minTiles), b * bw)
           seqs == [i \in 1 .. c.blocks |-> placed(i - 1)]
<1>1. c.blocks \in Nat \ {0} /\ c.C \in Nat /\ c.minTiles \in Nat \ {0} /\ (c.mixed \/ c.minTiles <= bw \div c.nodes[1])
    BY CaseAssumption DEF CaseType, BlockCols
<1>2. bw \in Nat
    BY <1>1, DivMod DEF BlockCols
<1>3. PutImages(c) = WithImages(c, FlattenSeq(seqs))
    BY DEF PutImages, Flat
<1> HIDE DEF bw
<1>4. ASSUME NEW i \in 1 .. c.blocks PROVE Tiled(c, placed(i - 1))
    BY <1>1, <1>2, TilesFit, PlacedFit
<1> HIDE DEF placed
<1>5. seqs = [i \in 1 .. c.blocks |-> seqs[i]] /\ \A i \in 1 .. c.blocks : Tiled(c, seqs[i])
    BY <1>4
<1> HIDE DEF seqs
<1>6. Tiled(c, FlattenSeq(seqs))
    BY <1>1, <1>5, TiledJoined
<1> QED
    BY <1>3, <1>6, WithImagesFit

(***************************************************************************)
(* Row slices and the commands of a tile.                                  *)
(***************************************************************************)
\* colgroup_d: for every GEMM whose rows fit a memory, whatever the depth, the
\* stride and the number of rows, a column group's rows fit the feeder, or the
\* half of it that the next group leaves free.
THEOREM TilerGroupsFit ==
    ASSUME NEW c \in Case, NEW base \in Nat, NEW T \in Nat \ {0}, NEW P \in Nat \ {0},
           NEW d \in Nat, P * c.W <= Words
    PROVE  Fits(ColGroup(c, base, T, P, d))
<1> DEFINE W == c.W
           half == Words \div 2
           M0 == half \div W
           M1 == IF (M0 * Stride(c)) % 2 = 1 THEN M0 - 1 ELSE M0
           db == c.db /\ W <= half /\ T > M0 /\ M1 >= 1
           M == IF db THEN M1 ELSE Least(T, Words \div W)
           G == Max({1, d - W, MinPass - W})
           S == IF c.stride = 0 THEN W ELSE c.stride
           g == ColGroup(c, base, T, P, d)
<1>1. /\ W \in Nat \ {0} /\ c.stride \in Nat /\ c.db \in BOOLEAN /\ W <= Words
      /\ Words \in Nat \ {0} /\ MinPass \in Nat
    BY CaseAssumption DEF CaseType
<1>2. g = [op |-> "GROUP", base |-> base, T |-> T, wt |-> 0, W |-> W, M |-> M, P |-> P, G |-> G,
           S |-> S, db |-> db]
    BY DEF ColGroup, Group
<1>3. half \in Nat /\ M0 \in Nat
    <2>1. half \in Nat
        BY <1>1
    <2> HIDE DEF half, W
    <2> QED
        BY <1>1, <2>1, DivMod
<1>4. Words \div W \in Nat \ {0}
    <2> DEFINE q == Words \div W
    <2>1. q \in Nat /\ Words % W \in 0 .. W - 1 /\ Words = (q * W) + (Words % W)
        BY <1>1, DivMod
    <2>2. ASSUME q = 0 PROVE FALSE
        <3>1. q * W = 0
            BY <1>1, <2>2
        <3> QED
            BY <1>1, <2>1, <3>1
    <2> HIDE DEF q
    <2>3. q \in Nat \ {0}
        BY <2>1, <2>2
    <2> QED
        BY <2>3 DEF q
<1>5. ASSUME db PROVE M \in Nat \ {0} /\ M * W <= (IF db THEN half ELSE Words)
    <2>1. M = M1 /\ M \in Nat \ {0} /\ M <= M0
        <3>1. M1 \in {M0 - 1, M0} /\ M1 >= 1
            BY <1>5
        <3> HIDE DEF M0, M1
        <3> QED
            BY <1>3, <1>5, <3>1
    <2>2. M * W <= half
        <3> HIDE DEF half, M, W, M1, db
        <3> QED
            BY <1>1, <1>3, <2>1, RowsFit
    <2> QED
        BY <1>5, <2>1, <2>2
<1>6. ASSUME ~db PROVE M \in Nat \ {0} /\ M * W <= (IF db THEN half ELSE Words)
    <2>1. M \in Nat \ {0} /\ M <= Words \div W
        <3> DEFINE q == Words \div W
        <3>1. q \in Nat \ {0}
            BY <1>4
        <3>2. M = Least(T, q)
            BY <1>6
        <3> HIDE DEF q, M, db
        <3>3. M \in Nat \ {0} /\ M <= q
            BY <3>1, <3>2 DEF Least
        <3> QED
            BY <3>3 DEF q
    <2>2. M * W <= Words
        <3> HIDE DEF M, W, M1, db
        <3> QED
            BY <1>1, <2>1, RowsFit
    <2> QED
        BY <1>6, <2>1, <2>2
<1>7. G \in Nat \ {0}
    <2>1. 1 \in Int /\ d - W \in Int /\ MinPass - W \in Int
        BY <1>1
    <2>2. G \in Int /\ G >= 1
        BY <2>1, MaxOfThree
    <2> QED
        BY <2>2
<1>8. S \in Nat \ {0} /\ db \in BOOLEAN
    BY <1>1
<1>9. M \in Nat \ {0} /\ M * W <= (IF db THEN half ELSE Words)
    BY <1>5, <1>6
<1> HIDE DEF M, G, S, db, half
<1>10. /\ g \in GroupCommands /\ g.op = "GROUP" /\ g.M = M /\ g.W = W /\ g.P = P /\ g.db = db
    <2> HIDE DEF g, W
    <2> QED
        BY <1>1, <1>2, <1>7, <1>8, <1>9 DEF GroupCommands
<1> HIDE DEF g
<1>11. g.M * g.W <= (IF g.db THEN Words \div 2 ELSE Words) /\ g.P * g.W <= Words
    BY <1>9, <1>10 DEF half
<1> QED
    BY <1>10, <1>11 DEF Fits, g

\* chain_slice_rows: cut to some of its rows, a group that fits still does -- its
\* group size is kept, and a new one is not made up for the rows.
THEOREM SlicedGroupsFit ==
    ASSUME NEW words, NEW c, c.op = "GROUP", Fits(c), NEW r0 \in Nat, NEW n \in Nat \ {0}
    PROVE  Fits(SliceCmd(words, c, r0, n))
<1> DEFINE m == Least(n, c.M)
           base == c.base + r0 * c.S
           g == [c EXCEPT !.base = base, !.T = n, !.M = m]
           w == m * c.W
           u == c.M * c.W
<1>1. c \in GroupCommands /\ u <= (IF c.db THEN Words \div 2 ELSE Words) /\ c.P * c.W <= Words
    BY DEF Fits
<1>2. SliceCmd(words, c, r0, n) = g
    BY <1>1 DEF SliceCmd, GroupCommands
<1>3. m \in Nat \ {0} /\ m <= c.M /\ c.M \in Nat /\ c.W \in Nat
    BY <1>1 DEF Least, GroupCommands
<1>4. w <= u /\ w \in Nat /\ u \in Nat
    <2> HIDE DEF m
    <2> QED
        BY <1>3, TimesMonotone
<1>5. base \in Nat
    BY <1>1 DEF GroupCommands
<1> HIDE DEF m, base
<1>6. /\ g \in GroupCommands /\ g.M = m /\ g.W = c.W /\ g.P = c.P /\ g.db = c.db /\ g.op = "GROUP"
    BY <1>1, <1>3, <1>5 DEF GroupCommands
<1>7. Words \div 2 \in Int /\ Words \in Int
    <2>1. Words \in Nat
        BY CaseAssumption
    <2> QED
        BY <2>1
<1>8. w <= (IF c.db THEN Words \div 2 ELSE Words)
    <2> HIDE DEF w, u
    <2> QED
        BY <1>1, <1>4, <1>7
<1> HIDE DEF g
<1>9. g.M * g.W <= (IF g.db THEN Words \div 2 ELSE Words) /\ g.P * g.W <= Words
    BY <1>1, <1>6, <1>8
<1> QED
    BY <1>2, <1>6, <1>9 DEF Fits

\* row_slices: every slice has rows.
LEMMA SlicesOfRows ==
    ASSUME NEW c \in Case
    PROVE  LET s == RowSlices(c.T, c.W, c.stride)
           IN  \E n \in Nat : s = [i \in 1 .. n |-> s[i]] /\ \A i \in 1 .. n : s[i].r0 \in Nat /\ s[i].n \in Nat \ {0}
<1> DEFINE T == c.T
           W == c.W
           S == IF c.stride = 0 THEN W ELSE c.stride
           M == Least(T, Words \div W)
           K == {k \in {j * M : j \in 1 .. MaxRows \div M} : (k * S) % 2 = 0}
           n == Max(K)
           u == UpDiv(T, n)
           s == RowSlices(T, W, c.stride)
<1>1. /\ T \in Nat \ {0} /\ S \in Nat /\ S % 2 = 0 /\ MaxRows \in Nat \ {0} /\ Words <= MaxRows
      /\ Words \in Nat \ {0}
    BY CaseAssumption DEF CaseType
<1>2. s = [i \in 1 .. u |-> [r0 |-> (i - 1) * n, n |-> Least(n, T - (i - 1) * n)]]
    BY DEF RowSlices
<1>3. M \in Nat \ {0} /\ M <= MaxRows
    <2> DEFINE q == Words \div W
    <2>1. q \in Nat \ {0} /\ W \in Nat \ {0} /\ q * W <= Words
        BY ColumnsOfStage
    <2> HIDE DEF q, W
    <2>2. q <= q * W
        <3>1. 1 * q <= W * q /\ 1 * q = q /\ W * q = q * W
            BY <2>1, TimesMonotone
        <3> QED
            BY <3>1
    <2> DEFINE z == q * W
    <2>3. z \in Nat /\ q <= z /\ z <= Words
        BY <2>1, <2>2
    <2> HIDE DEF z
    <2>4. q <= MaxRows
        BY <1>1, <2>1, <2>3
    <2> HIDE DEF T
    <2> QED
        BY <1>1, <2>1, <2>4 DEF Least, q
<1> HIDE DEF M, S
<1>4. K \in SUBSET (1 .. MaxRows) /\ K # {}
    <2> DEFINE q == MaxRows \div M
    <2>1. q \in Nat /\ MaxRows % M \in 0 .. M - 1 /\ MaxRows = (q * M) + (MaxRows % M)
        BY <1>1, <1>3, DivMod
    <2>2. q # 0
        <3>1. ASSUME q = 0 PROVE FALSE
            <4>1. q * M = 0
                BY <1>3, <3>1
            <4> QED
                BY <1>3, <2>1, <4>1
        <3> QED
            BY <3>1
    <2>3. ASSUME NEW j \in 1 .. q PROVE j * M \in 1 .. MaxRows
        <3> DEFINE x == j * M
                   y == q * M
        <3>1. 1 * M <= j * M /\ j * M <= q * M /\ 1 * M = M
            <4> HIDE DEF q
            <4> QED
                BY <1>3, <2>1, TimesMonotone
        <3>2. x \in Nat /\ y \in Nat /\ MaxRows = y + (MaxRows % M)
            BY <1>3, <2>1
        <3>3. M <= x /\ x <= y
            BY <3>1
        <3> HIDE DEF x, y
        <3>4. x \in 1 .. MaxRows
            BY <1>1, <1>3, <2>1, <3>2, <3>3
        <3> QED
            BY <3>4 DEF x
    <2>4. (M * S) % 2 = 0 /\ 1 * M = M
        <3>1. M \in Nat /\ S \in Nat /\ S % 2 = 0
            BY <1>1, <1>3
        <3>2. (M * S) % 2 = 0
            BY <3>1, EvenTimes
        <3>3. 1 * M = M
            BY <3>1
        <3> QED
            BY <3>2, <3>3
    <2>5. M \in {j * M : j \in 1 .. q}
        <3>1. 1 \in 1 .. q
            BY <2>1, <2>2
        <3> HIDE DEF q
        <3> QED
            BY <2>4, <3>1
    <2>6. M \in K
        BY <2>4, <2>5
    <2>7. \A k \in K : \E j \in 1 .. q : k = j * M
        OBVIOUS
    <2> HIDE DEF q, K
    <2> QED
        BY <2>3, <2>6, <2>7
<1>5. n \in Nat \ {0}
    <2> HIDE DEF K
    <2>1. n \in K
        BY <1>1, <1>4, Greatest
    <2> HIDE DEF n
    <2> QED
        BY <1>1, <1>4, <2>1
<1> HIDE DEF n
<1>6. u \in Nat /\ (u * n) - n < T
    BY <1>1, <1>5, RoundedUp
<1> HIDE DEF u
<1>7. ASSUME NEW i \in 1 .. u
      PROVE  (i - 1) * n \in Nat /\ Least(n, T - (i - 1) * n) \in Nat \ {0}
    <2> DEFINE x == (i - 1) * n
               y == u * n
    <2>1. i * n <= u * n /\ ((i - 1) + 1) * n = ((i - 1) * n) + (1 * n) /\ (i - 1) + 1 = i /\ 1 * n = n
        BY <1>5, <1>6, TimesMonotone, Distribute
    <2>2. x + n <= y
        BY <2>1
    <2>3. x \in Nat /\ y \in Nat /\ y - n < T
        BY <1>5, <1>6
    <2> HIDE DEF x, y, T
    <2>4. T - x \in Nat \ {0}
        BY <1>1, <1>5, <2>2, <2>3
    <2> QED
        BY <1>5, <2>3, <2>4 DEF Least, x
<1>8. \A i \in 1 .. u : s[i].r0 \in Nat /\ s[i].n \in Nat \ {0}
    BY <1>2, <1>7
<1>9. s = [i \in 1 .. u |-> s[i]]
    BY <1>2
<1> QED
    BY <1>6, <1>8, <1>9

\* tile_cmds_d: the commands of a tile that fits fit.
LEMMA TileCmdsFit ==
    ASSUME NEW c \in Case, NEW t, TileFits(c, t), NEW bw, NEW load, Program(load)
    PROVE  Program(TileCmds(c, t, bw, load))
<1> DEFINE b == t.c0 \div bw
           split == t.d * t.P # bw
           slices == RowSlices(c.T, c.W, c.stride)
           first(i) == Out(b * c.T * bw + slices[i].r0 * bw + t.c0 - b * bw,
                         IF split THEN (t.d * t.P) \div Cells ELSE 0, IF split THEN bw - t.d * t.P ELSE 0)
           some(i) == IF i = 1 THEN load ELSE <<>>
           group(i) == ColGroup(c, slices[i].r0 * Stride(c), slices[i].n, t.P, t.d)
           slice(i) == <<first(i)>> \o some(i) \o <<group(i), Flush>>
           seqs == [i \in DOMAIN slices |-> slice(i)]
<1>1. PICK n \in Nat : /\ slices = [i \in 1 .. n |-> slices[i]]
                       /\ \A i \in 1 .. n : slices[i].r0 \in Nat /\ slices[i].n \in Nat \ {0}
    BY SlicesOfRows
<1>2. TileCmds(c, t, bw, load) = FlattenSeq(seqs)
    BY DEF TileCmds
<1>3. DOMAIN slices = 1 .. n
    <2> HIDE DEF slices
    <2> QED
        BY <1>1, ListMade
<1>4. ASSUME NEW i \in 1 .. n PROVE Program(slice(i))
    <2>1. Fits(first(i)) /\ Fits(Flush)
        BY OthersFit
    <2>2. Fits(group(i))
        <3> DEFINE base == slices[i].r0 * Stride(c)
        <3>1. base \in Nat
            <4>1. Stride(c) \in Nat /\ slices[i].r0 \in Nat
                BY <1>1, CaseAssumption DEF Stride, CaseType
            <4> DEFINE x == Stride(c)
                       y == slices[i].r0
            <4>2. x \in Nat /\ y \in Nat
                BY <4>1
            <4> HIDE DEF x, y
            <4>3. y * x \in Nat
                BY <4>2
            <4> QED
                BY <4>3 DEF x, y
        <3> HIDE DEF base, slices
        <3>2. slices[i].n \in Nat \ {0} /\ t.P \in Nat \ {0} /\ t.d \in Nat /\ t.P * c.W <= Words
            BY <1>1 DEF TileFits
        <3>3. Fits(ColGroup(c, base, slices[i].n, t.P, t.d))
            BY <3>1, <3>2, TilerGroupsFit
        <3> QED
            BY <3>3 DEF base
    <2> HIDE DEF first, group
    <2>3. Program(<<first(i)>>) /\ Program(<<group(i), Flush>>)
        BY <2>1, <2>2, ProgramOfOne, ProgramOfTwo
    <2>4. Program(some(i))
        BY ProgramOfNone
    <2> HIDE DEF some
    <2>5. Program(<<first(i)>> \o some(i))
        BY <2>3, <2>4, ProgramJoined
    <2> DEFINE front == <<first(i)>> \o some(i)
    <2> HIDE DEF front
    <2>6. Program(front \o <<group(i), Flush>>)
        BY <2>3, <2>5, ProgramJoined DEF front
    <2> QED
        BY <2>6 DEF front
<1> HIDE DEF slice, slices
<1>5. seqs = [i \in 1 .. n |-> seqs[i]] /\ \A i \in 1 .. n : Program(seqs[i])
    BY <1>3, <1>4
<1> HIDE DEF seqs
<1> QED
    BY <1>2, <1>5, ProgramsJoined

\* The pieces of a load are loads.
LEMMA PiecesOf ==
    ASSUME NEW d \in Nat
    PROVE  \E n \in Nat : DOMAIN Pieces(d) = 1 .. n
<1> DEFINE n == UpDiv(d, LoadRegs)
<1>1. LoadRegs \in Nat \ {0}
    BY CaseAssumption
<1>2. n \in Nat
    BY <1>1, RoundedUp
<1>3. DOMAIN Pieces(d) = 1 .. n
    BY DEF Pieces, Steps
<1> QED
    BY <1>2, <1>3

\* cmds_load: the weights are images.
LEMMA LoadCmdsFit ==
    ASSUME NEW c \in Case
    PROVE  Program(CmdsLoad(c))
<1> DEFINE tiles == PutImages(c)
           piece(t, k) == LET s0 == Pieces(t.d)[k]
                          IN  Load(t.img + s0 * t.P * c.W, 1 + s0, Least(LoadRegs, t.d - s0), t.P * c.W)
           load(t) == [k \in DOMAIN Pieces(t.d) |-> piece(t, k)]
           seqs == [i \in DOMAIN tiles |-> TileCmds(c, tiles[i], BlockCols(c), load(tiles[i]))]
           n == Len(tiles)
<1>1. CmdsLoad(c) = FlattenSeq(seqs)
    BY DEF CmdsLoad, CmdsOf
<1>2. \A t, k : Fits(piece(t, k))
    BY OthersFit
<1> HIDE DEF piece
<1>3. ASSUME NEW t, TileFits(c, t) PROVE Program(load(t))
    <2>1. PICK m \in Nat : DOMAIN Pieces(t.d) = 1 .. m
        BY <1>3, PiecesOf DEF TileFits
    <2> DEFINE q == load(t)
    <2>2. q = [k \in 1 .. m |-> q[k]] /\ \A k \in 1 .. m : q[k] = piece(t, k)
        BY <2>1
    <2> HIDE DEF q
    <2>3. Program(q)
        BY <1>2, <2>2, ProgramMade
    <2> QED
        BY <2>3 DEF q
<1> HIDE DEF load
<1>4. Tiled(c, tiles)
    BY ImagesFit
<1> HIDE DEF tiles
<1>5. n \in Nat /\ DOMAIN tiles = 1 .. n /\ \A i \in 1 .. n : TileFits(c, tiles[i])
    BY <1>4, ListParts DEF Tiled
<1> HIDE DEF n
<1>6. ASSUME NEW i \in 1 .. n PROVE Program(TileCmds(c, tiles[i], BlockCols(c), load(tiles[i])))
    BY <1>3, <1>5, TileCmdsFit
<1>7. seqs = [i \in 1 .. n |-> seqs[i]] /\ \A i \in 1 .. n : Program(seqs[i])
    BY <1>5, <1>6
<1> HIDE DEF seqs
<1> QED
    BY <1>1, <1>5, <1>7, ProgramsJoined

\* cmds_loadx: the tiles of a matrix that is not in blocks.
LEMMA ColumnTilesFit ==
    ASSUME NEW c \in Case
    PROVE  Tiled(c, TilesOf(c, c.C, 1))
<1>1. c.C \in Nat \ {0} /\ c.blocks \in Nat \ {0} /\ c.minTiles \in Nat \ {0}
      /\ (~c.mixed => c.minTiles <= (c.C \div c.blocks) \div c.nodes[1])
    BY CaseAssumption DEF CaseType
<1>2. c.mixed \/ 1 <= c.C \div c.nodes[1]
    <2> DEFINE d == c.nodes[1]
               b == c.blocks
               bw == c.C \div b
               k == bw \div d
    <2>1. SUFFICES ASSUME ~c.mixed PROVE 1 <= c.C \div d
        OBVIOUS
    <2>2. d \in Nat \ {0}
        <3>1. c.nodes \in Seq(Nat \ {0}) /\ Len(c.nodes) # 0
            BY DepthsOf
        <3>2. Len(c.nodes) \in Nat /\ \A i \in 1 .. Len(c.nodes) : c.nodes[i] \in Nat \ {0}
            BY <3>1, SeqShape
        <3>3. 1 \in 1 .. Len(c.nodes)
            BY <3>1, <3>2
        <3> QED
            BY <3>2, <3>3
    <2>3. c.minTiles <= k /\ c.minTiles \in Nat /\ c.minTiles # 0
        BY <1>1, <2>1
    <2> HIDE DEF d
    <2>4. bw \in Nat /\ bw <= c.C
        <3> DEFINE x == bw * b
        <3>1. bw \in Nat /\ c.C % b \in 0 .. b - 1 /\ c.C = x + (c.C % b)
            BY <1>1, DivMod
        <3> HIDE DEF bw
        <3>2. 1 * bw <= b * bw /\ 1 * bw = bw /\ b * bw = x
            BY <1>1, <3>1, TimesMonotone
        <3>3. x \in Nat
            BY <1>1, <3>1
        <3> HIDE DEF x
        <3> QED
            BY <1>1, <3>1, <3>2, <3>3
    <2> HIDE DEF bw
    <2>5. bw >= d
        <3> DEFINE x == k * d
        <3>1. k \in Nat /\ bw % d \in 0 .. d - 1 /\ bw = x + (bw % d)
            BY <2>2, <2>4, DivMod
        <3> HIDE DEF k
        <3>0. 1 <= k
            BY <2>3, <3>1
        <3>2. 1 * d <= k * d /\ 1 * d = d
            BY <2>2, <3>0, <3>1, TimesMonotone
        <3>3. x \in Nat
            BY <2>2, <3>1
        <3> HIDE DEF x
        <3> QED
            BY <2>2, <3>1, <3>2, <3>3 DEF x
    <2>6. c.C >= d /\ c.C \in Nat
        BY <1>1, <2>2, <2>4, <2>5
    <2> DEFINE m == c.C \div d
               y == m * d
    <2>7. m \in Nat /\ c.C % d \in 0 .. d - 1 /\ c.C = y + (c.C % d)
        BY <2>2, <2>6, DivMod
    <2>8. m # 0
        <3>1. ASSUME m = 0 PROVE FALSE
            <4>1. y = 0
                <5> HIDE DEF m
                <5> QED
                    BY <2>2, <3>1
            <4> DEFINE r == c.C % d
            <4>2. r \in Nat /\ r < d /\ c.C = y + r
                BY <2>2, <2>7
            <4> HIDE DEF r, y, m
            <4> QED
                BY <2>2, <2>6, <4>1, <4>2
        <3> QED
            BY <3>1
    <2> HIDE DEF y, m
    <2>9. 1 <= m
        BY <2>7, <2>8
    <2> QED
        BY <2>9 DEF m
<1> QED
    BY <1>1, <1>2, TilesFit

\* Their commands.
LEMMA LoadXCmdsFit ==
    ASSUME NEW c \in Case
    PROVE  Program(CmdsLoadX(c))
<1> DEFINE tiles == Placed(TilesOf(c, c.C, 1), 0)
           piece(t, k) == LET s0 == Pieces(t.d)[k]
                          IN  LoadX(Weights(c) + (t.c0 + s0) * c.W, 1 + s0, Least(LoadRegs, t.d - s0), c.W, t.P, t.d * c.W, c.W)
           load(t) == [k \in DOMAIN Pieces(t.d) |-> piece(t, k)]
           seqs == [i \in DOMAIN tiles |-> TileCmds(c, tiles[i], c.C, load(tiles[i]))]
           n == Len(tiles)
<1>1. CmdsLoadX(c) = FlattenSeq(seqs)
    BY DEF CmdsLoadX, CmdsOf
<1>2. \A t, k : Fits(piece(t, k))
    BY OthersFit
<1> HIDE DEF piece
<1>3. ASSUME NEW t, TileFits(c, t) PROVE Program(load(t))
    <2>1. PICK m \in Nat : DOMAIN Pieces(t.d) = 1 .. m
        BY <1>3, PiecesOf DEF TileFits
    <2> DEFINE q == load(t)
    <2>2. q = [k \in 1 .. m |-> q[k]] /\ \A k \in 1 .. m : q[k] = piece(t, k)
        BY <2>1
    <2> HIDE DEF q
    <2>3. Program(q)
        BY <1>2, <2>2, ProgramMade
    <2> QED
        BY <2>3 DEF q
<1> HIDE DEF load
<1>4. Tiled(c, tiles)
    BY ColumnTilesFit, PlacedFit
<1> HIDE DEF tiles
<1>5. n \in Nat /\ DOMAIN tiles = 1 .. n /\ \A i \in 1 .. n : TileFits(c, tiles[i])
    BY <1>4, ListParts DEF Tiled
<1> HIDE DEF n
<1>6. ASSUME NEW i \in 1 .. n PROVE Program(TileCmds(c, tiles[i], c.C, load(tiles[i])))
    BY <1>3, <1>5, TileCmdsFit
<1>7. seqs = [i \in 1 .. n |-> seqs[i]] /\ \A i \in 1 .. n : Program(seqs[i])
    BY <1>5, <1>6
<1> HIDE DEF seqs
<1> QED
    BY <1>1, <1>5, <1>7, ProgramsJoined

(***************************************************************************)
(* Tiles dealt to the nodes, and row blocks.                               *)
(***************************************************************************)
\* A part of a program.
LEMMA PartOfProgram ==
    ASSUME NEW words, Program(words), NEW lo \in 1 .. Len(words), NEW hi \in Int, hi <= Len(words)
    PROVE  Program(SubSeq(words, lo, hi))
<1>1. Len(words) \in Nat /\ DOMAIN words = 1 .. Len(words) /\ \A i \in 1 .. Len(words) : Fits(words[i])
    BY ListParts DEF Program
<1> DEFINE n == IF lo <= hi THEN (hi - lo) + 1 ELSE 0
           q == SubSeq(words, lo, hi)
<1>2. n \in Nat /\ q = [i \in 1 .. n |-> words[(i + lo) - 1]]
    BY <1>1
<1>3. q = [i \in 1 .. n |-> q[i]] /\ \A i \in 1 .. n : q[i] = words[(i + lo) - 1]
    BY <1>2
<1> HIDE DEF q
<1>4. ASSUME NEW i \in 1 .. n PROVE Fits(q[i])
    <2>1. (i + lo) - 1 \in 1 .. Len(words)
        BY <1>1
    <2> QED
        BY <1>1, <1>3, <2>1
<1> HIDE DEF n
<1>5. Program(q)
    BY <1>2, <1>3, <1>4, ProgramMade
<1> QED
    BY <1>5 DEF q

\* chain_groups: the tiles of a program are programs.
LEMMA GroupsOfProgram ==
    ASSUME NEW words, Program(words)
    PROVE  \E n \in Nat : /\ ChainGroups(words) = [j \in 1 .. n |-> ChainGroups(words)[j]]
                          /\ \A j \in 1 .. n : Program(ChainGroups(words)[j])
<1> DEFINE S == {i \in DOMAIN words :
                    i = 1 \/ (words[i].op = "OUT" /\ i < Len(words) /\ words[i + 1].op \in Loads)}
           starts == InOrder(S)
           n == Len(starts)
           group(j) == SubSeq(words, starts[j], IF j = Len(starts) THEN Len(words) ELSE starts[j + 1] - 1)
           groups == ChainGroups(words)
<1>1. Len(words) \in Nat /\ DOMAIN words = 1 .. Len(words)
    BY ListParts DEF Program
<1>2. S \in SUBSET (1 .. Len(words)) /\ S \in SUBSET Int /\ IsFiniteSet(S)
    <2>1. S \in SUBSET (1 .. Len(words))
        BY <1>1
    <2> HIDE DEF S
    <2>2. IsFiniteSet(1 .. Len(words))
        BY <1>1, FS_Interval
    <2>3. IsFiniteSet(S)
        BY <2>1, <2>2, FS_Subset
    <2>4. S \in SUBSET Int
        BY <1>1, <2>1
    <2> QED
        BY <2>1, <2>3, <2>4
<1>3. groups = [j \in DOMAIN starts |-> group(j)]
    BY DEF ChainGroups
<1> HIDE DEF S
<1>4. starts \in Seq(S)
    BY <1>2, InOrderIn
<1> HIDE DEF starts
<1>5. n \in Nat /\ DOMAIN starts = 1 .. n /\ \A j \in 1 .. n : starts[j] \in S
    BY <1>4, SeqShape
<1>6. ASSUME NEW j \in 1 .. n PROVE Program(group(j))
    <2> DEFINE hi == IF j = Len(starts) THEN Len(words) ELSE starts[j + 1] - 1
    <2>1. starts[j] \in 1 .. Len(words)
        BY <1>2, <1>5
    <2>2. hi \in Int /\ hi <= Len(words)
        <3>1. CASE j = n
            BY <1>1, <3>1
        <3>2. CASE j # n
            <4>1. j + 1 \in 1 .. n
                <5> HIDE DEF n, hi
                <5>1. n \in Nat /\ j \in 1 .. n
                    BY <1>5
                <5> QED
                    BY <3>2, <5>1
            <4>2. starts[j + 1] \in 1 .. Len(words)
                BY <1>2, <1>5, <4>1
            <4> HIDE DEF S
            <4> QED
                BY <1>1, <3>2, <4>2
        <3> QED
            BY <3>1, <3>2
    <2> HIDE DEF hi
    <2>3. Program(SubSeq(words, starts[j], hi))
        BY <2>1, <2>2, PartOfProgram
    <2> QED
        BY <2>3 DEF hi
<1> HIDE DEF group
<1>7. groups = [j \in 1 .. n |-> groups[j]] /\ \A j \in 1 .. n : groups[j] = group(j)
    BY <1>3, <1>5
<1> QED
    BY <1>5, <1>6, <1>7

\* chain_slice_rows: some rows of every tile.
LEMMA SlicedProgram ==
    ASSUME NEW words, Program(words), NEW r0 \in Nat, NEW rows \in Nat \ {0}
    PROVE  Program(ChainSliceRows(words, r0, rows))
<1> DEFINE groups == ChainGroups(words)
           cut(g) == [i \in DOMAIN g |-> SliceCmd(g, g[i], r0, rows)]
           seqs == [k \in DOMAIN groups |-> cut(groups[k])]
<1>1. PICK n \in Nat : groups = [j \in 1 .. n |-> groups[j]] /\ \A j \in 1 .. n : Program(groups[j])
    BY GroupsOfProgram
<1>2. ChainSliceRows(words, r0, rows) = FlattenSeq(seqs)
    BY DEF ChainSliceRows
<1>3. ASSUME NEW g, NEW c, Fits(c) PROVE Fits(SliceCmd(g, c, r0, rows))
    <2>1. CASE c.op = "GROUP"
        BY <1>3, <2>1, SlicedGroupsFit
    <2>2. CASE c.op = "OUT"
        <3>1. SliceCmd(g, c, r0, rows) = [c EXCEPT !.base = @ + r0 * RowOut(g, c)]
            BY <2>2 DEF SliceCmd
        <3>2. SliceCmd(g, c, r0, rows).op = "OUT"
            BY <2>2, <3>1
        <3> QED
            BY <3>2 DEF Fits
    <2>3. CASE c.op \notin {"OUT", "GROUP"}
        BY <1>3, <2>3 DEF SliceCmd
    <2> QED
        BY <2>1, <2>2, <2>3
<1>4. ASSUME NEW g, Program(g) PROVE Program(cut(g))
    <2>1. Len(g) \in Nat /\ DOMAIN g = 1 .. Len(g) /\ \A i \in 1 .. Len(g) : Fits(g[i])
        BY <1>4, ListParts DEF Program
    <2> DEFINE q == cut(g)
    <2>2. q = [i \in 1 .. Len(g) |-> q[i]] /\ \A i \in 1 .. Len(g) : q[i] = SliceCmd(g, g[i], r0, rows)
        BY <2>1
    <2> HIDE DEF q
    <2>3. Program(q)
        BY <1>3, <2>1, <2>2, ProgramMade
    <2> QED
        BY <2>3 DEF q
<1> HIDE DEF cut, groups
<1>5. DOMAIN groups = 1 .. n
    BY <1>1, ListMade
<1>6. seqs = [k \in 1 .. n |-> seqs[k]] /\ \A k \in 1 .. n : Program(seqs[k])
    BY <1>1, <1>4, <1>5
<1> HIDE DEF seqs
<1> QED
    BY <1>2, <1>6, ProgramsJoined

\* The row blocks of a program.
LEMMA BlocksOfProgram ==
    ASSUME NEW c \in Case, NEW words, Program(words)
    PROVE  \E n \in Nat : /\ RowBlocks(words, c) = [k \in 1 .. n |-> RowBlocks(words, c)[k]]
                          /\ \A k \in 1 .. n : Program(RowBlocks(words, c)[k])
<1> DEFINE blocks == RowBlocks(words, c)
<1>1. CASE c.cuts = <<>> \/ ~Sliceable(words, c.T)
    <2>1. blocks = <<words>>
        BY <1>1 DEF RowBlocks
    <2> HIDE DEF blocks
    <2>2. blocks = [k \in 1 .. 1 |-> blocks[k]] /\ \A k \in 1 .. 1 : blocks[k] = words
        BY <2>1
    <2>3. 1 \in Nat
        OBVIOUS
    <2> QED
        BY <2>2, <2>3 DEF blocks
<1>2. CASE ~(c.cuts = <<>> \/ ~Sliceable(words, c.T))
    <2> DEFINE n == Len(c.cuts) - 1
               part(k) == ChainSliceRows(words, c.cuts[k], c.cuts[k + 1] - c.cuts[k])
    <2>1. blocks = [k \in 1 .. n |-> part(k)]
        BY <1>2 DEF RowBlocks
    <2>2. /\ c.cuts \in Seq(Nat) /\ c.cuts # <<>> /\ \A k \in 1 .. Len(c.cuts) - 1 : c.cuts[k] < c.cuts[k + 1]
        BY <1>2, CaseAssumption DEF CaseType
    <2>3. Len(c.cuts) \in Nat /\ Len(c.cuts) # 0 /\ \A k \in 1 .. Len(c.cuts) : c.cuts[k] \in Nat
        <3>1. Len(c.cuts) \in Nat /\ \A k \in 1 .. Len(c.cuts) : c.cuts[k] \in Nat
            BY <2>2, SeqShape
        <3>2. Len(c.cuts) # 0
            BY <2>2
        <3> QED
            BY <3>1, <3>2
    <2>4. ASSUME NEW k \in 1 .. n PROVE Program(part(k))
        <3>1. k \in 1 .. Len(c.cuts) /\ k + 1 \in 1 .. Len(c.cuts)
            BY <2>3
        <3>2. c.cuts[k] \in Nat /\ c.cuts[k + 1] \in Nat /\ c.cuts[k] < c.cuts[k + 1]
            BY <2>2, <2>3, <3>1
        <3>3. c.cuts[k + 1] - c.cuts[k] \in Nat \ {0}
            BY <3>2
        <3> QED
            BY <3>2, <3>3, SlicedProgram
    <2> HIDE DEF blocks, part
    <2>5. blocks = [k \in 1 .. n |-> blocks[k]] /\ \A k \in 1 .. n : Program(blocks[k])
        BY <2>1, <2>4
    <2>6. n \in Nat
        BY <2>3
    <2> QED
        BY <2>5, <2>6 DEF blocks
<1> QED
    BY <1>1, <1>2

\* split_chain: what a node gets of a program, wherever the tiles go.
LEMMA SplitProgram ==
    ASSUME NEW words, Program(words), NEW depths, NEW n \in DOMAIN depths
    PROVE  Program(SplitChain(words, depths)[n])
<1> DEFINE groups == ChainGroups(words)
           S(d) == {k \in DOMAIN groups : TileDepth(groups[k]) = d}
           at(d) == InOrder(S(d))
           mine(d) == [i \in DOMAIN at(d) |-> groups[at(d)[i]]]
           same(k) == {j \in DOMAIN depths : depths[j] = depths[k]}
           bins == [d \in ToSet(depths) |-> Lpt(mine(d), Cardinality({k \in DOMAIN depths : depths[k] = d}))]
           index(k) == Cardinality({j \in same(k) : j <= k})
           seqs(k) == [i \in DOMAIN mine(depths[k]) |-> IF bins[depths[k]][i] = index(k) THEN mine(depths[k])[i] ELSE <<>>]
<1>1. SplitChain(words, depths) = [k \in DOMAIN depths |-> FlattenSeq(seqs(k))]
    BY DEF SplitChain
<1> HIDE DEF bins, index
<1>2. PICK m \in Nat : groups = [j \in 1 .. m |-> groups[j]] /\ \A j \in 1 .. m : Program(groups[j])
    BY GroupsOfProgram
<1> HIDE DEF groups
<1>3. DOMAIN groups = 1 .. m
    BY <1>2, ListMade
<1> DEFINE d == depths[n]
           q == mine(d)
           a == at(d)
<1>4. S(d) \in SUBSET (1 .. m) /\ S(d) \in SUBSET Int /\ IsFiniteSet(S(d))
    <2> DEFINE s == S(d)
    <2>1. s \in SUBSET (1 .. m)
        BY <1>3
    <2> HIDE DEF s
    <2>2. IsFiniteSet(1 .. m)
        BY <1>2, FS_Interval
    <2>3. IsFiniteSet(s)
        BY <2>1, <2>2, FS_Subset
    <2>4. s \in SUBSET Int
        BY <1>2, <2>1
    <2> QED
        BY <2>1, <2>3, <2>4 DEF s
<1>5. a \in Seq(S(d))
    <2> HIDE DEF S
    <2> QED
        BY <1>4, InOrderIn
<1>6. q = [i \in DOMAIN a |-> groups[a[i]]]
    BY DEF a, q
<1> HIDE DEF a, S
<1> DEFINE len == Len(a)
<1>7. len \in Nat /\ DOMAIN a = 1 .. len /\ \A i \in 1 .. len : a[i] \in 1 .. m
    BY <1>4, <1>5, SeqShape
<1> HIDE DEF len
<1>8. DOMAIN q = 1 .. len /\ \A i \in 1 .. len : Program(q[i])
    <2> HIDE DEF q
    <2> QED
        BY <1>2, <1>6, <1>7
<1> DEFINE s == seqs(n)
<1>9. s = [i \in DOMAIN q |-> IF bins[d][i] = index(n) THEN q[i] ELSE <<>>]
    BY DEF s, q, d
<1> HIDE DEF q, s
<1>10. s = [i \in 1 .. len |-> s[i]] /\ \A i \in 1 .. len : s[i] = IF bins[d][i] = index(n) THEN q[i] ELSE <<>>
    BY <1>8, <1>9
<1>11. \A i \in 1 .. len : Program(s[i])
    BY <1>8, <1>10, ProgramOfNone
<1>12. Program(FlattenSeq(s))
    BY <1>7, <1>10, <1>11, ProgramsJoined
<1> QED
    BY <1>1, <1>12 DEF s

(***************************************************************************)
(* The golden programs.                                                    *)
(***************************************************************************)
\* A group of a feeder that is not in halves.
LEMMA GroupFits ==
    ASSUME NEW base \in Nat, NEW T \in Nat \ {0}, NEW wt \in Nat, NEW W \in Nat \ {0}, NEW M \in Nat \ {0},
           NEW P \in Nat \ {0}, NEW G \in Nat \ {0}, NEW stride \in Nat, M * W <= Words, P * W <= Words
    PROVE  Fits(Group(base, T, wt, W, M, P, G, stride, FALSE))
<1> DEFINE S == IF stride = 0 THEN W ELSE stride
           g == [op |-> "GROUP", base |-> base, T |-> T, wt |-> wt, W |-> W, M |-> M, P |-> P, G |-> G,
                 S |-> S, db |-> FALSE]
<1>1. Group(base, T, wt, W, M, P, G, stride, FALSE) = g
    BY DEF Group
<1>2. S \in Nat \ {0}
    OBVIOUS
<1> HIDE DEF S
<1>3. g \in GroupCommands
    BY <1>2 DEF GroupCommands
<1>4. g.op = "GROUP" /\ g.M = M /\ g.W = W /\ g.P = P /\ g.db = FALSE
    OBVIOUS
<1> HIDE DEF g
<1>5. g.M * g.W <= (IF g.db THEN Words \div 2 ELSE Words) /\ g.P * g.W <= Words
    BY <1>4
<1> QED
    BY <1>1, <1>3, <1>4, <1>5 DEF Fits

\* The tiles of the wide GEMM: as many columns as a stage holds.
LEMMA WideTilesFit ==
    ASSUME NEW c \in Case, c.path = "wide"
    PROVE  \E n \in Nat : /\ DOMAIN WideTiles(c) = 1 .. n /\ Len(WideTiles(c)) = n /\ c.groups \in 1 .. n
                          /\ \A i \in 1 .. n : TileFits(c, WideTiles(c)[i])
<1> DEFINE d == c.nodes[1]
           q == Words \div c.W
           per == d * q
           n == c.C \div per
           tileOf(t) == [P |-> q, d |-> d, c0 |-> (t - 1) * per, img |-> Weights(c) + (t - 1) * per * c.W]
           tiles == WideTiles(c)
<1>1. tiles = [t \in 1 .. n |-> tileOf(t)]
    BY DEF WideTiles
<1>2. q \in Nat \ {0} /\ q * c.W <= Words
    <2>1. q \in Nat \ {0} /\ \A k \in Nat : k <= q => k * c.W <= Words
        BY ColumnsOfStage
    <2> HIDE DEF q
    <2> QED
        BY <2>1
<1>3. d \in Nat \ {0}
    <2>1. c.nodes \in Seq(Nat \ {0}) /\ Len(c.nodes) # 0
        BY DepthsOf
    <2>2. Len(c.nodes) \in Nat /\ \A i \in 1 .. Len(c.nodes) : c.nodes[i] \in Nat \ {0}
        BY <2>1, SeqShape
    <2>3. 1 \in 1 .. Len(c.nodes)
        BY <2>1, <2>2
    <2> QED
        BY <2>2, <2>3
<1>4. c.groups \in 1 .. n
    BY GoldenAssumption
<1>5. n \in Nat
    <2>1. c.C \in Nat
        BY CaseAssumption DEF CaseType
    <2> HIDE DEF d, q
    <2>2. per \in Nat \ {0}
        BY <1>2, <1>3
    <2> HIDE DEF per
    <2> QED
        BY <2>1, <2>2, DivMod
<1> HIDE DEF n, per, q, d
<1>6. ASSUME NEW i \in 1 .. n PROVE TileFits(c, tileOf(i))
    <2>1. tileOf(i).P = q /\ tileOf(i).d = d
        OBVIOUS
    <2> QED
        BY <1>2, <1>3, <2>1 DEF TileFits
<1> HIDE DEF tileOf, tiles
<1>7. DOMAIN tiles = 1 .. n /\ Len(tiles) = n /\ \A i \in 1 .. n : tiles[i] = tileOf(i)
    BY <1>1, <1>5
<1> QED
    BY <1>4, <1>5, <1>6, <1>7 DEF tiles

\* pi0_wide_gemm_golden.py: the commands of a tile, from row r0 on, for column group g.
WideTile(c, t, r0, g) ==
    <<Out(r0 * c.C + t.c0, (t.P * t.d) \div Cells, c.C - t.P * t.d), Load(t.img, 1, t.d, t.P * c.W), g, Flush>>
OfWideTile(c, q) ==
    \E k \in DOMAIN WideTiles(c) : \E r0 \in Nat : \E g :
        LET t == WideTiles(c)[k]
        IN  q = WideTile(c, t, r0, g) /\ TileFits(c, t) /\ Fits(g) /\ g.op = "GROUP" /\ g.P = t.P

\* The program of a node is tiles of the matrix.
LEMMA WideTilesMade ==
    ASSUME NEW c \in Case, c.path = "wide", NEW n \in DOMAIN c.nodes
    PROVE  \E len \in Nat : \E seqs :
             /\ WideProgram(c, n) = FlattenSeq(seqs) /\ seqs = [i \in 1 .. len |-> seqs[i]]
             /\ \A i \in 1 .. len : OfWideTile(c, seqs[i])
<1> DEFINE tiles == WideTiles(c)
           slices == Len(c.nodes) \div c.groups
           tg == (n - 1) \div slices
           rs == (n - 1) % slices
           r0 == ShareStart(c.T, slices, rs)
           nr == Share(c.T, slices, rs)
           M == IF c.feeder = 0 THEN Least(c.T, Words \div c.W) ELSE c.feeder
           group(t) == Group(r0 * c.W, nr, 0, c.W, Least(M, nr), t.P, Max({1, t.d - c.W, MinPass - c.W}), 0, FALSE)
           one(t) == <<Out(r0 * c.C + t.c0, (t.P * t.d) \div Cells, c.C - t.P * t.d), Load(t.img, 1, t.d, t.P * c.W),
                       group(t), Flush>>
           len == Share(Len(tiles), c.groups, tg)
           from == ShareStart(Len(tiles), c.groups, tg)
           seqs == [i \in 1 .. len |-> one(tiles[from + (i - 1) + 1])]
<1>1. WideProgram(c, n) = FlattenSeq(seqs)
    BY DEF WideProgram, Flat
<1>2. PICK many \in Nat : /\ DOMAIN tiles = 1 .. many /\ Len(tiles) = many /\ c.groups \in 1 .. many
                          /\ \A i \in 1 .. many : TileFits(c, tiles[i])
    BY WideTilesFit
<1> HIDE DEF tiles
<1>3. /\ c.T \in Nat \ {0} /\ c.W \in Nat \ {0} /\ c.feeder \in Nat /\ MinPass \in Nat
      /\ Len(c.nodes) \in Nat \ {0} /\ n \in 1 .. Len(c.nodes) /\ Len(c.nodes) % c.groups = 0
      /\ slices <= c.T /\ c.feeder <= Words \div c.W
    <2>1. c.T \in Nat \ {0} /\ c.W \in Nat \ {0} /\ c.feeder \in Nat /\ MinPass \in Nat
        BY CaseAssumption DEF CaseType
    <2>2. Len(c.nodes) % c.groups = 0 /\ slices <= c.T /\ c.feeder <= Words \div c.W
        BY GoldenAssumption
    <2>3. c.nodes \in Seq(Nat \ {0}) /\ Len(c.nodes) # 0
        BY DepthsOf
    <2>4. Len(c.nodes) \in Nat /\ DOMAIN c.nodes = 1 .. Len(c.nodes)
        BY <2>3, SeqShape
    <2> QED
        BY <2>1, <2>2, <2>3, <2>4
<1>4. slices \in Nat \ {0} /\ tg \in 0 .. c.groups - 1 /\ rs \in 0 .. slices - 1
    <2> DEFINE l == Len(c.nodes)
               g == c.groups
    <2>1. l \in Nat \ {0} /\ g \in Nat \ {0} /\ l % g = 0 /\ n \in 1 .. l
        BY <1>2, <1>3
    <2> HIDE DEF l, g
    <2>2. LET s == l \div g
          IN  s \in Nat \ {0} /\ (n - 1) \div s \in 0 .. g - 1 /\ (n - 1) % s \in 0 .. s - 1
        BY <2>1, SlicesOfGroups
    <2> QED
        BY <2>2 DEF l, g
<1> HIDE DEF slices, tg, rs
<1>5. r0 \in Nat /\ nr \in Nat \ {0}
    <2>1. r0 \in Nat
        BY <1>3, <1>4, SharesWithin
    <2>2. c.T <= slices * c.T
        <3>1. 1 * c.T <= slices * c.T /\ 1 * c.T = c.T
            BY <1>3, <1>4, TimesMonotone
        <3> QED
            BY <3>1
    <2>3. nr \in Nat \ {0}
        BY <1>3, <1>4, <2>2, ShareFits
    <2> QED
        BY <2>1, <2>3
<1>6. from \in Nat /\ len \in Nat /\ from + len <= many
    <2>1. many \in Nat /\ c.groups \in Nat \ {0}
        BY <1>2
    <2> QED
        BY <1>2, <1>4, <2>1, SharesWithin
<1>7. Least(M, nr) \in Nat \ {0} /\ Least(M, nr) * c.W <= Words
    <2> DEFINE q == Words \div c.W
               m == Least(M, nr)
    <2>1. q \in Nat \ {0} /\ \A k \in Nat : k <= q => k * c.W <= Words
        BY ColumnsOfStage
    <2>2. M \in Nat \ {0} /\ M <= q
        <3>1. c.feeder <= q
            BY <1>3
        <3> HIDE DEF q
        <3>2. M = IF c.feeder = 0 THEN Least(c.T, q) ELSE c.feeder
            BY DEF q
        <3>3. c.feeder \in Nat /\ c.T \in Nat \ {0}
            BY <1>3
        <3> HIDE DEF M
        <3> QED
            BY <2>1, <3>1, <3>2, <3>3 DEF Least
    <2> HIDE DEF q, M, nr
    <2>3. m \in Nat \ {0} /\ m <= q
        BY <1>5, <2>1, <2>2 DEF Least
    <2> HIDE DEF m
    <2>4. m * c.W <= Words
        BY <2>1, <2>3
    <2> QED
        BY <2>3, <2>4 DEF m
<1> HIDE DEF r0, nr, M
<1>8. ASSUME NEW t, TileFits(c, t) PROVE Fits(group(t)) /\ group(t).op = "GROUP" /\ group(t).P = t.P
    <2> DEFINE G == Max({1, t.d - c.W, MinPass - c.W})
               m == Least(M, nr)
               base == r0 * c.W
    <2>1. t.P \in Nat \ {0} /\ t.d \in Nat \ {0} /\ t.P * c.W <= Words
        BY <1>8 DEF TileFits
    <2>2. G \in Nat \ {0}
        <3>1. 1 \in Int /\ t.d - c.W \in Int /\ MinPass - c.W \in Int
            BY <1>3, <2>1
        <3>2. G \in Int /\ G >= 1
            BY <3>1, MaxOfThree
        <3> QED
            BY <3>2
    <2>3. base \in Nat
        BY <1>3, <1>5
    <2>4. Fits(group(t))
        <3>2. m \in Nat \ {0} /\ m * c.W <= Words
            BY <1>7
        <3> HIDE DEF G, m, base
        <3>3. c.W \in Nat \ {0} /\ 0 \in Nat
            BY <1>3
        <3>1. Fits(Group(base, nr, 0, c.W, m, t.P, G, 0, FALSE))
            BY <1>5, <2>1, <2>2, <2>3, <3>2, <3>3, GroupFits
        <3> QED
            BY <3>1 DEF G, m, base
    <2>5. group(t).op = "GROUP" /\ group(t).P = t.P
        BY DEF Group
    <2> QED
        BY <2>4, <2>5
<1>11. \A t : one(t) = WideTile(c, t, r0, group(t))
    BY DEF WideTile
<1> HIDE DEF one, len, from, group
<1>9. ASSUME NEW i \in 1 .. len PROVE from + (i - 1) + 1 \in 1 .. many
    BY <1>6
<1>10. seqs = [i \in 1 .. len |-> seqs[i]] /\ \A i \in 1 .. len : seqs[i] = one(tiles[from + (i - 1) + 1])
    OBVIOUS
<1> HIDE DEF seqs
<1>12. ASSUME NEW i \in 1 .. len PROVE OfWideTile(c, seqs[i])
    <2> DEFINE k == from + (i - 1) + 1
    <2>1. k \in DOMAIN tiles /\ k \in 1 .. many /\ seqs[i] = one(tiles[k])
        BY <1>2, <1>9, <1>10
    <2> HIDE DEF k
    <2> DEFINE t == tiles[k]
               g == group(t)
    <2>2. TileFits(c, t)
        BY <1>2, <2>1
    <2>3. Fits(g) /\ g.op = "GROUP" /\ g.P = t.P
        BY <1>8, <2>2
    <2>4. seqs[i] = WideTile(c, t, r0, g)
        BY <1>11, <2>1
    <2> HIDE DEF g
    <2>5. LET u == WideTiles(c)[k]
          IN  seqs[i] = WideTile(c, u, r0, g) /\ TileFits(c, u) /\ Fits(g) /\ g.op = "GROUP" /\ g.P = u.P
        BY <2>2, <2>3, <2>4 DEF tiles
    <2>6. k \in DOMAIN WideTiles(c)
        BY <2>1 DEF tiles
    <2> QED
        BY <1>5, <2>5, <2>6 DEF OfWideTile
<1>14. WideProgram(c, n) = FlattenSeq(seqs) /\ seqs = [i \in 1 .. len |-> seqs[i]] /\ len \in Nat
    BY <1>1, <1>6, <1>10
<1> HIDE DEF r0, nr, M, group, one, len, from, seqs
<1> QED
    BY <1>12, <1>14

\* They fit the node.
LEMMA WideProgramFits ==
    ASSUME NEW c \in Case, c.path = "wide", NEW n \in DOMAIN c.nodes
    PROVE  Program(WideProgram(c, n))
<1>1. PICK len \in Nat :
        \E seqs : /\ WideProgram(c, n) = FlattenSeq(seqs) /\ seqs = [i \in 1 .. len |-> seqs[i]]
                  /\ \A i \in 1 .. len : OfWideTile(c, seqs[i])
    BY WideTilesMade
<1>2. PICK seqs : /\ WideProgram(c, n) = FlattenSeq(seqs) /\ seqs = [i \in 1 .. len |-> seqs[i]]
                  /\ \A i \in 1 .. len : OfWideTile(c, seqs[i])
    BY <1>1
<1>3. ASSUME NEW t, NEW r0, NEW g, Fits(g) PROVE Program(WideTile(c, t, r0, g))
    <2> DEFINE a == Out(r0 * c.C + t.c0, (t.P * t.d) \div Cells, c.C - t.P * t.d)
               b == Load(t.img, 1, t.d, t.P * c.W)
               q == WideTile(c, t, r0, g)
    <2>1. Fits(a) /\ Fits(b) /\ Fits(Flush) /\ Fits(g)
        BY <1>3, OthersFit
    <2>2. q = <<a, b, g, Flush>>
        BY DEF WideTile
    <2> HIDE DEF q, a, b
    <2>3. q = [i \in 1 .. 4 |-> q[i]] /\ \A i \in 1 .. 4 : q[i] \in {a, b, g, Flush}
        BY <2>2
    <2>4. \A i \in 1 .. 4 : Fits(q[i])
        BY <2>1, <2>3
    <2>5. Program(q)
        BY <2>3, <2>4, ProgramMade
    <2> QED
        BY <2>5 DEF q
<1>4. \A i \in 1 .. len : Program(seqs[i])
    BY <1>2, <1>3 DEF OfWideTile
<1> QED
    BY <1>2, <1>4, ProgramsJoined

\* The bench waits between row passes.
LEMMA BenchGapPositive ==
    ASSUME NEW W \in Nat
    PROVE  BenchGap(W) \in Nat \ {0}
<1>1. 1 \in Int /\ Stages - W \in Int /\ MinPass - W \in Int
    BY BenchAssumption, CaseAssumption
<1>2. BenchGap(W) \in Int /\ BenchGap(W) >= 1
    BY <1>1, MaxOfThree DEF BenchGap
<1> QED
    BY <1>2

\* The tiles and the groups of the bench.
LEMMA BenchCommandsFit ==
    /\ \A i \in DOMAIN BenchTiles : Fits(OneTile(BenchTiles[i]))
    /\ \A i \in DOMAIN BenchGroups : Fits(OneGroup(BenchGroups[i]))
    /\ \A i \in DOMAIN BenchSlices : Fits(OneSlice(BenchSlices[i]))
<1>1. Words \in Nat /\ ActA = 0 /\ ActB = Words
    BY CaseAssumption DEF ActA, ActB
<1>2. ASSUME NEW t \in [ab : Nat, wb : Nat, W : Nat \ {0}, M : Nat \ {0}, P : Nat \ {0}], Fitting(t)
      PROVE  Fits(OneTile(t))
    <2> DEFINE G == BenchGap(t.W)
               c == [op |-> "TILE", act |-> t.ab, wt |-> t.wb, W |-> t.W, M |-> t.M, P |-> t.P, G |-> G]
    <2>1. G \in Nat \ {0}
        BY BenchGapPositive
    <2>2. OneTile(t) = c
        BY DEF OneTile, Tile
    <2> HIDE DEF G
    <2>3. c \in TileCommands /\ c.op = "TILE" /\ c.M = t.M /\ c.W = t.W /\ c.P = t.P
        BY <2>1 DEF TileCommands
    <2> HIDE DEF c
    <2>4. c.M * c.W <= Words /\ c.P * c.W <= Words
        BY <1>2, <2>3 DEF Fitting
    <2> QED
        BY <2>2, <2>3, <2>4 DEF Fits
<1>3. ASSUME NEW g \in [ab : Nat, wb : Nat, W : Nat \ {0}, T : Nat \ {0}, M : Nat \ {0}, P : Nat \ {0}], Fitting(g)
      PROVE  Fits(OneGroup(g))
    <2> DEFINE G == BenchGap(g.W)
               base == ActB + g.ab
    <2>1. G \in Nat \ {0} /\ base \in Nat /\ g.M * g.W <= Words /\ g.P * g.W <= Words
        BY <1>1, <1>3, BenchGapPositive DEF Fitting
    <2>2. OneGroup(g) = Group(base, g.T, g.wb, g.W, g.M, g.P, G, 0, FALSE)
        BY DEF OneGroup
    <2> HIDE DEF G, base
    <2>3. Fits(Group(base, g.T, g.wb, g.W, g.M, g.P, G, 0, FALSE))
        BY <2>1, GroupFits
    <2> QED
        BY <2>2, <2>3
<1>4. ASSUME NEW g \in [o : Nat, wb : Nat, W : Nat \ {0}, S : Nat \ {0}, T : Nat \ {0}, M : Nat \ {0}, P : Nat \ {0}],
             Fitting(g)
      PROVE  Fits(OneSlice(g))
    <2> DEFINE G == BenchGap(g.W)
               base == ActA + g.o
    <2>1. G \in Nat \ {0} /\ base \in Nat /\ g.M * g.W <= Words /\ g.P * g.W <= Words
        BY <1>1, <1>4, BenchGapPositive DEF Fitting
    <2>2. OneSlice(g) = Group(base, g.T, g.wb, g.W, g.M, g.P, G, g.S, FALSE)
        BY DEF OneSlice
    <2> HIDE DEF G, base
    <2>3. Fits(Group(base, g.T, g.wb, g.W, g.M, g.P, G, g.S, FALSE))
        BY <2>1, GroupFits
    <2> QED
        BY <2>2, <2>3
<1>5. \A i \in DOMAIN BenchTiles :
          BenchTiles[i] \in [ab : Nat, wb : Nat, W : Nat \ {0}, M : Nat \ {0}, P : Nat \ {0}] /\ Fitting(BenchTiles[i])
    <2> DEFINE R == [ab : Nat, wb : Nat, W : Nat \ {0}, M : Nat \ {0}, P : Nat \ {0}]
    <2>1. BenchTiles \in Seq(R) /\ \A g \in ToSet(BenchTiles) : Fitting(g)
        BY BenchAssumption
    <2> HIDE DEF R
    <2>2. DOMAIN BenchTiles = 1 .. Len(BenchTiles) /\ \A i \in 1 .. Len(BenchTiles) : BenchTiles[i] \in R
        BY <2>1, SeqShape
    <2>3. \A i \in DOMAIN BenchTiles : BenchTiles[i] \in R /\ Fitting(BenchTiles[i])
        BY <2>1, <2>2 DEF ToSet
    <2> QED
        BY <2>3 DEF R
<1>6. \A i \in DOMAIN BenchGroups :
          /\ BenchGroups[i] \in [ab : Nat, wb : Nat, W : Nat \ {0}, T : Nat \ {0}, M : Nat \ {0}, P : Nat \ {0}]
          /\ Fitting(BenchGroups[i])
    <2> DEFINE R == [ab : Nat, wb : Nat, W : Nat \ {0}, T : Nat \ {0}, M : Nat \ {0}, P : Nat \ {0}]
    <2>1. BenchGroups \in Seq(R) /\ \A g \in ToSet(BenchGroups) : Fitting(g)
        BY BenchAssumption
    <2> HIDE DEF R
    <2>2. DOMAIN BenchGroups = 1 .. Len(BenchGroups) /\ \A i \in 1 .. Len(BenchGroups) : BenchGroups[i] \in R
        BY <2>1, SeqShape
    <2>3. \A i \in DOMAIN BenchGroups : BenchGroups[i] \in R /\ Fitting(BenchGroups[i])
        BY <2>1, <2>2 DEF ToSet
    <2> QED
        BY <2>3 DEF R
<1>7. \A i \in DOMAIN BenchSlices :
          /\ BenchSlices[i] \in [o : Nat, wb : Nat, W : Nat \ {0}, S : Nat \ {0}, T : Nat \ {0}, M : Nat \ {0}, P : Nat \ {0}]
          /\ Fitting(BenchSlices[i])
    <2> DEFINE R == [o : Nat, wb : Nat, W : Nat \ {0}, S : Nat \ {0}, T : Nat \ {0}, M : Nat \ {0}, P : Nat \ {0}]
    <2>1. BenchSlices \in Seq(R) /\ \A g \in ToSet(BenchSlices) : Fitting(g)
        BY BenchAssumption
    <2> HIDE DEF R
    <2>2. DOMAIN BenchSlices = 1 .. Len(BenchSlices) /\ \A i \in 1 .. Len(BenchSlices) : BenchSlices[i] \in R
        BY <2>1, SeqShape
    <2>3. \A i \in DOMAIN BenchSlices : BenchSlices[i] \in R /\ Fitting(BenchSlices[i])
        BY <2>1, <2>2 DEF ToSet
    <2> QED
        BY <2>3 DEF R
<1> QED
    BY <1>2, <1>3, <1>4, <1>5, <1>6, <1>7

\* A list that is made one command for each member of another.
LEMMA ProgramOver ==
    ASSUME NEW S, NEW s \in Seq(S), NEW q, DOMAIN q = DOMAIN s, q = [i \in DOMAIN s |-> q[i]],
           \A i \in DOMAIN s : Fits(q[i])
    PROVE  Program(q)
<1>1. Len(s) \in Nat /\ DOMAIN s = 1 .. Len(s)
    BY SeqShape
<1> QED
    BY <1>1, ProgramMade

\* colpar_tile_golden.py: the program of the bench.
LEMMA BenchProgramFits == Program(BenchProgram)
<1> DEFINE b == BenchBlock
           gap == b.P * Stages
           first(t) == Out(Len(Sequential) + t * gap, gap \div Cells, gap)
           group(t) == Group(ActA + b.oc, b.T, BlockWt(b, t), b.W, b.M, b.P, BenchGap(b.W), b.W, FALSE)
           block(t) == <<first(t), group(t), Flush>>
           p1 == <<Out(0, 0, 0), Load(ActA, 0, 1, Words)>>
           p2 == Regs(LAMBDA s0, n : Load(WeightOf(s0), 1 + s0, n, Words))
           p3 == [i \in DOMAIN BenchTiles |-> OneTile(BenchTiles[i])]
           p4 == [i \in DOMAIN BenchGroups |-> OneGroup(BenchGroups[i])]
           p5 == Regs(LAMBDA s0, n : LoadX(ActB + b.k0 + s0 * b.Wk, 1 + s0, n, b.Wk, b.Pk, Stages * b.Wk, b.Wk))
           p6 == [i \in DOMAIN BenchSlices |-> OneSlice(BenchSlices[i])]
           p7 == <<Flush>>
<1>1. BenchProgram = p1 \o p2 \o p3 \o p4 \o p5 \o p6 \o p7 \o block(0) \o block(1) \o p7
    BY DEF BenchProgram
<1>2. Program(p1) /\ Program(p7)
    BY OthersFit, ProgramOfOne, ProgramOfTwo
<1> DEFINE many == UpDiv(Stages, LoadRegs)
<1>3. many \in Nat
    BY BenchAssumption, CaseAssumption, RoundedUp
<1>4. Program(p2)
    <2> DEFINE piece(k) == LET s0 == (k - 1) * LoadRegs
                           IN  Load(WeightOf(s0), 1 + s0, Least(LoadRegs, Stages - s0), Words)
    <2>1. p2 = [k \in 1 .. many |-> piece(k)]
        BY DEF Regs
    <2>2. \A k : Fits(piece(k))
        BY OthersFit
    <2> HIDE DEF p2, piece, many
    <2>3. p2 = [k \in 1 .. many |-> p2[k]] /\ \A k \in 1 .. many : Fits(p2[k])
        BY <2>1, <2>2
    <2> QED
        BY <1>3, <2>3, ProgramMade
<1>5. Program(p5)
    <2> DEFINE piece(k) == LET s0 == (k - 1) * LoadRegs
                           IN  LoadX(ActB + b.k0 + s0 * b.Wk, 1 + s0, Least(LoadRegs, Stages - s0), b.Wk, b.Pk,
                                     Stages * b.Wk, b.Wk)
    <2>1. p5 = [k \in 1 .. many |-> piece(k)]
        BY DEF Regs
    <2>2. \A k : Fits(piece(k))
        BY OthersFit
    <2> HIDE DEF p5, piece, many
    <2>3. p5 = [k \in 1 .. many |-> p5[k]] /\ \A k \in 1 .. many : Fits(p5[k])
        BY <2>1, <2>2
    <2> QED
        BY <1>3, <2>3, ProgramMade
<1>6. Program(p3)
    <2>1. p3 = [i \in DOMAIN BenchTiles |-> p3[i]] /\ \A i \in DOMAIN BenchTiles : Fits(p3[i])
        BY BenchCommandsFit
    <2>2. DOMAIN p3 = DOMAIN BenchTiles
        OBVIOUS
    <2> HIDE DEF p3
    <2> QED
        BY <2>1, <2>2, BenchAssumption, ProgramOver
<1>7. Program(p4)
    <2>1. p4 = [i \in DOMAIN BenchGroups |-> p4[i]] /\ \A i \in DOMAIN BenchGroups : Fits(p4[i])
        BY BenchCommandsFit
    <2>2. DOMAIN p4 = DOMAIN BenchGroups
        OBVIOUS
    <2> HIDE DEF p4
    <2> QED
        BY <2>1, <2>2, BenchAssumption, ProgramOver
<1>8. Program(p6)
    <2>1. p6 = [i \in DOMAIN BenchSlices |-> p6[i]] /\ \A i \in DOMAIN BenchSlices : Fits(p6[i])
        BY BenchCommandsFit
    <2>2. DOMAIN p6 = DOMAIN BenchSlices
        OBVIOUS
    <2> HIDE DEF p6
    <2> QED
        BY <2>1, <2>2, BenchAssumption, ProgramOver
<1>9. ASSUME NEW t \in {0, 1} PROVE Program(block(t))
    <2>1. /\ b \in [k0 : Nat, Wk : Nat, Pk : Nat, oc : Nat, W : Nat \ {0}, T : Nat \ {0}, M : Nat \ {0}, P : Nat \ {0}]
          /\ Fitting(b)
        BY BenchAssumption
    <2> HIDE DEF b
    <2> DEFINE G == BenchGap(b.W)
               wt == BlockWt(b, t)
               base == ActA + b.oc
    <2>2. G \in Nat \ {0} /\ base \in Nat /\ b.M * b.W <= Words /\ b.P * b.W <= Words /\ b.W \in Nat
        BY <2>1, BenchGapPositive DEF ActA, Fitting
    <2>3. wt \in Nat
        <3> DEFINE x == b.Pk * b.Wk
                   y == b.P * b.W
        <3>1. x \in Nat /\ y \in Nat
            BY <2>1
        <3>2. wt = x + (t * b.P) * b.W
            BY DEF BlockWt
        <3>3. (t * b.P) * b.W \in {0, y}
            <4>1. CASE t = 0
                BY <2>1, <4>1
            <4>2. CASE t = 1
                BY <2>1, <4>2
            <4> QED
                BY <4>1, <4>2
        <3> HIDE DEF x, y
        <3> QED
            BY <3>1, <3>2, <3>3
    <2>4. Fits(group(t))
        <3> HIDE DEF G, wt, base
        <3>1. Fits(Group(base, b.T, wt, b.W, b.M, b.P, G, b.W, FALSE))
            BY <2>1, <2>2, <2>3, GroupFits
        <3> QED
            BY <3>1 DEF G, wt, base
    <2>5. Fits(first(t)) /\ Fits(Flush)
        BY OthersFit
    <2> DEFINE q == block(t)
               u == first(t)
               g == group(t)
    <2>6. q = <<u, g, Flush>>
        OBVIOUS
    <2> HIDE DEF q, u, g
    <2>7. q = [i \in 1 .. 3 |-> q[i]] /\ \A i \in 1 .. 3 : q[i] \in {u, g, Flush}
        BY <2>6
    <2>8. \A i \in 1 .. 3 : Fits(q[i])
        BY <2>4, <2>5, <2>7 DEF u, g
    <2>9. Program(q)
        BY <2>7, <2>8, ProgramMade
    <2> QED
        BY <2>9 DEF q
<1> DEFINE b0 == block(0)
           b1 == block(1)
<1>10. Program(b0) /\ Program(b1) /\ BenchProgram = p1 \o p2 \o p3 \o p4 \o p5 \o p6 \o p7 \o b0 \o b1 \o p7
    BY <1>1, <1>9
<1> HIDE DEF p1, p2, p3, p4, p5, p6, p7, b0, b1
<1>11. Program(p1 \o p2)
    BY <1>2, <1>4, ProgramJoined
<1>12. Program(p1 \o p2 \o p3)
    BY <1>6, <1>11, ProgramJoined
<1>13. Program(p1 \o p2 \o p3 \o p4)
    BY <1>7, <1>12, ProgramJoined
<1>14. Program(p1 \o p2 \o p3 \o p4 \o p5)
    BY <1>5, <1>13, ProgramJoined
<1>15. Program(p1 \o p2 \o p3 \o p4 \o p5 \o p6)
    BY <1>8, <1>14, ProgramJoined
<1>16. Program(p1 \o p2 \o p3 \o p4 \o p5 \o p6 \o p7)
    BY <1>2, <1>15, ProgramJoined
<1>17. Program(p1 \o p2 \o p3 \o p4 \o p5 \o p6 \o p7 \o b0)
    BY <1>10, <1>16, ProgramJoined
<1>18. Program(p1 \o p2 \o p3 \o p4 \o p5 \o p6 \o p7 \o b0 \o b1)
    BY <1>10, <1>17, ProgramJoined
<1>19. Program(p1 \o p2 \o p3 \o p4 \o p5 \o p6 \o p7 \o b0 \o b1 \o p7)
    BY <1>2, <1>18, ProgramJoined
<1> QED
    BY <1>10, <1>19

(***************************************************************************)
(* Every program fits.                                                     *)
(***************************************************************************)
\* The parts of a stage for a node: what it gets of every row block.
LEMMA DealtPartsFit ==
    ASSUME NEW c \in Case, c.path \in {"load", "loadx"}, NEW n \in DOMAIN c.nodes
    PROVE  Program(FlattenSeq(PartsOf(c)[n]))
<1> DEFINE words == Words0(c)
           blocks == RowBlocks(words, c)
           split == [k \in DOMAIN blocks |-> SplitChain(blocks[k], c.nodes)]
           q == PartsOf(c)[n]
<1>1. Program(words)
    BY LoadCmdsFit, LoadXCmdsFit DEF Words0
<1>2. PartsOf(c) = SplitBlocks(blocks, c.nodes)
    BY DEF PartsOf
<1> HIDE DEF words
<1>3. PICK m \in Nat : blocks = [k \in 1 .. m |-> blocks[k]] /\ \A k \in 1 .. m : Program(blocks[k])
    BY <1>1, BlocksOfProgram
<1>4. q = [k \in DOMAIN blocks |-> split[k][n]]
    BY <1>2 DEF SplitBlocks
<1> HIDE DEF blocks, q
<1>5. DOMAIN blocks = 1 .. m
    BY <1>3, ListMade
<1>6. ASSUME NEW k \in 1 .. m PROVE Program(split[k][n])
    BY <1>3, <1>5, SplitProgram
<1> HIDE DEF split
<1>7. q = [k \in 1 .. m |-> q[k]] /\ \A k \in 1 .. m : Program(q[k])
    BY <1>4, <1>5, <1>6
<1>8. Program(FlattenSeq(q))
    BY <1>3, <1>7, ProgramsJoined
<1> QED
    BY <1>8 DEF q

\* The one part of a golden program.
LEMMA OnePartFits ==
    ASSUME NEW words, Program(words)
    PROVE  Program(FlattenSeq(<<words>>))
<1> DEFINE q == <<words>>
<1>1. q = [k \in 1 .. 1 |-> q[k]] /\ \A k \in 1 .. 1 : q[k] = words
    OBVIOUS
<1>2. 1 \in Nat
    OBVIOUS
<1> HIDE DEF q
<1>3. Program(FlattenSeq(q))
    BY <1>1, <1>2, ProgramsJoined
<1> QED
    BY <1>3 DEF q

\* Whatever the GEMM, its tiler, the depths of its nodes and the rows it is cut into:
\* every command of every node's program is one the node has memory for -- the rows
\* of a tile or group fit the feeder, or its half, and the columns fit a stage.
THEOREM ProgramsFit ==
    ASSUME NEW c \in Case, NEW n \in DOMAIN c.nodes
    PROVE  LET prog == Job(c).prog[n]
           IN  Len(prog) \in Nat /\ \A i \in 1 .. Len(prog) : Fits(prog[i])
<1> DEFINE parts == PartsOf(c)
           prog == Job(c).prog[n]
<1>1. prog = FlattenSeq(parts[n])
    BY DEF Job, JobOf
<1>2. c.path \in {"load", "loadx", "wide", "bench"}
    BY CaseAssumption DEF CaseType
<1>3. Program(FlattenSeq(parts[n]))
    <2>1. CASE c.path = "wide"
        <3>1. parts[n] = <<WideProgram(c, n)>>
            BY <2>1 DEF PartsOf
        <3> QED
            BY <2>1, <3>1, WideProgramFits, OnePartFits
    <2>2. CASE c.path = "bench"
        <3>1. n = 1
            <4>1. c.nodes \in Seq(Nat \ {0}) /\ Len(c.nodes) = 1
                BY <2>2, DepthsOf, GoldenAssumption
            <4>2. DOMAIN c.nodes = 1 .. 1
                BY <4>1, SeqShape
            <4> QED
                BY <4>2
        <3>2. parts[n] = <<BenchProgram>>
            BY <2>2, <3>1 DEF PartsOf
        <3> QED
            BY <3>2, BenchProgramFits, OnePartFits
    <2>3. CASE c.path \in {"load", "loadx"}
        BY <2>3, DealtPartsFit
    <2> QED
        BY <1>2, <2>1, <2>2, <2>3
<1> HIDE DEF prog
<1>4. Program(prog)
    BY <1>1, <1>3
<1>5. Len(prog) \in Nat /\ \A i \in 1 .. Len(prog) : Fits(prog[i])
    BY <1>4, ListParts DEF Program
<1> QED
    BY <1>5 DEF prog

(***************************************************************************)
(* The invariant.                                                          *)
(***************************************************************************)
HalfFeeder == Words \div 2
Groups(c) == [left : Nat, base : Nat, m : 0 .. c.M, half : {0, HalfFeeder}]

\* The words of a target that a load fills, and the words of so many rows.
Length(l) == l.nsegs * l.nwords
RowWords(c, rows) == rows * c.W

\* A group is loaded from word `half' on, of a feeder in halves or from word 0.
GroupReady(n) ==
    /\ ~Halted(n) /\ Cmd(n).op = "GROUP" /\ cg[n] \in Groups(Cmd(n)) /\ cg[n].m > 0
    /\ ~Cmd(n).db => cg[n].half = 0

\* A command runs: the tile is its own; the loader rests, or fills the other half.
TileRuns(n) ==
    LET c == Cmd(n)
        t == tile[n]
    IN  /\ ~Halted(n) /\ c.op \in {"TILE", "GROUP"}
        /\ t \in [act : Nat, wt : Nat, W : {c.W}, M : 1 .. c.M, P : {c.P}, G : Nat, left : 1 .. t.M]
        /\ c.op = "TILE" => ~ld[n].busy
        /\ c.op = "GROUP" =>
            /\ cg[n] \in Groups(c)
            /\ IF cg[n].m = 0 THEN ~ld[n].busy
               ELSE /\ c.db /\ t.act = HalfFeeder - cg[n].half
                    /\ ld[n].busy =>
                        /\ ld[n].wbase = cg[n].half
                        /\ \E k \in 1 .. c.M : Length(ld[n]) = RowWords(c, k)

NodeOK(n) ==
    /\ pc[n] \in 1 .. Len(job.prog[n]) + 1 /\ st[n] \in {"fetch", "load", "go", "run"}
    /\ ld[n].busy \in BOOLEAN
    /\ DOMAIN bram[n] = 0 .. gemm.nodes[n] /\ \A t \in DOMAIN bram[n] : DOMAIN bram[n][t] = 0 .. Words - 1
    /\ st[n] = "fetch" => ~ld[n].busy
    /\ st[n] = "load" => ~Halted(n) /\ Cmd(n).op \in Loads
    /\ st[n] = "go" => GroupReady(n)
    /\ st[n] = "run" => TileRuns(n)

Shapes ==
    /\ pc = [n \in Node |-> pc[n]] /\ st = [n \in Node |-> st[n]] /\ ld = [n \in Node |-> ld[n]]
    /\ bram = [n \in Node |-> bram[n]] /\ cg = [n \in Node |-> cg[n]] /\ tile = [n \in Node |-> tile[n]]

OutOK == DOMAIN out = 0 .. Size(gemm) - 1 /\ \A i \in DOMAIN out : out[i] \in {NotTheSum, WrittenTwice, 0} \cup Node

IInv ==
    /\ job \in {Job(c) : c \in Case}
    /\ Shapes /\ OutOK
    /\ \A n \in Node : NodeOK(n)

(***************************************************************************)
(* Lemmas.                                                                 *)
(***************************************************************************)
\* The program of a node, and the command it is at.
LEMMA Programs ==
    ASSUME IInv, NEW n \in Node
    PROVE  /\ gemm \in Case /\ Len(job.prog[n]) \in Nat
           /\ pc[n] \in 1 .. Len(job.prog[n]) + 1 /\ (Halted(n) <=> pc[n] = Len(job.prog[n]) + 1)
           /\ ~Halted(n) => pc[n] + 1 \in 1 .. Len(job.prog[n]) + 1 /\ Fits(Cmd(n))
<1>1. PICK c \in Case : job = Job(c)
    BY DEF IInv
<1>2. gemm = c
    BY <1>1 DEF gemm, Job, JobOf
<1>3. Len(job.prog[n]) \in Nat /\ \A i \in 1 .. Len(job.prog[n]) : Fits(job.prog[n][i])
    BY <1>1, <1>2, ProgramsFit DEF Node
<1>4. pc[n] \in 1 .. Len(job.prog[n]) + 1
    BY DEF IInv, NodeOK
<1>5. Halted(n) <=> pc[n] = Len(job.prog[n]) + 1
    BY <1>3, <1>4 DEF Halted
<1>6. ASSUME ~Halted(n) PROVE pc[n] + 1 \in 1 .. Len(job.prog[n]) + 1 /\ Fits(Cmd(n))
    <2>1. pc[n] \in 1 .. Len(job.prog[n])
        BY <1>3, <1>4, <1>5, <1>6
    <2> QED
        BY <1>3, <2>1 DEF Cmd
<1> QED
    BY <1>2, <1>3, <1>4, <1>5, <1>6

\* A step of one node.
Only(n) ==
    /\ job' = job
    /\ pc' = [pc EXCEPT ![n] = pc'[n]] /\ st' = [st EXCEPT ![n] = st'[n]]
    /\ ld' = [ld EXCEPT ![n] = ld'[n]] /\ bram' = [bram EXCEPT ![n] = bram'[n]]
    /\ cg' = [cg EXCEPT ![n] = cg'[n]] /\ tile' = [tile EXCEPT ![n] = tile'[n]]

\* It leaves the others as they were.
LEMMA OneNode ==
    ASSUME IInv, NEW n \in Node, Only(n), OutOK', NodeOK(n)'
    PROVE  IInv'
<1>1. job' = job /\ Node' = Node
    BY DEF Only, Node, gemm
<1>2. Shapes'
    BY <1>1 DEF IInv, Shapes, Only
<1>3. ASSUME NEW k \in Node PROVE NodeOK(k)'
    <2>1. CASE k # n
        <3>1. /\ pc'[k] = pc[k] /\ st'[k] = st[k] /\ ld'[k] = ld[k]
              /\ bram'[k] = bram[k] /\ cg'[k] = cg[k] /\ tile'[k] = tile[k]
            BY <2>1 DEF IInv, Shapes, Only
        <3>2. NodeOK(k)
            BY DEF IInv
        <3>3. TileRuns(k)' <=> TileRuns(k)
            BY <1>1, <3>1 DEF TileRuns, Halted, Cmd, Groups
        <3>4. GroupReady(k)' <=> GroupReady(k)
            BY <1>1, <3>1 DEF GroupReady, Halted, Cmd, Groups
        <3> QED
            BY <1>1, <3>1, <3>2, <3>3, <3>4 DEF NodeOK, Halted, Cmd, gemm
    <2> QED
        BY <2>1
<1>4. job' \in {Job(c) : c \in Case}
    BY <1>1 DEF IInv
<1> QED
    BY <1>1, <1>2, <1>3, <1>4 DEF IInv

\* Filling words of targets keeps the memories as they are made.
LEMMA LoadFills ==
    ASSUME IInv, NEW n \in Node, NEW l, StartLoad(n, l)
    PROVE  /\ ld'[n] = l /\ ld' = [ld EXCEPT ![n] = ld'[n]] /\ bram' = [bram EXCEPT ![n] = bram'[n]]
           /\ DOMAIN bram'[n] = DOMAIN bram[n]
           /\ \A t \in DOMAIN bram[n] : DOMAIN bram'[n][t] = DOMAIN bram[n][t]
<1>1. bram'[n] = Filled(n, l, LAMBDA t, x : Torn)
    BY DEF StartLoad, IInv, Shapes
<1>2. /\ DOMAIN Filled(n, l, LAMBDA t, x : Torn) = DOMAIN bram[n]
      /\ \A t \in DOMAIN bram[n] : DOMAIN Filled(n, l, LAMBDA t1, x : Torn)[t] = DOMAIN bram[n][t]
    BY DEF Filled
<1>3. ld'[n] = l /\ ld' = [ld EXCEPT ![n] = ld'[n]] /\ bram' = [bram EXCEPT ![n] = bram'[n]]
    BY DEF StartLoad, IInv, Shapes
<1> QED
    BY <1>1, <1>2, <1>3

\* Rows of a group: at least one, as long as some are left.
LEMMA RowsOfGroup ==
    ASSUME NEW c \in GroupCommands, NEW left \in Nat \ {0}
    PROVE  /\ GroupRows(c, left) \in 1 .. c.M /\ left - GroupRows(c, left) \in Nat
    BY DEF GroupRows, Least, GroupCommands

\* The load of a group: its words in a row, from the half on.
LEMMA LoadOfGroup ==
    ASSUME NEW c, NEW base, NEW m, NEW wbase
    PROVE  /\ GroupLoad(c, base, m, wbase).busy = TRUE
           /\ GroupLoad(c, base, m, wbase).wbase = wbase
    BY DEF GroupLoad, Arm

\* It is as long as its rows are.
LEMMA LengthOfGroup ==
    ASSUME NEW c \in GroupCommands, NEW base, NEW m \in 1 .. c.M, NEW wbase
    PROVE  Length(GroupLoad(c, base, m, wbase)) = RowWords(c, m)
<1> DEFINE l == GroupLoad(c, base, m, wbase)
           w == m * c.W
<1>1. m \in Nat /\ c.W \in Nat /\ 1 * w = w
    BY DEF GroupCommands
<1>2. /\ c.S = c.W => l.nsegs = 1 /\ l.nwords = w
      /\ c.S # c.W => l.nsegs = m /\ l.nwords = c.W
    BY DEF GroupLoad, Arm
<1> HIDE DEF l
<1>3. l.nsegs * l.nwords = w
    BY <1>1, <1>2
<1> QED
    BY <1>3 DEF l, Length, RowWords

\* A feeder row of a command that runs is a row of its tile.
LEMMA TileInRange ==
    ASSUME IInv, NEW n \in Node, st[n] = "run"
    PROVE  /\ ~Halted(n) /\ Fits(Cmd(n)) /\ TileRuns(n)
           /\ tile[n].M \in Nat /\ tile[n].W \in Nat /\ tile[n].P \in Nat /\ tile[n].left \in 1 .. tile[n].M
           /\ tile[n].M * tile[n].W <= Words /\ tile[n].P * tile[n].W <= Words
           /\ Cmd(n).op = "GROUP" /\ Cmd(n).db => tile[n].M * tile[n].W <= HalfFeeder
<1>1. TileRuns(n)
    BY DEF IInv, NodeOK
<1>2. ~Halted(n) /\ Fits(Cmd(n)) /\ Cmd(n).op \in {"TILE", "GROUP"}
    BY <1>1, Programs DEF TileRuns
<1> DEFINE c == Cmd(n)
           t == tile[n]
           W == c.W
           w == t.M * W
           u == c.M * W
<1>3. /\ W \in Nat /\ c.M \in Nat /\ c.P \in Nat /\ c.P * W <= Words
      /\ u <= Words \/ (c.op = "GROUP" /\ c.db)
      /\ c.op = "GROUP" /\ c.db => u <= HalfFeeder
    BY <1>2 DEF Fits, TileCommands, GroupCommands, HalfFeeder
<1>4. t.W = W /\ t.P = c.P /\ t.M \in 1 .. c.M /\ t.left \in 1 .. t.M
    BY <1>1 DEF TileRuns
<1>5. w <= u /\ w \in Nat /\ u \in Nat
    BY <1>3, <1>4, TimesMonotone
<1>6. Words \in Nat /\ HalfFeeder \in Nat /\ HalfFeeder <= Words
    <2>1. Words \in Nat
        BY CaseAssumption
    <2> QED
        BY <2>1 DEF HalfFeeder
<1> HIDE DEF w, u
<1>7. w <= Words /\ (c.op = "GROUP" /\ c.db => w <= HalfFeeder)
    BY <1>3, <1>5, <1>6
<1> QED
    BY <1>1, <1>2, <1>3, <1>4, <1>7 DEF w

(***************************************************************************)
(* The steps.                                                              *)
(***************************************************************************)
\* OUT and FLUSH go on to the next command.
LEMMA OutStep ==
    ASSUME IInv, NEW n \in Node, RunOut(n) \/ RunFlush(n)
    PROVE  IInv'
<1>1. /\ ~Halted(n) /\ st[n] = "fetch" /\ pc' = [pc EXCEPT ![n] = @ + 1]
      /\ UNCHANGED <<job, st, ld, bram, cg, tile, out>>
    BY DEF RunOut, RunFlush, Fetch, NextCmd
<1>2. Only(n) /\ pc'[n] = pc[n] + 1
    BY <1>1 DEF IInv, Shapes, Only
<1>3. OutOK'
    BY <1>1 DEF IInv, OutOK, gemm, Node
<1>4. NodeOK(n)'
    <2>1. NodeOK(n) /\ pc[n] + 1 \in 1 .. Len(job.prog[n]) + 1
        BY <1>1, Programs DEF IInv
    <2> QED
        BY <1>1, <1>2, <2>1 DEF NodeOK, gemm
<1> QED
    BY <1>2, <1>3, <1>4, OneNode

\* A load begins.
LEMMA LoadStep ==
    ASSUME IInv, NEW n \in Node, RunLoad(n)
    PROVE  IInv'
<1>1. /\ ~Halted(n) /\ Cmd(n).op \in Loads /\ st' = [st EXCEPT ![n] = "load"]
      /\ UNCHANGED <<job, pc, cg, tile, wr, out>>
      /\ \E l : StartLoad(n, l) /\ l.busy = TRUE
    BY DEF RunLoad, Fetch, Loads, Arm
<1>2. PICK l : StartLoad(n, l) /\ l.busy = TRUE
    BY <1>1
<1>3. /\ ld'[n] = l /\ ld' = [ld EXCEPT ![n] = ld'[n]] /\ bram' = [bram EXCEPT ![n] = bram'[n]]
      /\ DOMAIN bram'[n] = DOMAIN bram[n]
      /\ \A t \in DOMAIN bram[n] : DOMAIN bram'[n][t] = DOMAIN bram[n][t]
    BY <1>2, LoadFills
<1>4. Only(n) /\ st'[n] = "load"
    BY <1>1, <1>3 DEF IInv, Shapes, Only
<1>5. OutOK'
    BY <1>1 DEF IInv, OutOK, gemm, Node
<1>6. NodeOK(n)'
    <2>1. NodeOK(n)
        BY DEF IInv
    <2> QED
        BY <1>1, <1>2, <1>3, <1>4, <2>1 DEF NodeOK, gemm, Halted, Cmd
<1> QED
    BY <1>4, <1>5, <1>6, OneNode

\* A tile runs from words that are loaded.
LEMMA TileStep ==
    ASSUME IInv, NEW n \in Node, RunTile(n)
    PROVE  IInv'
<1> DEFINE c == Cmd(n)
<1>1. /\ ~Halted(n) /\ c.op = "TILE" /\ st[n] = "fetch" /\ st' = [st EXCEPT ![n] = "run"]
      /\ tile' = [tile EXCEPT ![n] =
            [act |-> c.act, wt |-> c.wt, W |-> c.W, M |-> c.M, P |-> c.P, G |-> c.G, left |-> c.M]]
      /\ UNCHANGED <<job, pc, ld, bram, cg, wr, out>>
    BY DEF RunTile, Fetch
<1>2. Only(n) /\ st'[n] = "run"
    BY <1>1 DEF IInv, Shapes, Only
<1>3. OutOK'
    BY <1>1 DEF IInv, OutOK, gemm, Node
<1>4. c \in TileCommands
    BY <1>1, Programs DEF Fits
<1>5. NodeOK(n)'
    <2>1. NodeOK(n) /\ ~ld[n].busy
        BY <1>1 DEF IInv, NodeOK
    <2>2. tile'[n] = [act |-> c.act, wt |-> c.wt, W |-> c.W, M |-> c.M, P |-> c.P, G |-> c.G, left |-> c.M]
        BY <1>1 DEF IInv, Shapes
    <2>3. c' = c /\ Halted(n)' = Halted(n)
        BY <1>1 DEF Cmd, Halted
    <2>4. /\ tile'[n] \in [act : Nat, wt : Nat, W : {c.W}, M : 1 .. c.M, P : {c.P}, G : Nat, left : 1 .. c.M]
          /\ tile'[n].M = c.M
        BY <1>4, <2>2 DEF TileCommands
    <2> HIDE DEF c
    <2>5. TileRuns(n)'
        BY <1>1, <2>1, <2>3, <2>4 DEF TileRuns, c
    <2> QED
        BY <1>1, <1>2, <2>1, <2>5 DEF NodeOK, gemm
<1> QED
    BY <1>2, <1>3, <1>5, OneNode

\* The first rows of a column group are loaded.
LEMMA GroupStep ==
    ASSUME IInv, NEW n \in Node, RunGroup(n)
    PROVE  IInv'
<1> DEFINE c == Cmd(n)
           m == GroupRows(c, c.T)
           g == [left |-> c.T - m, base |-> c.base + c.M * c.S, m |-> m, half |-> 0]
           l == GroupLoad(c, c.base, m, 0)
<1>1. /\ ~Halted(n) /\ c.op = "GROUP" /\ st' = [st EXCEPT ![n] = "go"]
      /\ StartLoad(n, l) /\ cg' = [cg EXCEPT ![n] = g]
      /\ UNCHANGED <<job, pc, tile, wr, out>>
    BY DEF RunGroup, Fetch
<1>2. c \in GroupCommands
    BY <1>1, Programs DEF Fits
<1>3. m \in 1 .. c.M /\ c.T - m \in Nat
    BY <1>2, RowsOfGroup DEF GroupCommands
<1>4. l.busy = TRUE
    BY <1>2, <1>3, LoadOfGroup
<1>5. g \in Groups(c) /\ g.m > 0 /\ g.half = 0
    <2>1. c.base + c.M * c.S \in Nat
        BY <1>2 DEF GroupCommands
    <2> HIDE DEF m
    <2> QED
        BY <1>3, <2>1 DEF Groups
<1> HIDE DEF c, m, g, l
<1>6. /\ ld'[n] = l /\ ld' = [ld EXCEPT ![n] = ld'[n]] /\ bram' = [bram EXCEPT ![n] = bram'[n]]
      /\ DOMAIN bram'[n] = DOMAIN bram[n]
      /\ \A t \in DOMAIN bram[n] : DOMAIN bram'[n][t] = DOMAIN bram[n][t]
    BY <1>1, LoadFills
<1>7. Only(n) /\ st'[n] = "go" /\ cg'[n] = g
    BY <1>1, <1>6 DEF IInv, Shapes, Only
<1>8. OutOK'
    BY <1>1 DEF IInv, OutOK, gemm, Node
<1>9. NodeOK(n)'
    <2>1. NodeOK(n)
        BY DEF IInv
    <2>2. GroupReady(n)'
        BY <1>1, <1>5, <1>7 DEF GroupReady, Cmd, Halted, Groups, c
    <2> QED
        BY <1>1, <1>4, <1>6, <1>7, <2>1, <2>2 DEF NodeOK, gemm
<1> QED
    BY <1>7, <1>8, <1>9, OneNode

\* A load ends: the words are there, the loader rests.
LEMMA DoneStep ==
    ASSUME IInv, NEW n \in Node, LoadDone(n)
    PROVE  IInv'
<1>1. /\ ld[n].busy /\ ld' = [ld EXCEPT ![n] = NoLoad]
      /\ IF st[n] = "load" THEN st' = [st EXCEPT ![n] = "fetch"] /\ pc' = [pc EXCEPT ![n] = @ + 1]
                           ELSE UNCHANGED <<st, pc>>
      /\ UNCHANGED <<job, cg, tile, wr, out>>
    BY DEF LoadDone, NextCmd
<1>2. /\ bram' = [bram EXCEPT ![n] = bram'[n]] /\ DOMAIN bram'[n] = DOMAIN bram[n]
      /\ \A t \in DOMAIN bram[n] : DOMAIN bram'[n][t] = DOMAIN bram[n][t]
    <2>1. /\ bram'[n] = Filled(n, ld[n], LAMBDA t, x : job.mem[Fetched(ld[n], t, x)])
          /\ bram' = [bram EXCEPT ![n] = bram'[n]]
        BY DEF LoadDone, IInv, Shapes
    <2>2. /\ DOMAIN Filled(n, ld[n], LAMBDA t, x : job.mem[Fetched(ld[n], t, x)]) = DOMAIN bram[n]
          /\ \A t \in DOMAIN bram[n] :
                DOMAIN Filled(n, ld[n], LAMBDA t1, x : job.mem[Fetched(ld[n], t1, x)])[t] = DOMAIN bram[n][t]
        BY DEF Filled
    <2> QED
        BY <2>1, <2>2
<1>3. Only(n) /\ ld'[n].busy = FALSE
    <2>1. NoLoad.busy = FALSE
        BY DEF NoLoad
    <2> QED
        BY <1>1, <1>2, <2>1 DEF IInv, Shapes, Only
<1>4. OutOK'
    BY <1>1 DEF IInv, OutOK, gemm, Node
<1>5. NodeOK(n)'
    <2>1. NodeOK(n) /\ st[n] # "fetch"
        BY <1>1 DEF IInv, NodeOK
    <2>2. CASE st[n] = "load"
        <3>1. st'[n] = "fetch" /\ pc'[n] = pc[n] + 1
            BY <1>1, <2>2 DEF IInv, Shapes
        <3>2. pc[n] + 1 \in 1 .. Len(job.prog[n]) + 1
            BY <2>1, <2>2, Programs DEF NodeOK
        <3> QED
            BY <1>1, <1>2, <1>3, <2>1, <3>1, <3>2 DEF NodeOK, gemm
    <2>3. CASE st[n] # "load"
        <3>1. st' = st /\ pc' = pc
            BY <1>1, <2>3
        <3>2. st[n] = "go" => GroupReady(n)'
            BY <1>1, <2>1, <3>1 DEF NodeOK, GroupReady, Halted, Cmd, Groups
        <3>3. st[n] = "run" => TileRuns(n)'
            BY <1>1, <1>3, <2>1, <3>1 DEF NodeOK, TileRuns, Halted, Cmd, Groups
        <3> QED
            BY <1>1, <1>2, <1>3, <2>1, <2>3, <3>1, <3>2, <3>3 DEF NodeOK, gemm
    <2> QED
        BY <2>2, <2>3
<1> QED
    BY <1>3, <1>4, <1>5, OneNode

\* A group that is loaded runs; with two halves, the next one is loaded into the
\* other half.
LEMMA StartStep ==
    ASSUME IInv, NEW n \in Node, StartTile(n)
    PROVE  IInv'
<1> DEFINE c == Cmd(n)
           g == cg[n]
           m == GroupRows(c, g.left)
           other == HalfFeeder - g.half
           l == GroupLoad(c, g.base, m, other)
           next == [left |-> g.left - m, base |-> g.base + c.M * c.S, m |-> m, half |-> other]
           t == [act |-> g.half, wt |-> c.wt, W |-> c.W, M |-> g.m, P |-> c.P, G |-> c.G, left |-> g.m]
<1>1. /\ st[n] = "go" /\ ~ld[n].busy /\ tile' = [tile EXCEPT ![n] = t]
      /\ st' = [st EXCEPT ![n] = "run"]
      /\ IF c.db /\ g.left > 0 THEN StartLoad(n, l) /\ cg' = [cg EXCEPT ![n] = next]
         ELSE cg' = [cg EXCEPT ![n].m = 0] /\ UNCHANGED <<ld, bram>>
      /\ UNCHANGED <<job, pc, wr, out>>
    BY DEF StartTile, HalfFeeder
<1>2. /\ ~Halted(n) /\ c.op = "GROUP" /\ c \in GroupCommands /\ NodeOK(n)
      /\ g \in Groups(c) /\ g.m > 0 /\ (~c.db => g.half = 0)
    BY <1>1, Programs DEF IInv, NodeOK, GroupReady, Fits
<1>3. HalfFeeder \in Nat
    BY CaseAssumption DEF HalfFeeder
<1>4. /\ t \in [act : Nat, wt : Nat, W : {c.W}, M : 1 .. c.M, P : {c.P}, G : Nat, left : 1 .. t.M]
      /\ t.act = g.half
    BY <1>2, <1>3 DEF GroupCommands, Groups
<1>5. Only(n) /\ st'[n] = "run" /\ tile'[n] = t
    <2>1. /\ tile' = [tile EXCEPT ![n] = tile'[n]] /\ tile'[n] = t
          /\ st' = [st EXCEPT ![n] = st'[n]] /\ st'[n] = "run" /\ pc' = [pc EXCEPT ![n] = pc'[n]]
        BY <1>1 DEF IInv, Shapes
    <2>2. /\ cg' = [cg EXCEPT ![n] = cg'[n]] /\ ld' = [ld EXCEPT ![n] = ld'[n]]
          /\ bram' = [bram EXCEPT ![n] = bram'[n]]
        <3>1. CASE c.db /\ g.left > 0
            <4> HIDE DEF l, next
            <4> QED
                BY <1>1, <3>1, LoadFills DEF IInv, Shapes
        <3>2. CASE ~(c.db /\ g.left > 0)
            BY <1>1, <3>2 DEF IInv, Shapes
        <3> QED
            BY <3>1, <3>2
    <2> QED
        BY <1>1, <2>1, <2>2 DEF Only
<1>6. OutOK'
    BY <1>1 DEF IInv, OutOK, gemm, Node
<1>7. /\ DOMAIN bram'[n] = DOMAIN bram[n]
      /\ \A a \in DOMAIN bram[n] : DOMAIN bram'[n][a] = DOMAIN bram[n][a]
    <2> HIDE DEF l, next, t
    <2> QED
        BY <1>1, LoadFills
<1>8. /\ cg'[n] \in Groups(c) /\ ld'[n].busy \in BOOLEAN
      /\ IF cg'[n].m = 0 THEN ~ld'[n].busy
         ELSE /\ c.db /\ t.act = HalfFeeder - cg'[n].half
              /\ ld'[n].busy =>
                    /\ ld'[n].wbase = cg'[n].half
                    /\ \E k \in 1 .. c.M : Length(ld'[n]) = RowWords(c, k)
    <2>1. CASE c.db /\ g.left > 0
        <3>1. m \in 1 .. c.M /\ g.left - m \in Nat
            BY <1>2, <2>1, RowsOfGroup DEF Groups
        <3>2. ld'[n] = l /\ cg'[n] = next
            <4> HIDE DEF l, next
            <4> QED
                BY <1>1, <2>1, LoadFills DEF IInv, Shapes
        <3>3. g.half \in {0, HalfFeeder} /\ other \in {0, HalfFeeder} /\ HalfFeeder - other = g.half
            BY <1>2, <1>3 DEF Groups
        <3>4. g.base + c.M * c.S \in Nat
            BY <1>2 DEF Groups, GroupCommands
        <3> HIDE DEF m, other
        <3>5. l.busy = TRUE /\ l.wbase = other /\ Length(l) = RowWords(c, m)
            <4>1. c \in GroupCommands /\ m \in 1 .. c.M
                BY <1>2, <3>1
            <4> DEFINE base == g.base
            <4> HIDE DEF c, base, l, g, next, t
            <4>2. GroupLoad(c, base, m, other).busy = TRUE
                BY DEF GroupLoad, Arm
            <4>3. GroupLoad(c, base, m, other).wbase = other
                BY DEF GroupLoad, Arm
            <4>4. Length(GroupLoad(c, base, m, other)) = RowWords(c, m)
                BY <4>1, LengthOfGroup
            <4> QED
                BY <4>2, <4>3, <4>4 DEF l, base
        <3> HIDE DEF l
        <3>6. next \in Groups(c) /\ next.m = m /\ next.half = other
            BY <3>1, <3>3, <3>4 DEF Groups
        <3>7. cg'[n] \in Groups(c) /\ cg'[n].m # 0 /\ cg'[n].half = other /\ ld'[n] = l
            BY <3>1, <3>2, <3>6
        <3>8. t.act = HalfFeeder - cg'[n].half
            BY <1>4, <3>3, <3>7
        <3> HIDE DEF next, t, c, g
        <3> QED
            BY <2>1, <3>1, <3>5, <3>7, <3>8
    <2>2. CASE ~(c.db /\ g.left > 0)
        <3>1. cg' = [cg EXCEPT ![n].m = 0] /\ ld' = ld
            BY <1>1, <2>2
        <3>2. cg'[n] = [g EXCEPT !.m = 0]
            BY <3>1 DEF IInv, Shapes
        <3>3. 0 \in 0 .. c.M
            BY <1>2 DEF GroupCommands
        <3>4. cg'[n] \in Groups(c) /\ cg'[n].m = 0
            BY <1>2, <3>2, <3>3 DEF Groups
        <3>5. ld'[n].busy = FALSE
            BY <1>1, <1>2, <3>1 DEF NodeOK
        <3> HIDE DEF t, c, g
        <3> QED
            BY <3>4, <3>5
    <2> QED
        BY <2>1, <2>2
<1> HIDE DEF t, next, l, m, other
<1>9. TileRuns(n)'
    <2>1. c' = c /\ Halted(n)' = Halted(n)
        BY <1>1 DEF Cmd, Halted
    <2>2. Groups(c)' = Groups(c)
        BY <2>1 DEF Groups
    <2> HIDE DEF c
    <2> QED
        BY <1>2, <1>4, <1>5, <1>8, <2>1, <2>2 DEF TileRuns, c
<1>10. NodeOK(n)'
    BY <1>1, <1>2, <1>5, <1>7, <1>8, <1>9 DEF NodeOK, gemm
<1> QED
    BY <1>5, <1>6, <1>10, OneNode

\* A row of a tile leads to the next row, the next rows that are loaded, rows to
\* be loaded, or the next command.
ToRow(n) == tile[n].left # 1 /\ UNCHANGED <<st, pc, ld, bram, cg>>
ToCommand(n) ==
    /\ tile[n].left = 1 /\ (Cmd(n).op = "TILE" \/ (Cmd(n).op = "GROUP" /\ ~(cg[n].m > 0)))
    /\ st' = [st EXCEPT ![n] = "fetch"] /\ pc' = [pc EXCEPT ![n] = @ + 1]
    /\ UNCHANGED <<ld, bram, cg>>
ToGroup(n) ==
    /\ tile[n].left = 1 /\ Cmd(n).op = "GROUP" /\ cg[n].m > 0
    /\ st' = [st EXCEPT ![n] = "go"] /\ UNCHANGED <<pc, ld, bram, cg>>
ToRows(n) ==
    LET c == Cmd(n)
        m == GroupRows(c, cg[n].left)
    IN  /\ tile[n].left = 1 /\ c.op = "GROUP" /\ cg[n].m = 0 /\ cg[n].left > 0
        /\ st' = [st EXCEPT ![n] = "go"] /\ UNCHANGED pc
        /\ StartLoad(n, GroupLoad(c, cg[n].base, m, 0))
        /\ cg' = [cg EXCEPT ![n] = [left |-> cg[n].left - m, base |-> cg[n].base + c.M * c.S, m |-> m, half |-> 0]]

\* Which of them it is the tile, the group and the command say.
LEMMA RowCases ==
    ASSUME IInv, NEW n \in Node, RunRow(n)
    PROVE  /\ st[n] = "run" /\ job' = job /\ tile' = [tile EXCEPT ![n].left = @ - 1]
           /\ wr' = [wr EXCEPT ![n].beats = @ + tile[n].P * Beats(n)]
           /\ ToRow(n) \/ ToCommand(n) \/ ToGroup(n) \/ ToRows(n)
<1> DEFINE c == Cmd(n)
           g == cg[n]
           t == tile[n]
           m == GroupRows(c, g.left)
           l == GroupLoad(c, g.base, m, 0)
           next == [left |-> g.left - m, base |-> g.base + c.M * c.S, m |-> m, half |-> 0]
<1>1. c.op \in {"TILE", "GROUP"} /\ (c.op = "GROUP" => g.m \in Nat)
    BY TileInRange DEF RunRow, TileRuns, Groups
<1> HIDE DEF next, l
<1>2. /\ st[n] = "run" /\ job' = job /\ tile' = [tile EXCEPT ![n].left = @ - 1]
      /\ wr' = [wr EXCEPT ![n].beats = @ + t.P * Beats(n)]
      /\ CASE t.left # 1 -> UNCHANGED <<st, pc, ld, bram, cg>>
           [] t.left = 1 /\ c.op = "TILE" ->
                /\ st' = [st EXCEPT ![n] = "fetch"] /\ pc' = [pc EXCEPT ![n] = @ + 1]
                /\ UNCHANGED <<ld, bram, cg>>
           [] t.left = 1 /\ c.op = "GROUP" /\ g.m > 0 ->
                st' = [st EXCEPT ![n] = "go"] /\ UNCHANGED <<pc, ld, bram, cg>>
           [] t.left = 1 /\ c.op = "GROUP" /\ g.m = 0 /\ g.left > 0 ->
                /\ st' = [st EXCEPT ![n] = "go"]
                /\ StartLoad(n, l) /\ cg' = [cg EXCEPT ![n] = next] /\ UNCHANGED pc
           [] OTHER ->
                /\ st' = [st EXCEPT ![n] = "fetch"] /\ pc' = [pc EXCEPT ![n] = @ + 1]
                /\ UNCHANGED <<ld, bram, cg>>
    BY DEF RunRow, NextCmd, LoadRows, l, next
<1> DEFINE A == tile[n].left # 1 /\ UNCHANGED <<st, pc, ld, bram, cg>>
           B == /\ t.left = 1 /\ (c.op = "TILE" \/ (c.op = "GROUP" /\ ~(g.m > 0)))
                /\ st' = [st EXCEPT ![n] = "fetch"] /\ pc' = [pc EXCEPT ![n] = @ + 1]
                /\ UNCHANGED <<ld, bram, cg>>
           C == /\ t.left = 1 /\ c.op = "GROUP" /\ g.m > 0
                /\ st' = [st EXCEPT ![n] = "go"] /\ UNCHANGED <<pc, ld, bram, cg>>
           D == /\ t.left = 1 /\ c.op = "GROUP" /\ g.m = 0 /\ g.left > 0
                /\ st' = [st EXCEPT ![n] = "go"] /\ UNCHANGED pc
                /\ StartLoad(n, l) /\ cg' = [cg EXCEPT ![n] = next]
<1>3. A \/ B \/ C \/ D
    <2> HIDE DEF c, g, t
    <2> QED
        BY <1>1, <1>2 DEF t
<1>4. (A => ToRow(n)) /\ (B => ToCommand(n)) /\ (C => ToGroup(n)) /\ (D => ToRows(n))
    BY DEF ToRow, ToCommand, ToGroup, ToRows, l, next
<1> HIDE DEF A, B, C, D
<1> QED
    BY <1>2, <1>3, <1>4

\* What a row of a tile leads to: the next row, the next group or the next command.
LEMMA RowStep ==
    ASSUME IInv, NEW n \in Node, RunRow(n)
    PROVE  IInv'
<1> DEFINE c == Cmd(n)
           g == cg[n]
           t == tile[n]
           m == GroupRows(c, g.left)
           l == GroupLoad(c, g.base, m, 0)
           next == [left |-> g.left - m, base |-> g.base + c.M * c.S, m |-> m, half |-> 0]
           NextRow == t.left # 1 /\ UNCHANGED <<st, pc, ld, bram, cg>>
           NextCommand ==
               /\ t.left = 1 /\ (c.op = "TILE" \/ (c.op = "GROUP" /\ ~(g.m > 0)))
               /\ st' = [st EXCEPT ![n] = "fetch"] /\ pc' = [pc EXCEPT ![n] = @ + 1]
               /\ UNCHANGED <<ld, bram, cg>>
           NextGroup ==
               /\ t.left = 1 /\ c.op = "GROUP" /\ g.m > 0
               /\ st' = [st EXCEPT ![n] = "go"] /\ UNCHANGED <<pc, ld, bram, cg>>
           NextRows ==
               /\ t.left = 1 /\ c.op = "GROUP" /\ g.m = 0 /\ g.left > 0
               /\ st' = [st EXCEPT ![n] = "go"] /\ UNCHANGED pc
               /\ StartLoad(n, l) /\ cg' = [cg EXCEPT ![n] = next]
<1>1. /\ ~Halted(n) /\ c.op \in {"TILE", "GROUP"} /\ Fits(c) /\ TileRuns(n) /\ NodeOK(n)
      /\ t.left \in 1 .. t.M /\ t.M \in Nat
    BY TileInRange DEF RunRow, IInv, TileRuns
<1>2. c.op = "GROUP" => c \in GroupCommands /\ g \in Groups(c) /\ g.m \in Nat
    BY <1>1 DEF TileRuns, Fits, Groups
<1>3. /\ st[n] = "run" /\ job' = job /\ tile' = [tile EXCEPT ![n].left = @ - 1]
      /\ NextRow \/ NextCommand \/ NextGroup \/ NextRows
    BY RowCases DEF ToRow, ToCommand, ToGroup, ToRows
<1>4. OutOK'
    <2>1. PICK value : out' = [i \in DOMAIN out |-> IF i \notin RowCells(n) THEN out[i]
                                                    ELSE IF out[i] = 0 THEN value[i] ELSE WrittenTwice]
                       /\ \A i \in DOMAIN out : value[i] \in {n, NotTheSum}
        <3> DEFINE d == gemm.nodes[n]
                   made == [p \in 0 .. t.P - 1 |-> [s \in 0 .. d - 1 |-> CellAt(wr[n], d, p, s)]]
                   from(i) == CHOOSE ps \in (0 .. t.P - 1) \X (0 .. d - 1) : made[ps[1]][ps[2]] = i
                   value(i) == IF Spaced(n) /\ SumOf(n, from(i)[1], from(i)[2]) = job.sums[i] THEN n ELSE NotTheSum
                   v == [i \in DOMAIN out |-> value(i)]
        <3>1. out' = [i \in DOMAIN out |-> IF i \notin RowCells(n) THEN out[i]
                                           ELSE IF out[i] = 0 THEN value(i) ELSE WrittenTwice]
            BY DEF RunRow
        <3>2. \A i \in DOMAIN out : value(i) \in {n, NotTheSum}
            OBVIOUS
        <3> HIDE DEF value
        <3>3. \A i \in DOMAIN out : v[i] = value(i)
            OBVIOUS
        <3> HIDE DEF v
        <3>4. out' = [i \in DOMAIN out |-> IF i \notin RowCells(n) THEN out[i]
                                           ELSE IF out[i] = 0 THEN v[i] ELSE WrittenTwice]
            BY <3>1, <3>3
        <3> QED
            BY <3>2, <3>3, <3>4
    <2>2. OutOK /\ gemm' = gemm /\ Node' = Node
        BY <1>3 DEF IInv, gemm, Node
    <2> QED
        BY <2>1, <2>2 DEF OutOK
<1>5. /\ tile'[n] = [t EXCEPT !.left = @ - 1] /\ tile' = [tile EXCEPT ![n] = tile'[n]]
    BY <1>3 DEF IInv, Shapes
<1>7. CASE NextRow
    <2>1. Only(n) /\ st'[n] = "run"
        BY <1>3, <1>5, <1>7 DEF IInv, Shapes, Only
    <2>2. TileRuns(n)'
        <3>1. t.left - 1 \in 1 .. t.M
            BY <1>1, <1>7
        <3>2. /\ t \in [act : Nat, wt : Nat, W : {c.W}, M : 1 .. c.M, P : {c.P}, G : Nat, left : 1 .. t.M]
            BY <1>1 DEF TileRuns
        <3>3. /\ tile'[n] \in [act : Nat, wt : Nat, W : {c.W}, M : 1 .. c.M, P : {c.P}, G : Nat, left : 1 .. t.M]
              /\ tile'[n].M = t.M /\ tile'[n].act = t.act
            BY <1>5, <3>1, <3>2
        <3>4. c' = c /\ Halted(n)' = Halted(n) /\ ld'[n] = ld[n] /\ cg'[n] = g
            BY <1>3, <1>7 DEF Cmd, Halted
        <3> HIDE DEF c
        <3> QED
            BY <1>1, <3>3, <3>4 DEF TileRuns, Groups, c
    <2>3. NodeOK(n)'
        BY <1>1, <1>3, <1>7, <2>1, <2>2 DEF NodeOK, gemm
    <2> QED
        BY <1>4, <2>1, <2>3, OneNode
<1>8. CASE NextCommand
    <2>1. Only(n) /\ st'[n] = "fetch" /\ pc'[n] = pc[n] + 1
        BY <1>3, <1>5, <1>8 DEF IInv, Shapes, Only
    <2>2. pc[n] + 1 \in 1 .. Len(job.prog[n]) + 1
        BY <1>1, Programs
    <2>3. ~ld[n].busy
        BY <1>1, <1>2, <1>8 DEF TileRuns
    <2>4. NodeOK(n)'
        BY <1>1, <1>3, <1>8, <2>1, <2>2, <2>3 DEF NodeOK, gemm
    <2> QED
        BY <1>4, <2>1, <2>4, OneNode
<1>9. CASE NextGroup
    <2>1. Only(n) /\ st'[n] = "go" /\ cg'[n] = g
        BY <1>3, <1>5, <1>9 DEF IInv, Shapes, Only
    <2>2. c' = c /\ Halted(n)' = Halted(n)
        BY <1>3, <1>9 DEF Cmd, Halted
    <2>3. c.db
        BY <1>1, <1>2, <1>9 DEF TileRuns
    <2>4. GroupReady(n)'
        <3> HIDE DEF c
        <3> QED
            BY <1>1, <1>2, <1>9, <2>1, <2>2, <2>3 DEF GroupReady, Groups, c
    <2>5. NodeOK(n)'
        BY <1>1, <1>3, <1>9, <2>1, <2>4 DEF NodeOK, gemm
    <2> QED
        BY <1>4, <2>1, <2>5, OneNode
<1>10. CASE NextRows
    <2>1. m \in 1 .. c.M /\ g.left - m \in Nat
        BY <1>2, <1>10, RowsOfGroup DEF Groups
    <2>2. g.base + c.M * c.S \in Nat
        BY <1>2, <1>10 DEF Groups, GroupCommands
    <2>3. l.busy = TRUE
        BY <1>2, <1>10, <2>1, LoadOfGroup
    <2> HIDE DEF m, l
    <2>4. next \in Groups(c) /\ next.m > 0 /\ next.half = 0
        BY <2>1, <2>2 DEF Groups
    <2>5. /\ ld'[n] = l /\ ld' = [ld EXCEPT ![n] = ld'[n]] /\ bram' = [bram EXCEPT ![n] = bram'[n]]
          /\ DOMAIN bram'[n] = DOMAIN bram[n]
          /\ \A a \in DOMAIN bram[n] : DOMAIN bram'[n][a] = DOMAIN bram[n][a]
        BY <1>10, LoadFills
    <2> HIDE DEF next
    <2>6. Only(n) /\ st'[n] = "go" /\ cg'[n] = next
        BY <1>3, <1>5, <1>10, <2>5 DEF IInv, Shapes, Only
    <2>7. c' = c /\ Halted(n)' = Halted(n)
        BY <1>3, <1>10 DEF Cmd, Halted
    <2>8. GroupReady(n)'
        <3> HIDE DEF c
        <3> QED
            BY <1>1, <1>10, <2>4, <2>6, <2>7 DEF GroupReady, Groups, c
    <2>9. NodeOK(n)'
        BY <1>1, <1>3, <1>10, <2>3, <2>5, <2>6, <2>8 DEF NodeOK, gemm
    <2> QED
        BY <1>4, <2>6, <2>9, OneNode
<1> QED
    BY <1>3, <1>7, <1>8, <1>9, <1>10

\* At first every node fetches, and nothing is loaded.
LEMMA Initially ==
    ASSUME Init
    PROVE  IInv
<1>1. PICK c \in Case : job = Job(c)
    BY DEF Init
<1>2. gemm = c
    BY <1>1 DEF gemm, Job, JobOf
<1>3. Shapes /\ OutOK
    BY DEF Init, Shapes, OutOK
<1>4. ASSUME NEW n \in Node PROVE NodeOK(n)
    <2>1. Len(job.prog[n]) \in Nat
        BY <1>1, <1>2, ProgramsFit DEF Node
    <2>2. pc[n] = 1 /\ st[n] = "fetch" /\ ld[n].busy = FALSE
        BY DEF Init, NoLoad
    <2>3. bram[n] = [t \in 0 .. gemm.nodes[n] |-> [a \in 0 .. Words - 1 |-> Torn]]
        BY DEF Init
    <2>4. /\ DOMAIN bram[n] = 0 .. gemm.nodes[n]
          /\ \A t \in DOMAIN bram[n] : DOMAIN bram[n][t] = 0 .. Words - 1
        BY <2>3
    <2>5. pc[n] \in 1 .. Len(job.prog[n]) + 1
        BY <2>1, <2>2
    <2> QED
        BY <2>2, <2>4, <2>5 DEF NodeOK
<1> QED
    BY <1>1, <1>3, <1>4 DEF IInv

\* Nothing changes: nothing to keep.
LEMMA Idle ==
    ASSUME IInv, UNCHANGED vars
    PROVE  IInv'
<1>1. /\ job' = job /\ pc' = pc /\ st' = st /\ ld' = ld /\ bram' = bram
      /\ cg' = cg /\ tile' = tile /\ out' = out /\ gemm' = gemm /\ Node' = Node
    BY DEF vars, gemm, Node
<1>2. ASSUME NEW n \in Node PROVE NodeOK(n)'
    <2>1. NodeOK(n)
        BY DEF IInv
    <2>2. (TileRuns(n)' <=> TileRuns(n)) /\ (GroupReady(n)' <=> GroupReady(n))
        BY <1>1 DEF TileRuns, GroupReady, Halted, Cmd, Groups
    <2> QED
        BY <1>1, <2>1, <2>2 DEF NodeOK, Halted, Cmd
<1>3. Shapes' /\ OutOK'
    BY <1>1 DEF IInv, Shapes, OutOK
<1> QED
    BY <1>1, <1>2, <1>3 DEF IInv

(***************************************************************************)
(* The theorems.                                                           *)
(***************************************************************************)
\* Whatever the depths of the nodes and the programs they run, in every state:
\* the loader is at the load of the command the node is at, and one group ahead
\* of the sequencer at most, in the half the sequencer is not in.
THEOREM Invariance == Spec => []IInv
<1>1. Init => IInv
    BY Initially
<1>2. IInv /\ [Next]_vars => IInv'
    <2>1. SUFFICES ASSUME IInv, [Next]_vars
                   PROVE  IInv'
        OBVIOUS
    <2>2. CASE UNCHANGED vars
        BY <2>1, <2>2, Idle
    <2>3. CASE Terminated
        BY <2>1, <2>3, Idle DEF Terminated
    <2>4. ASSUME NEW n \in Node,
                 RunOut(n) \/ RunFlush(n) \/ RunLoad(n) \/ RunTile(n) \/ RunGroup(n)
                     \/ LoadDone(n) \/ StartTile(n) \/ RunRow(n)
          PROVE  IInv'
        <3>1. CASE RunOut(n) \/ RunFlush(n)
            BY <2>1, <3>1, OutStep
        <3>2. CASE RunLoad(n)
            BY <2>1, <3>2, LoadStep
        <3>3. CASE RunTile(n)
            BY <2>1, <3>3, TileStep
        <3>4. CASE RunGroup(n)
            BY <2>1, <3>4, GroupStep
        <3>5. CASE LoadDone(n)
            BY <2>1, <3>5, DoneStep
        <3>6. CASE StartTile(n)
            BY <2>1, <3>6, StartStep
        <3>7. CASE RunRow(n)
            BY <2>1, <3>7, RowStep
        <3> QED
            BY <2>4, <3>1, <3>2, <3>3, <3>4, <3>5, <3>6, <3>7
    <2> QED
        BY <2>1, <2>2, <2>3, <2>4 DEF Next
<1> QED
    BY <1>1, <1>2, PTL DEF Spec

\* The executor of a node stays within its program and its memories: what it runs
\* fits the feeder and the stages, and it halts only with the loader at rest.
THEOREM TypeCorrect == Spec => []TypeOK
<1>1. IInv => TypeOK
    <2> SUFFICES ASSUME IInv PROVE TypeOK
        OBVIOUS
    <2>1. gemm \in Case
        BY Programs DEF IInv, gemm, Job, JobOf
    <2>2. pc \in [Node -> Nat \ {0}] /\ st \in [Node -> {"fetch", "load", "go", "run"}]
        <3>1. ASSUME NEW n \in Node
              PROVE  pc[n] \in Nat \ {0} /\ st[n] \in {"fetch", "load", "go", "run"}
            BY Programs DEF IInv, NodeOK
        <3> QED
            BY <3>1 DEF IInv, Shapes
    <2>3. ASSUME NEW n \in Node
          PROVE  /\ pc[n] <= Len(job.prog[n]) + 1
                 /\ ~Halted(n) => Fits(Cmd(n))
                 /\ Halted(n) => st[n] = "fetch" /\ ~ld[n].busy
                 /\ DOMAIN bram[n] = 0 .. gemm.nodes[n]
                 /\ \A t \in DOMAIN bram[n] : DOMAIN bram[n][t] = 0 .. Words - 1
                 /\ st[n] = "run" => /\ tile[n].left > 0 /\ tile[n].M * tile[n].W <= Words
                                     /\ tile[n].P * tile[n].W <= Words
        <3>1. NodeOK(n)
            BY DEF IInv
        <3>2. pc[n] <= Len(job.prog[n]) + 1 /\ (~Halted(n) => Fits(Cmd(n)))
            BY Programs
        <3>3. Halted(n) => st[n] = "fetch" /\ ~ld[n].busy
            BY <3>1 DEF NodeOK, GroupReady, TileRuns
        <3>4. st[n] = "run" => tile[n].left > 0 /\ tile[n].M * tile[n].W <= Words
                               /\ tile[n].P * tile[n].W <= Words
            BY TileInRange
        <3> QED
            BY <3>1, <3>2, <3>3, <3>4 DEF NodeOK
    <2> QED
        BY <2>1, <2>2, <2>3 DEF TypeOK, IInv, OutOK
<1> QED
    BY <1>1, Invariance, PTL

\* The loader never fills words of the feeder that rows still to run are read
\* from: of a group in halves the one half is read, the other filled, and no other
\* load is under way while a command runs.
THEOREM FeederIsSafe == Spec => []FeederSafe
<1>1. IInv => FeederSafe
    <2>1. SUFFICES ASSUME IInv, NEW n \in Node, st[n] = "run", ld[n].busy,
                          NEW r \in RowOf(tile[n]) .. tile[n].M - 1, NEW k \in 0 .. tile[n].W - 1
                   PROVE  (tile[n].act + r * tile[n].W + k) % Words \notin Fills(ld[n])
        BY DEF FeederSafe
    <2> DEFINE c == Cmd(n)
               t == tile[n]
               h == HalfFeeder
               half == cg[n].half
               fill == ld[n].nsegs * ld[n].nwords
               rows == t.M * t.W
               a == r * t.W
    <2>2. /\ TileRuns(n) /\ Fits(c) /\ t.M \in Nat /\ t.W \in Nat /\ t.left \in 1 .. t.M
          /\ c.op = "GROUP" /\ c.db => rows <= h
        BY <2>1, TileInRange
    <2>3. /\ c.op = "GROUP" /\ c.db /\ t.act = h - half /\ half \in {0, h}
          /\ ld[n].wbase = half /\ \E j \in 1 .. c.M : Length(ld[n]) = RowWords(c, j)
        BY <2>1, <2>2 DEF TileRuns, Groups
    <2>4. Words \in Nat \ {0} /\ h \in Nat /\ h + h <= Words
        <3>1. Words \in Nat \ {0}
            BY CaseAssumption
        <3> QED
            BY <3>1 DEF HalfFeeder
    <2>5. fill \in Int /\ fill <= h
        <3>1. c \in GroupCommands /\ c.M * c.W <= h
            BY <2>2, <2>3 DEF Fits, HalfFeeder
        <3>2. PICK j \in 1 .. c.M : fill = j * c.W
            BY <2>3 DEF Length, RowWords
        <3>3. c.M \in Nat /\ c.W \in Nat /\ j \in Nat /\ j <= c.M
            BY <3>1 DEF GroupCommands
        <3>4. j * c.W <= c.M * c.W /\ j * c.W \in Int /\ c.M * c.W \in Int
            BY <3>3, TimesMonotone
        <3> HIDE DEF fill, h
        <3> QED
            BY <2>4, <3>1, <3>2, <3>4
    <2>6. r \in Nat /\ r + 1 <= t.M /\ k \in Nat /\ k < t.W
        BY <2>2 DEF RowOf
    <2>7. a \in Nat /\ a + k < rows /\ rows \in Nat
        <3>1. (r + 1) * t.W <= t.M * t.W /\ (r + 1) * t.W = (r * t.W) + (1 * t.W)
            <4> DEFINE W == t.W
                       M == t.M
            <4>1. r + 1 \in Int /\ r \in Int /\ M \in Int /\ r + 1 <= M /\ W \in Nat /\ 1 \in Int
                BY <2>2, <2>6
            <4> HIDE DEF W, M
            <4>2. (r + 1) * W <= M * W
                BY <4>1, TimesMonotone
            <4>3. (r + 1) * W = (r * W) + (1 * W)
                BY <4>1, Distribute
            <4> QED
                BY <4>2, <4>3 DEF W, M
        <3>2. a \in Nat /\ rows \in Nat /\ 1 * t.W = t.W
            BY <2>2, <2>6
        <3>3. a + t.W <= rows
            BY <3>1, <3>2
        <3> HIDE DEF a, rows
        <3> QED
            BY <2>2, <2>6, <3>2, <3>3
    <2>8. Fills(ld[n]) = {(half + x) % Words : x \in 0 .. fill - 1}
        BY <2>3 DEF Fills
    <2> HIDE DEF a, rows, fill, h, half
    <2>9. a + k \in 0 .. h - 1 /\ t.act + a + k = (h - half) + (a + k)
        BY <2>2, <2>3, <2>4, <2>6, <2>7
    <2>10. ASSUME NEW x \in 0 .. fill - 1
           PROVE  (half + x) % Words # (t.act + a + k) % Words
        <3>1. x \in 0 .. h - 1
            BY <2>4, <2>5
        <3> DEFINE u == half + x
                   v == (h - half) + (a + k)
        <3>2. /\ u \in 0 .. Words - 1 /\ v \in 0 .. Words - 1 /\ u # v
            BY <2>3, <2>4, <2>9, <3>1
        <3> HIDE DEF u, v
        <3>3. u % Words = u /\ v % Words = v
            BY <2>4, <3>2
        <3> QED
            BY <2>9, <3>2, <3>3 DEF u, v
    <2> QED
        BY <2>8, <2>10 DEF a
<1> QED
    BY <1>1, Invariance, PTL

(***************************************************************************)
(* Sums, part by part.                                                     *)
(***************************************************************************)
\* A sum is what a fold over the positions yields.
LEMMA TotalIsFold ==
    ASSUME NEW q \in Seq(Nat)
    PROVE  \E g : /\ Total(q) = g[1 .. Len(q)]
                  /\ \A s \in SUBSET (1 .. Len(q)) : /\ g[s] \in Nat
                                                     /\ g[s] = IF s = {} THEN 0 ELSE g[s \ {Max(s)}] + q[Max(s)]
<1> DEFINE n == Len(q)
           V == [s \in SUBSET (1 .. n) |-> Nat]
           F == [p \in (1 .. n) \X Nat |-> p[2] + q[p[1]]]
           Eq(g) == g = [s \in SUBSET (DOMAIN q) |-> IF s = {} THEN 0 ELSE g[s \ {Max(s)}] + q[Max(s)]]
           g == CHOOSE g : Eq(g)
<1>1. n \in Nat /\ DOMAIN q = 1 .. n /\ \A i \in 1 .. n : q[i] \in Nat
    BY SeqShape
<1>2. ASSUME NEW s \in SUBSET (1 .. n), s # {}
      PROVE  Max(s) \in 1 .. n /\ s \ {Max(s)} \in SUBSET (1 .. n)
    BY <1>1, <1>2, Greatest
<1>3. \A s \in SUBSET (1 .. n) : V[s] = Nat
    OBVIOUS
<1>4. {} \in SUBSET (1 .. n)
    OBVIOUS
<1>5. ASSUME NEW s \in SUBSET (1 .. n), s # {}, NEW v \in Nat
      PROVE  F[<<Max(s), v>>] = v + q[Max(s)] /\ v + q[Max(s)] \in Nat
    BY <1>1, <1>2, <1>5
<1> HIDE DEF F, V
<1>6. \E h : Eq(h)
    <2>1. PICK h : /\ IsFold(h, n, 0, F)
                   /\ \A s \in SUBSET (1 .. n) : h[s] \in V[s]
        <3>1. ASSUME NEW s \in SUBSET (1 .. n), s # {}, NEW v \in V[s \ {Max(s)}] PROVE F[<<Max(s), v>>] \in V[s]
            <4>1. s \ {Max(s)} \in SUBSET (1 .. n)
                BY <1>2, <3>1
            <4>2. v \in Nat /\ V[s] = Nat
                BY <1>3, <3>1, <4>1
            <4>3. F[<<Max(s), v>>] = v + q[Max(s)] /\ v + q[Max(s)] \in Nat
                BY <1>5, <3>1, <4>2
            <4> QED
                BY <4>2, <4>3, Zenon
        <3>2. 0 \in V[{}]
            BY <1>3, <1>4
        <3> QED
            BY <1>1, <3>1, <3>2, FoldMeets
    <2>2. ASSUME NEW s \in SUBSET (1 .. n), s # {}
          PROVE  F[<<Max(s), h[s \ {Max(s)}]>>] = h[s \ {Max(s)}] + q[Max(s)]
        <3>1. s \ {Max(s)} \in SUBSET (1 .. n)
            BY <1>2, <2>2
        <3>2. h[s \ {Max(s)}] \in V[s \ {Max(s)}]
            BY <2>1, <3>1
        <3>3. h[s \ {Max(s)}] \in Nat
            BY <1>3, <3>1, <3>2
        <3> QED
            BY <1>5, <2>2, <3>3
    <2>3. h = [s \in SUBSET (DOMAIN q) |-> IF s = {} THEN 0 ELSE h[s \ {Max(s)}] + q[Max(s)]]
        BY <1>1, <2>1, <2>2 DEF IsFold
    <2> QED
        BY <2>3
<1>7. Eq(g)
    BY <1>6
<1>8. Total(q) = g[DOMAIN q]
    BY DEF Total, FoldLeft, MapThenFoldSet
<1> HIDE DEF g
<1>9. \A s \in SUBSET (1 .. n) : g[s] = IF s = {} THEN 0 ELSE g[s \ {Max(s)}] + q[Max(s)]
    BY <1>1, <1>7
<1>10. g[{}] \in V[{}]
    <2>1. g[{}] = 0
        BY <1>4, <1>9
    <2>2. V[{}] = Nat
        BY <1>3, <1>4
    <2> QED
        BY <2>1, <2>2
<1>11. ASSUME NEW s \in SUBSET (1 .. n), s # {}, g[s \ {Max(s)}] \in V[s \ {Max(s)}] PROVE g[s] \in V[s]
    <2>1. s \ {Max(s)} \in SUBSET (1 .. n)
        BY <1>2, <1>11
    <2>2. g[s \ {Max(s)}] \in Nat /\ V[s] = Nat
        BY <1>3, <1>11, <2>1
    <2>3. g[s] = g[s \ {Max(s)}] + q[Max(s)]
        BY <1>9, <1>11
    <2>4. g[s \ {Max(s)}] + q[Max(s)] \in Nat
        BY <1>5, <1>11, <2>2
    <2> QED
        BY <2>2, <2>3, <2>4
<1>12. \A s \in SUBSET (1 .. n) : g[s] \in V[s]
    BY <1>1, <1>10, <1>11, FoldKeeps
<1>13. Total(q) = g[1 .. n] /\ \A s \in SUBSET (1 .. n) : g[s] \in Nat
    BY <1>1, <1>3, <1>8, <1>12
<1> HIDE DEF n
<1> QED
    BY <1>9, <1>13 DEF n

\* A sum of numbers, and a sum of one more number.
LEMMA TotalStep ==
    ASSUME NEW q \in Seq(Nat), NEW r \in Seq(Nat), Len(q) = Len(r) + 1, \A i \in 1 .. Len(r) : q[i] = r[i]
    PROVE  Total(q) = Total(r) + q[Len(q)] /\ Total(r) \in Nat
<1> DEFINE n == Len(q)
           m == Len(r)
<1>1. n \in Nat /\ m \in Nat /\ n = m + 1
    OBVIOUS
<1>2. PICK g : /\ Total(q) = g[1 .. n]
               /\ \A s \in SUBSET (1 .. n) : /\ g[s] \in Nat
                                             /\ g[s] = IF s = {} THEN 0 ELSE g[s \ {Max(s)}] + q[Max(s)]
    BY TotalIsFold
<1>3. PICK h : /\ Total(r) = h[1 .. m]
               /\ \A s \in SUBSET (1 .. m) : /\ h[s] \in Nat
                                             /\ h[s] = IF s = {} THEN 0 ELSE h[s \ {Max(s)}] + r[Max(s)]
    BY TotalIsFold
<1> DEFINE V == [s \in SUBSET (1 .. m) |-> {h[s]}]
<1>4. \A s \in SUBSET (1 .. m) : V[s] = {h[s]} /\ s \in SUBSET (1 .. n)
    BY <1>1
<1>5. \A i \in 1 .. m : q[i] = r[i]
    OBVIOUS
<1> HIDE DEF V, n, m
<1>6. g[{}] \in V[{}]
    <2>1. {} \in SUBSET (1 .. m) /\ {} \in SUBSET (1 .. n)
        OBVIOUS
    <2> QED
        BY <1>2, <1>3, <1>4, <2>1
<1>7. ASSUME NEW s \in SUBSET (1 .. m), s # {}, g[s \ {Max(s)}] \in V[s \ {Max(s)}] PROVE g[s] \in V[s]
    <2>1. Max(s) \in 1 .. m /\ s \ {Max(s)} \in SUBSET (1 .. m)
        BY <1>1, <1>7, Greatest
    <2>2. g[s \ {Max(s)}] = h[s \ {Max(s)}]
        BY <1>4, <1>7, <2>1
    <2>3. g[s] = g[s \ {Max(s)}] + q[Max(s)]
        BY <1>2, <1>4, <1>7
    <2>4. h[s] = h[s \ {Max(s)}] + r[Max(s)]
        BY <1>3, <1>7
    <2>5. g[s] = h[s]
        BY <1>5, <2>1, <2>2, <2>3, <2>4
    <2> QED
        BY <1>4, <2>5
<1>8. \A s \in SUBSET (1 .. m) : g[s] \in V[s]
    BY <1>1, <1>6, <1>7, FoldKeeps
<1>9. g[1 .. m] = h[1 .. m] /\ h[1 .. m] \in Nat
    <2>1. 1 .. m \in SUBSET (1 .. m)
        OBVIOUS
    <2> QED
        BY <1>3, <1>4, <1>8, <2>1
<1>10. Max(1 .. n) = n /\ (1 .. n) \ {n} = 1 .. m /\ 1 .. n # {}
    <2> DEFINE s == 1 .. n
    <2>1. n \in s /\ \A i \in s : i <= n
        BY <1>1
    <2>2. \E x \in s : \A y \in s : x >= y
        BY <1>1
    <2>3. Max(s) \in s /\ \A y \in s : Max(s) >= y
        <3> HIDE DEF s
        <3> QED
            BY <2>2 DEF Max
    <2>4. Max(s) = n
        <3> DEFINE x == Max(s)
        <3>1. x \in 1 .. n /\ x >= n
            BY <2>1, <2>3
        <3> HIDE DEF x
        <3>2. x = n
            BY <1>1, <3>1
        <3> QED
            BY <3>2 DEF x
    <2>5. \A x \in Int : x \in 1 .. n /\ x # n <=> x \in 1 .. m
        BY <1>1
    <2>6. s \ {n} = 1 .. m
        <3>1. \A x : x \in 1 .. n \/ x \in 1 .. m => x \in Int
            BY <1>1
        <3> QED
            BY <2>5, <3>1
    <2>7. s # {}
        BY <2>1
    <2> QED
        BY <2>4, <2>6, <2>7
<1>11. g[1 .. n] = g[(1 .. n) \ {Max(1 .. n)}] + q[Max(1 .. n)]
    <2>1. 1 .. n \in SUBSET (1 .. n)
        OBVIOUS
    <2> QED
        BY <1>2, <1>10, <2>1
<1>12. g[1 .. n] = h[1 .. m] + q[n]
    BY <1>9, <1>10, <1>11
<1> QED
    BY <1>2, <1>3, <1>9, <1>12 DEF n

\* No numbers add up to nothing.
LEMMA TotalOfNone ==
    ASSUME NEW q \in Seq(Nat), Len(q) = 0
    PROVE  Total(q) = 0
<1>1. PICK g : /\ Total(q) = g[1 .. Len(q)]
               /\ \A s \in SUBSET (1 .. Len(q)) : /\ g[s] \in Nat
                                                  /\ g[s] = IF s = {} THEN 0 ELSE g[s \ {Max(s)}] + q[Max(s)]
    BY TotalIsFold
<1>2. 1 .. Len(q) = {} /\ {} \in SUBSET (1 .. Len(q))
    OBVIOUS
<1>3. g[{}] = 0
    BY <1>1, <1>2
<1> QED
    BY <1>1, <1>2, <1>3

\* A sum of numbers is a number.
LEMMA TotalIn ==
    ASSUME NEW q \in Seq(Nat)
    PROVE  Total(q) \in Nat
<1>1. PICK g : /\ Total(q) = g[1 .. Len(q)]
               /\ \A s \in SUBSET (1 .. Len(q)) : /\ g[s] \in Nat
                                                  /\ g[s] = IF s = {} THEN 0 ELSE g[s \ {Max(s)}] + q[Max(s)]
    BY TotalIsFold
<1>2. 1 .. Len(q) \in SUBSET (1 .. Len(q))
    OBVIOUS
<1> QED
    BY <1>1, <1>2

\* The parts of a list put together: where they begin.
LEMMA PartsAt ==
    ASSUME NEW S, NEW seqs \in Seq(Seq(S)), Len(seqs) # 0
    PROVE  LET from(k) == Total([j \in 1 .. k - 1 |-> Len(seqs[j])])
               all == FlattenSeq(seqs)
           IN  /\ \A k \in 1 .. Len(seqs) :
                     /\ from(k) \in Nat /\ from(k + 1) = from(k) + Len(seqs[k])
                     /\ \A j \in 1 .. Len(seqs[k]) : all[from(k) + j] = seqs[k][j]
               /\ \A i \in 1 .. Len(all) : \E k \in 1 .. Len(seqs) : from(k) < i /\ i <= from(k + 1)
<1> DEFINE n == Len(seqs)
           lens(k) == [j \in 1 .. k - 1 |-> Len(seqs[j])]
           from(k) == Total(lens(k))
           off == [k \in 1 .. n + 1 |-> from(k)]
           all == FlattenSeq(seqs)
<1>1. n \in Nat \ {0} /\ \A j \in 1 .. n : seqs[j] \in Seq(S) /\ Len(seqs[j]) \in Nat
    OBVIOUS
<1>2. ASSUME NEW k \in 1 .. n + 1 PROVE lens(k) \in Seq(Nat) /\ Len(lens(k)) = k - 1 /\ \A j \in 1 .. k - 1 : lens(k)[j] = Len(seqs[j])
    <2>1. \A j \in 1 .. k - 1 : Len(seqs[j]) \in Nat
        BY <1>1
    <2>2. k - 1 \in Nat
        BY <1>1
    <2> DEFINE q == lens(k)
               At(j) == Len(seqs[j])
    <2>3. q = [j \in 1 .. k - 1 |-> At(j)] /\ \A j \in 1 .. k - 1 : At(j) \in Nat
        BY <2>1
    <2> HIDE DEF q, At
    <2>4. q \in Seq(Nat) /\ Len(q) = k - 1 /\ \A j \in 1 .. k - 1 : q[j] = At(j)
        BY <2>2, <2>3
    <2> QED
        BY <2>4 DEF At, q
<1>3. ASSUME NEW k \in 1 .. n + 1 PROVE from(k) \in Nat
    <2> HIDE DEF lens
    <2> QED
        BY <1>2, TotalIn
<1>4. from(1) = 0
    <2>1. 1 \in 1 .. n + 1 /\ 1 - 1 = 0
        BY <1>1
    <2>2. lens(1) \in Seq(Nat) /\ Len(lens(1)) = 0
        BY <1>2, <2>1
    <2> HIDE DEF lens
    <2> QED
        BY <2>2, TotalOfNone
<1>5. ASSUME NEW k \in 1 .. n PROVE from(k + 1) = from(k) + Len(seqs[k])
    <2>1. k \in 1 .. n + 1 /\ k + 1 \in 1 .. n + 1 /\ (k + 1) - 1 = k /\ k \in 1 .. k /\ (k - 1) + 1 = k
        BY <1>1
    <2> DEFINE q == lens(k + 1)
               r == lens(k)
    <2>2. /\ q \in Seq(Nat) /\ r \in Seq(Nat) /\ Len(q) = k /\ Len(r) = k - 1
          /\ \A j \in 1 .. k : q[j] = Len(seqs[j])
          /\ \A j \in 1 .. k - 1 : r[j] = Len(seqs[j])
        BY <1>2, <2>1
    <2> HIDE DEF lens, q, r
    <2>3. \A j \in 1 .. Len(r) : q[j] = r[j]
        <3>1. \A j \in 1 .. k - 1 : j \in 1 .. k
            BY <1>1
        <3>2. \A j \in 1 .. k - 1 : q[j] = r[j]
            BY <2>2, <3>1
        <3> QED
            BY <2>2, <3>2
    <2>4. Total(q) = Total(r) + q[Len(q)]
        BY <2>1, <2>2, <2>3, TotalStep
    <2>7. k \in 1 .. k
        BY <1>1
    <2>8. q[k] = Len(seqs[k])
        BY <2>2, <2>7, Zenon
    <2>5. Len(q) = k /\ q[k] = Len(seqs[k])
        BY <2>2, <2>8, Zenon
    <2>6. Total(q) = Total(r) + Len(seqs[k])
        BY <2>4, <2>5, Zenon
    <2> QED
        BY <2>6 DEF q, r
<1> HIDE DEF from, n
<1>6. /\ off[1] = 0 /\ \A k \in 1 .. n + 1 : off[k] = from(k) /\ off[k] \in Nat
      /\ \A k \in 1 .. n : off[k] \in Nat /\ off[k + 1] = off[k] + Len(seqs[k])
    BY <1>1, <1>3, <1>4, <1>5
<1> HIDE DEF off
<1>7. Len(all) = off[n + 1] /\ \A k \in 1 .. n : \A j \in 1 .. Len(seqs[k]) : all[off[k] + j] = seqs[k][j]
    BY <1>6, FlattenAt DEF n
<1>8. ASSUME NEW i \in 1 .. Len(all) PROVE \E k \in 1 .. n : from(k) < i /\ i <= from(k + 1)
    <2>1. i \in 1 .. off[n + 1]
        BY <1>7
    <2>2. PICK k \in 1 .. n : off[k] < i /\ i <= off[k + 1]
        BY <1>1, <1>6, <2>1, ListOfPosition
    <2>3. k \in 1 .. n + 1 /\ k + 1 \in 1 .. n + 1
        BY <1>1
    <2> QED
        BY <1>6, <2>2, <2>3
<1>9. \A k \in 1 .. n : k \in 1 .. n + 1
    BY <1>1
<1>10. \A k \in 1 .. n : \A j \in 1 .. Len(seqs[k]) : all[from(k) + j] = seqs[k][j]
    BY <1>6, <1>7, <1>9
<1> HIDE DEF all
<1> QED
    BY <1>3, <1>5, <1>8, <1>9, <1>10 DEF from, all, n

(***************************************************************************)
(* What the access ranges rest on.                                         *)
(***************************************************************************)
\* Where a tile begins (chain_groups).
Begins(words, i) == i = 1 \/ (words[i].op = "OUT" /\ i < Len(words) /\ words[i + 1].op \in Loads)

\* A load of numbers; the images of a LOAD lie next to each other.
LoadWell(l) ==
    /\ l.base \in Int /\ l.first \in Nat /\ l.nreg \in Nat /\ l.nwords \in Nat
    /\ l.nsegs \in Nat /\ l.segStep \in Nat /\ l.tgtStep \in Nat
    /\ l.op = "LOAD" => l.nsegs = 1 /\ l.tgtStep = l.nwords

\* The last stage a load fills.
Deepest(l) == l.first + l.nreg - 1

\* OUT o writes column group g of a tile of depth D: a block is a row of the tile.
Pitched(o, g, D) ==
    /\ o = Out(o.base, o.blk, o.gap) /\ o.base \in Int /\ o.blk \in Nat /\ o.gap \in Int /\ Fits(g)
    /\ D % Cells = 0 /\ o.blk # 0 => o.blk * Cells = D * g.P /\ o.blk * Cells + o.gap >= 0

\* Nothing but loads between an OUT and a command.
Leads(words, o, i) == words[o].op = "OUT" /\ \A k \in o + 1 .. i - 1 : words[k].op \in Loads
Led(words, i, D) == \E o \in 1 .. i - 1 : Leads(words, o, i) /\ Pitched(words[o], words[i], D)

\* Loads follow, one of them of stage D.
Heads(words, i, D) ==
    \E k \in i + 1 .. Len(words) : (\A j \in i + 1 .. k : words[j].op \in Loads) /\ Deepest(words[k]) = D

\* A part for a node of depth D.
Sound(words, D) ==
    /\ IsSequence(words)
    /\ \A i \in 1 .. Len(words) :
        /\ words[i].op # "TILE"
        /\ words[i].op \in Loads => LoadWell(words[i]) /\ Deepest(words[i]) <= D
        /\ words[i].op = "GROUP" => Led(words, i, D)
        /\ words[i].op = "GROUP" => \E k \in 1 .. Len(words) : words[k].op \in Loads /\ Deepest(words[k]) = D

\* Tiles one after the other; dep: of every command, the depth of its tile.
TaggedBy(words, dep) ==
    \A i \in 1 .. Len(words) :
        /\ dep[i] \in Nat /\ words[i].op # "TILE"
        /\ words[i].op \in Loads => LoadWell(words[i]) /\ Deepest(words[i]) <= dep[i]
        /\ words[i].op = "GROUP" => Led(words, i, dep[i])
        /\ ~Begins(words, i) => dep[i] = dep[i - 1]
        /\ Begins(words, i) => words[i].op = "OUT" /\ Heads(words, i, dep[i])
Tagged(words) == IsSequence(words) /\ \E dep : TaggedBy(words, dep)

\* What a command is led by it is led by in a longer list.
LEMMA LedShift ==
    ASSUME NEW q, NEW w, NEW a \in Nat, Len(q) \in Nat, \A j \in 1 .. Len(q) : w[a + j] = q[j],
           NEW i \in 1 .. Len(q), NEW D, Led(q, i, D)
    PROVE  Led(w, a + i, D)
<1>1. PICK o \in 1 .. i - 1 : Leads(q, o, i) /\ Pitched(q[o], q[i], D)
    BY DEF Led
<1>2. o \in 1 .. Len(q) /\ a + o \in 1 .. (a + i) - 1 /\ w[a + o] = q[o] /\ w[a + i] = q[i]
    OBVIOUS
<1>3. ASSUME NEW k \in (a + o) + 1 .. (a + i) - 1 PROVE w[k].op \in Loads
    <2> DEFINE j == k - a
    <2>1. j \in o + 1 .. i - 1 /\ j \in 1 .. Len(q) /\ a + j = k
        OBVIOUS
    <2> HIDE DEF j
    <2>2. q[j].op \in Loads
        BY <1>1, <2>1 DEF Leads
    <2> QED
        BY <2>1, <2>2
<1>4. Leads(w, a + o, a + i)
    BY <1>1, <1>2, <1>3 DEF Leads
<1> QED
    BY <1>1, <1>2, <1>4 DEF Led

\* So are the loads that follow a command.
LEMMA HeadsShift ==
    ASSUME NEW q, NEW w, NEW a \in Nat, Len(q) \in Nat, Len(w) \in Nat, a + Len(q) <= Len(w),
           \A j \in 1 .. Len(q) : w[a + j] = q[j], NEW i \in 1 .. Len(q), NEW D, Heads(q, i, D)
    PROVE  Heads(w, a + i, D)
<1>1. PICK k \in i + 1 .. Len(q) : (\A j \in i + 1 .. k : q[j].op \in Loads) /\ Deepest(q[k]) = D
    BY DEF Heads
<1>2. k \in 1 .. Len(q) /\ a + k \in (a + i) + 1 .. Len(w) /\ w[a + k] = q[k]
    OBVIOUS
<1>3. ASSUME NEW l \in (a + i) + 1 .. a + k PROVE w[l].op \in Loads
    <2> DEFINE j == l - a
    <2>1. j \in i + 1 .. k /\ j \in 1 .. Len(q) /\ a + j = l
        BY <1>2
    <2> HIDE DEF j
    <2>2. q[j].op \in Loads
        BY <1>1, <2>1
    <2> QED
        BY <2>1, <2>2
<1> QED
    BY <1>1, <1>2, <1>3 DEF Heads

\* A part of nothing.
LEMMA NothingSound ==
    ASSUME NEW D
    PROVE  Sound(<<>>, D) /\ Tagged(<<>>)
<1>1. IsSequence(<<>>) /\ Len(<<>>) = 0
    BY ProgramOfNone DEF Program
<1>2. 1 .. 0 = {}
    OBVIOUS
<1> DEFINE e == <<>>
<1>3. IsSequence(e) /\ \A i : i \notin 1 .. Len(e)
    BY <1>1, <1>2
<1> HIDE DEF e
<1>4. Sound(e, D)
    BY <1>3 DEF Sound
<1>5. \A dep : TaggedBy(e, dep)
    BY <1>3 DEF TaggedBy
<1>6. Tagged(e)
    BY <1>3, <1>5 DEF Tagged
<1> QED
    BY <1>4, <1>6 DEF e

\* Parts one after the other are a part.
LEMMA SoundJoined ==
    ASSUME NEW p, NEW q, NEW D, Sound(p, D), Sound(q, D)
    PROVE  Sound(p \o q, D)
<1> DEFINE w == p \o q
           a == Len(p)
           b == Len(q)
<1>1. /\ IsSequence(w) /\ a \in Nat /\ b \in Nat /\ Len(w) = a + b
      /\ \A i \in 1 .. a : w[i] = p[i]
      /\ \A j \in 1 .. b : w[a + j] = q[j]
    BY JoinAt DEF Sound
<1>2. \A i \in 1 .. a : w[0 + i] = p[i]
    BY <1>1
<1> HIDE DEF w
<1>3. ASSUME NEW i \in 1 .. a
      PROVE  /\ w[i].op \in Loads => LoadWell(w[i]) /\ Deepest(w[i]) <= D
             /\ w[i].op = "GROUP" => Led(w, i, D)
             /\ w[i].op = "GROUP" => \E k \in 1 .. Len(w) : w[k].op \in Loads /\ Deepest(w[k]) = D
    <2>1. w[i] = p[i] /\ 0 + i = i
        BY <1>1
    <2>2. w[i].op \in Loads => LoadWell(w[i]) /\ Deepest(w[i]) <= D
        BY <2>1 DEF Sound
    <2>3. ASSUME w[i].op = "GROUP"
          PROVE  Led(w, i, D) /\ \E k \in 1 .. Len(w) : w[k].op \in Loads /\ Deepest(w[k]) = D
        <3>1. Led(p, i, D) /\ \E k \in 1 .. a : p[k].op \in Loads /\ Deepest(p[k]) = D
            BY <2>1, <2>3 DEF Sound
        <3>2. 0 \in Nat
            OBVIOUS
        <3>3. Led(w, 0 + i, D)
            BY <1>1, <1>2, <3>1, <3>2, LedShift
        <3>4. PICK k \in 1 .. a : p[k].op \in Loads /\ Deepest(p[k]) = D
            BY <3>1
        <3>5. k \in 1 .. Len(w) /\ w[k] = p[k]
            BY <1>1
        <3> QED
            BY <2>1, <3>3, <3>4, <3>5
    <2> QED
        BY <2>2, <2>3
<1>4. ASSUME NEW j \in 1 .. b
      PROVE  /\ w[a + j].op \in Loads => LoadWell(w[a + j]) /\ Deepest(w[a + j]) <= D
             /\ w[a + j].op = "GROUP" => Led(w, a + j, D)
             /\ w[a + j].op = "GROUP" => \E k \in 1 .. Len(w) : w[k].op \in Loads /\ Deepest(w[k]) = D
    <2>1. w[a + j] = q[j]
        BY <1>1
    <2>2. w[a + j].op \in Loads => LoadWell(w[a + j]) /\ Deepest(w[a + j]) <= D
        BY <2>1 DEF Sound
    <2>3. ASSUME w[a + j].op = "GROUP"
          PROVE  Led(w, a + j, D) /\ \E k \in 1 .. Len(w) : w[k].op \in Loads /\ Deepest(w[k]) = D
        <3>1. Led(q, j, D) /\ \E k \in 1 .. b : q[k].op \in Loads /\ Deepest(q[k]) = D
            BY <2>1, <2>3 DEF Sound
        <3>3. Led(w, a + j, D)
            BY <1>1, <3>1, LedShift
        <3>4. PICK k \in 1 .. b : q[k].op \in Loads /\ Deepest(q[k]) = D
            BY <3>1
        <3>5. a + k \in 1 .. Len(w) /\ w[a + k] = q[k]
            BY <1>1
        <3> QED
            BY <3>3, <3>4, <3>5
    <2> QED
        BY <2>2, <2>3
<1>5. \A i \in 1 .. Len(w) : i \in 1 .. a \/ \E j \in 1 .. b : i = a + j
    <2> HIDE DEF a, b
    <2>1. ASSUME NEW i \in 1 .. a + b, i \notin 1 .. a PROVE i - a \in 1 .. b /\ i = a + (i - a)
        BY <1>1, <2>1
    <2> QED
        BY <1>1, <2>1
<1> HIDE DEF a, b
<1>6. \A i \in 1 .. Len(w) :
        /\ w[i].op \in Loads => LoadWell(w[i]) /\ Deepest(w[i]) <= D
        /\ w[i].op = "GROUP" => Led(w, i, D)
        /\ w[i].op = "GROUP" => \E k \in 1 .. Len(w) : w[k].op \in Loads /\ Deepest(w[k]) = D
    BY <1>3, <1>4, <1>5
<1> QED
    BY <1>1, <1>6 DEF Sound, w

\* Tiles one after the other.
LEMMA TaggedJoined ==
    ASSUME NEW p, NEW q, Tagged(p), Tagged(q)
    PROVE  Tagged(p \o q)
<1> DEFINE w == p \o q
           a == Len(p)
           b == Len(q)
<1>1. /\ IsSequence(w) /\ a \in Nat /\ b \in Nat /\ Len(w) = a + b
      /\ \A i \in 1 .. a : w[i] = p[i]
      /\ \A j \in 1 .. b : w[a + j] = q[j]
    BY JoinAt DEF Tagged
<1>2. PICK dp : TaggedBy(p, dp)
    BY DEF Tagged
<1>3. PICK dq : TaggedBy(q, dq)
    BY DEF Tagged
<1> DEFINE dep == [i \in 1 .. a + b |-> IF i \in 1 .. a THEN dp[i] ELSE dq[i - a]]
<1>4. \A i \in 1 .. a : dep[i] = dp[i]
    BY <1>1
<1>5. \A j \in 1 .. b : dep[a + j] = dq[j]
    <2> HIDE DEF a, b
    <2>1. \A j \in 1 .. b : a + j \in 1 .. a + b /\ a + j \notin 1 .. a /\ (a + j) - a = j
        BY <1>1
    <2> QED
        BY <2>1
<1> HIDE DEF w, dep
<1>6. ASSUME NEW i \in 1 .. a
      PROVE  /\ dep[i] \in Nat /\ w[i].op # "TILE"
             /\ w[i].op \in Loads => LoadWell(w[i]) /\ Deepest(w[i]) <= dep[i]
             /\ w[i].op = "GROUP" => Led(w, i, dep[i])
             /\ ~Begins(w, i) => dep[i] = dep[i - 1]
             /\ Begins(w, i) => w[i].op = "OUT" /\ Heads(w, i, dep[i])
    <2>1. w[i] = p[i] /\ 0 + i = i /\ dep[i] = dp[i] /\ 0 \in Nat
        BY <1>1, <1>4
    <2>2. \A j \in 1 .. a : w[0 + j] = p[j]
        BY <1>1
    <2>3. dep[i] \in Nat /\ w[i].op # "TILE" /\ (w[i].op \in Loads => LoadWell(w[i]) /\ Deepest(w[i]) <= dep[i])
        BY <1>2, <2>1 DEF TaggedBy
    <2>4. ASSUME w[i].op = "GROUP" PROVE Led(w, i, dep[i])
        <3>1. Led(p, i, dep[i])
            BY <1>2, <2>1, <2>4 DEF TaggedBy
        <3>2. Led(w, 0 + i, dep[i])
            BY <1>1, <2>1, <2>2, <3>1, LedShift
        <3> QED
            BY <2>1, <3>2
    <2>5. Begins(w, i) <=> Begins(p, i)
        <3>1. CASE i = 1
            BY <3>1 DEF Begins
        <3>2. CASE i # 1 /\ i < a
            <4>1. i + 1 \in 1 .. a /\ i < Len(w)
                BY <1>1, <3>2
            <4>2. w[i + 1] = p[i + 1]
                BY <1>1, <4>1
            <4> QED
                BY <2>1, <3>2, <4>1, <4>2 DEF Begins
        <3>3. CASE i # 1 /\ i = a
            <4>1. ~Begins(p, i)
                BY <1>1, <3>3 DEF Begins
            <4>2. ASSUME Begins(w, i) PROVE FALSE
                <5>1. a < Len(w) /\ w[a + 1].op \in Loads
                    BY <3>3, <4>2 DEF Begins
                <5>2. 1 \in 1 .. b
                    BY <1>1, <5>1
                <5>3. q[1].op = "OUT" /\ w[a + 1] = q[1]
                    BY <1>1, <1>3, <5>2 DEF TaggedBy, Begins
                <5> QED
                    BY <5>1, <5>3 DEF Loads
            <4> QED
                BY <4>1, <4>2
        <3>4. i < a \/ i = a
            BY <1>1
        <3> QED
            BY <3>1, <3>2, <3>3, <3>4
    <2>6. ASSUME ~Begins(w, i) PROVE dep[i] = dep[i - 1]
        <3>1. i # 1 /\ dp[i] = dp[i - 1]
            BY <1>2, <2>5, <2>6 DEF TaggedBy, Begins
        <3>2. i - 1 \in 1 .. a
            BY <1>1, <3>1
        <3> QED
            BY <1>4, <2>1, <3>1, <3>2
    <2>7. ASSUME Begins(w, i) PROVE w[i].op = "OUT" /\ Heads(w, i, dep[i])
        <3>1. p[i].op = "OUT" /\ Heads(p, i, dep[i])
            BY <1>2, <2>1, <2>5, <2>7 DEF TaggedBy
        <3>2. 0 + a <= Len(w) /\ Len(w) \in Nat
            BY <1>1
        <3>3. Heads(w, 0 + i, dep[i])
            BY <1>1, <2>1, <2>2, <3>1, <3>2, HeadsShift
        <3> QED
            BY <2>1, <3>1, <3>3
    <2> QED
        BY <2>3, <2>4, <2>6, <2>7
<1>7. ASSUME NEW j \in 1 .. b
      PROVE  LET i == a + j
             IN  /\ dep[i] \in Nat /\ w[i].op # "TILE"
                 /\ w[i].op \in Loads => LoadWell(w[i]) /\ Deepest(w[i]) <= dep[i]
                 /\ w[i].op = "GROUP" => Led(w, i, dep[i])
                 /\ ~Begins(w, i) => dep[i] = dep[i - 1]
                 /\ Begins(w, i) => w[i].op = "OUT" /\ Heads(w, i, dep[i])
    <2> DEFINE i == a + j
    <2>1. w[i] = q[j] /\ dep[i] = dq[j]
        BY <1>1, <1>5
    <2>3. dep[i] \in Nat /\ w[i].op # "TILE" /\ (w[i].op \in Loads => LoadWell(w[i]) /\ Deepest(w[i]) <= dep[i])
        BY <1>3, <2>1 DEF TaggedBy
    <2>4. ASSUME w[i].op = "GROUP" PROVE Led(w, i, dep[i])
        <3>1. Led(q, j, dep[i])
            BY <1>3, <2>1, <2>4 DEF TaggedBy
        <3> QED
            BY <1>1, <3>1, LedShift
    <2>5. ASSUME Begins(w, i) PROVE Begins(q, j)
        <3>1. CASE j = 1
            BY <3>1 DEF Begins
        <3>2. CASE j # 1
            <4>1. i # 1
                <5> HIDE DEF a, b
                <5> QED
                    BY <1>1, <3>2
            <4>2. w[i].op = "OUT" /\ i < Len(w) /\ w[i + 1].op \in Loads
                BY <2>5, <4>1 DEF Begins
            <4>3. j < b /\ i + 1 = a + (j + 1) /\ j + 1 \in 1 .. b
                <5> HIDE DEF a, b
                <5> QED
                    BY <1>1, <4>2
            <4>4. w[i + 1] = q[j + 1]
                BY <1>1, <4>3
            <4> QED
                BY <2>1, <4>2, <4>3, <4>4 DEF Begins
        <3> QED
            BY <3>1, <3>2
    <2>6. ASSUME Begins(q, j) PROVE Begins(w, i) /\ w[i].op = "OUT" /\ Heads(w, i, dep[i])
        <3>1. q[j].op = "OUT" /\ Heads(q, j, dep[i])
            BY <1>3, <2>1, <2>6 DEF TaggedBy
        <3>2. a + b <= Len(w) /\ Len(w) \in Nat
            BY <1>1
        <3>3. Heads(w, i, dep[i])
            BY <1>1, <3>1, <3>2, HeadsShift
        <3>4. PICK k \in i + 1 .. Len(w) : \A l \in i + 1 .. k : w[l].op \in Loads
            BY <3>3 DEF Heads
        <3>5. i < Len(w) /\ i + 1 \in i + 1 .. k
            <4> HIDE DEF a, b
            <4> QED
                BY <1>1
        <3>6. w[i + 1].op \in Loads
            BY <3>4, <3>5
        <3> QED
            BY <2>1, <3>1, <3>3, <3>5, <3>6 DEF Begins
    <2>7. ASSUME ~Begins(w, i) PROVE dep[i] = dep[i - 1]
        <3>1. ~Begins(q, j)
            BY <2>6, <2>7
        <3>2. j # 1 /\ dq[j] = dq[j - 1]
            BY <1>3, <3>1 DEF TaggedBy, Begins
        <3>3. j - 1 \in 1 .. b /\ i - 1 = a + (j - 1)
            <4> HIDE DEF a, b
            <4> QED
                BY <1>1, <3>2
        <3>4. dep[i - 1] = dq[j - 1]
            BY <1>5, <3>3
        <3> QED
            BY <2>1, <3>2, <3>4
    <2> HIDE DEF i
    <2>8. Begins(w, i) => w[i].op = "OUT" /\ Heads(w, i, dep[i])
        BY <2>5, <2>6
    <2> QED
        BY <2>3, <2>4, <2>7, <2>8 DEF i
<1>8. \A i \in 1 .. Len(w) : i \in 1 .. a \/ \E j \in 1 .. b : i = a + j
    <2> HIDE DEF a, b
    <2>1. ASSUME NEW i \in 1 .. a + b, i \notin 1 .. a PROVE i - a \in 1 .. b /\ i = a + (i - a)
        BY <1>1, <2>1
    <2> QED
        BY <1>1, <2>1
<1> HIDE DEF a, b
<1>9. TaggedBy(w, dep)
    <2>1. SUFFICES ASSUME NEW i \in 1 .. Len(w)
                   PROVE  /\ dep[i] \in Nat /\ w[i].op # "TILE"
                          /\ w[i].op \in Loads => LoadWell(w[i]) /\ Deepest(w[i]) <= dep[i]
                          /\ w[i].op = "GROUP" => Led(w, i, dep[i])
                          /\ ~Begins(w, i) => dep[i] = dep[i - 1]
                          /\ Begins(w, i) => w[i].op = "OUT" /\ Heads(w, i, dep[i])
        BY DEF TaggedBy
    <2>2. CASE i \in 1 .. a
        BY <1>6, <2>2
    <2>3. CASE \E j \in 1 .. b : i = a + j
        <3>1. PICK j \in 1 .. b : i = a + j
            BY <2>3
        <3> QED
            BY <1>7, <3>1
    <2> QED
        BY <1>8, <2>2, <2>3
<1>10. Tagged(w)
    BY <1>1, <1>9 DEF Tagged
<1> QED
    BY <1>10 DEF w

\* Tiles one after the other are tiles.
LEMMA TaggedFlat ==
    ASSUME NEW n \in Nat, NEW seqs, seqs = [i \in 1 .. n |-> seqs[i]], \A i \in 1 .. n : Tagged(seqs[i])
    PROVE  Tagged(FlattenSeq(seqs))
<1>1. CASE n = 0
    BY <1>1, FlattenNone, NothingSound
<1>2. CASE n # 0
    <2>1. PICK S : seqs \in Seq(Seq(S)) /\ Len(seqs) = n /\ \A i \in 1 .. n : seqs[i] \in Seq(S)
        BY ListsOver DEF Tagged
    <2> DEFINE V == {w \in Seq(S) : Tagged(w)}
    <2>2. seqs[1] \in V
        BY <1>2, <2>1
    <2>3. ASSUME NEW i \in 2 .. Len(seqs), NEW p \in V PROVE p \o seqs[i] \in V
        <3>1. seqs[i] \in Seq(S) /\ Tagged(seqs[i]) /\ p \in Seq(S) /\ Tagged(p)
            BY <2>1
        <3>2. p \o seqs[i] \in Seq(S)
            BY <3>1, Joined
        <3>3. Tagged(p \o seqs[i])
            BY <3>1, TaggedJoined
        <3> QED
            BY <3>2, <3>3
    <2> HIDE DEF V
    <2>4. FlattenSeq(seqs) \in V
        BY <1>2, <2>1, <2>2, <2>3, FlattenKeeps
    <2> QED
        BY <2>4 DEF V
<1> QED
    BY <1>1, <1>2

\* Parts one after the other are a part.
LEMMA SoundFlat ==
    ASSUME NEW n \in Nat, NEW seqs, seqs = [i \in 1 .. n |-> seqs[i]], NEW D, \A i \in 1 .. n : Sound(seqs[i], D)
    PROVE  Sound(FlattenSeq(seqs), D)
<1>1. CASE n = 0
    BY <1>1, FlattenNone, NothingSound
<1>2. CASE n # 0
    <2>1. PICK S : seqs \in Seq(Seq(S)) /\ Len(seqs) = n /\ \A i \in 1 .. n : seqs[i] \in Seq(S)
        BY ListsOver DEF Sound
    <2> DEFINE V == {w \in Seq(S) : Sound(w, D)}
    <2>2. seqs[1] \in V
        BY <1>2, <2>1
    <2>3. ASSUME NEW i \in 2 .. Len(seqs), NEW p \in V PROVE p \o seqs[i] \in V
        <3>1. seqs[i] \in Seq(S) /\ Sound(seqs[i], D) /\ p \in Seq(S) /\ Sound(p, D)
            BY <2>1
        <3>2. p \o seqs[i] \in Seq(S)
            BY <3>1, Joined
        <3>3. Sound(p \o seqs[i], D)
            BY <3>1, SoundJoined
        <3> QED
            BY <3>2, <3>3
    <2> HIDE DEF V
    <2>4. FlattenSeq(seqs) \in V
        BY <1>2, <2>1, <2>2, <2>3, FlattenKeeps
    <2> QED
        BY <2>4 DEF V
<1> QED
    BY <1>1, <1>2

\* A single tile: its commands have the depth of its loads.
Unit(g) == IsSequence(g) /\ TaggedBy(g, [i \in 1 .. Len(g) |-> TileDepth(g)])

\* The commands from where a tile begins to where the next one does are a tile.
LEMMA UnitOfTiles ==
    ASSUME NEW words, Tagged(words), NEW lo \in 1 .. Len(words), NEW hi \in Int, hi <= Len(words),
           Begins(words, lo), \A i \in lo + 1 .. hi : ~Begins(words, i),
           hi = Len(words) \/ (hi + 1 \in 1 .. Len(words) /\ Begins(words, hi + 1))
    PROVE  Unit(SubSeq(words, lo, hi))
<1>1. /\ IsSequence(words) /\ Len(words) \in Nat /\ DOMAIN words = 1 .. Len(words)
      /\ \A i \in 1 .. Len(words) : words[i] \in ToSet(words)
    BY ListParts DEF Tagged
<1> DEFINE n == IF lo <= hi THEN (hi - lo) + 1 ELSE 0
           a == lo - 1
           g == SubSeq(words, lo, hi)
<1>13. Len(words) \in Nat
    BY <1>1
<1>10. Len(words) \in Nat /\ lo \in Nat /\ lo >= 1 /\ lo <= Len(words)
    BY <1>13
<1>11. g = [i \in 1 .. n |-> words[(i + lo) - 1]]
    BY <1>10
<1>12. n \in Nat /\ a \in Nat /\ a + 1 = lo
    BY <1>10
<1>2. n \in Nat /\ a \in Nat /\ g = [i \in 1 .. n |-> words[(i + lo) - 1]]
    BY <1>11, <1>12
<1>3. g = [i \in 1 .. n |-> g[i]] /\ \A i \in 1 .. n : g[i] = words[(i + lo) - 1]
    BY <1>2
<1> HIDE DEF g
<1>4. IsSequence(g) /\ Len(g) = n
    BY <1>2, <1>3, ListMade
<1>5. ASSUME NEW i \in 1 .. n PROVE (i + lo) - 1 = a + i /\ a + i \in lo .. hi /\ a + i \in 1 .. Len(words)
    <2>1. lo <= hi /\ n = (hi - lo) + 1
        OBVIOUS
    <2> HIDE DEF n
    <2> QED
        BY <1>10, <2>1
<1>6. \A i \in 1 .. n : g[i] = words[a + i]
    BY <1>3, <1>5
<1>7. CASE n = 0
    <2>1. \A i : i \notin 1 .. Len(g)
        <3> HIDE DEF n
        <3> QED
            BY <1>4, <1>7
    <2> DEFINE tag == [i \in 1 .. Len(g) |-> TileDepth(g)]
    <2> HIDE DEF tag
    <2>2. TaggedBy(g, tag)
        BY <2>1 DEF TaggedBy
    <2>20. TaggedBy(g, [i \in 1 .. Len(g) |-> TileDepth(g)])
        BY <2>2 DEF tag
    <2>21. Unit(g)
        BY <1>4, <2>20 DEF Unit
    <2> QED
        BY <2>21 DEF g
<1>8. CASE n # 0
    <2>1. lo <= hi /\ n = (hi - lo) + 1 /\ a + n = hi /\ a + 1 = lo /\ 1 \in 1 .. n
        BY <1>8
    <2>2. PICK dep : TaggedBy(words, dep)
        BY DEF Tagged
    <2> DEFINE D == dep[lo]
    <2>3. D \in Nat /\ words[lo].op = "OUT" /\ Heads(words, lo, D)
        BY <2>2 DEF TaggedBy
    <2>4. \A i \in lo .. hi : dep[i] = D
        <3> DEFINE S == {i \in lo .. hi : dep[i] # D}
        <3>1. SUFFICES ASSUME S # {} PROVE FALSE
            OBVIOUS
        <3>2. PICK i \in S : \A j \in S : i <= j
            <4>1. lo \in Int /\ hi \in Int /\ S \in SUBSET (lo .. hi)
                OBVIOUS
            <4> HIDE DEF S
            <4> QED
                BY <3>1, <4>1, LeastNumber
        <3>3. i \in lo + 1 .. hi /\ i - 1 \in lo .. hi /\ i - 1 \notin S /\ i \in 1 .. Len(words)
            <4>1. i \in lo .. hi /\ i # lo
                BY <3>2
            <4>2. ~(i <= i - 1)
                BY <4>1
            <4>3. i - 1 \notin S
                <5> HIDE DEF S
                <5> QED
                    BY <3>2, <4>2
            <4> QED
                BY <1>10, <4>1, <4>3
        <3>4. dep[i] = dep[i - 1]
            BY <2>2, <3>3 DEF TaggedBy
        <3> QED
            BY <3>2, <3>3, <3>4
    <2> HIDE DEF D
    <2>5. \A i \in 1 .. n : dep[a + i] = D
        BY <1>5, <2>4
    <2>6. PICK k \in lo + 1 .. Len(words) : (\A j \in lo + 1 .. k : words[j].op \in Loads) /\ Deepest(words[k]) = D
        BY <2>3 DEF Heads
    <2>7. k <= hi
        <3>1. ASSUME hi < k PROVE FALSE
            <4>1. hi + 1 \in lo + 1 .. k /\ hi # Len(words)
                <5> HIDE DEF n, a
                <5> QED
                    BY <1>10, <2>1, <3>1
            <4>2. hi + 1 \in 1 .. Len(words) /\ Begins(words, hi + 1)
                BY <4>1
            <4>3. words[hi + 1].op = "OUT"
                BY <2>2, <4>2 DEF TaggedBy
            <4>4. words[hi + 1].op \in Loads
                BY <2>6, <4>1
            <4> QED
                BY <4>3, <4>4 DEF Loads
        <3> QED
            BY <3>1
    <2> HIDE DEF n, a
    <2> DEFINE k0 == k - a
    <2>8. k0 \in 1 + 1 .. n /\ a + k0 = k /\ k0 \in 1 .. n
        <3>1. k \in Int /\ a \in Int /\ n \in Int /\ k >= lo + 1 /\ k <= hi
            BY <1>10, <1>12, <2>7
        <3> QED
            BY <1>10, <2>1, <3>1
    <2> HIDE DEF k0
    <2>9. \A j \in 1 + 1 .. k0 : j \in 1 .. n /\ a + j \in lo + 1 .. k
        BY <1>10, <1>12, <2>1, <2>8
    <2>10. Heads(g, 1, D)
        <3>1. \A j \in 1 + 1 .. k0 : g[j].op \in Loads
            BY <1>6, <2>6, <2>9
        <3>2. Deepest(g[k0]) = D
            BY <1>6, <2>6, <2>8
        <3> QED
            BY <1>4, <2>8, <3>1, <3>2 DEF Heads
    <2>11. \A i \in 1 .. n : g[i].op \in Loads => LoadWell(g[i]) /\ Deepest(g[i]) <= D /\ Deepest(g[i]) \in Int
        <3>1. \A i \in 1 .. n : g[i].op \in Loads => LoadWell(g[i]) /\ Deepest(g[i]) <= D
            BY <1>5, <1>6, <2>2, <2>5 DEF TaggedBy
        <3> QED
            BY <3>1 DEF LoadWell, Deepest
    <2>12. TileDepth(g) = D
        <3> DEFINE T == {0} \cup {g[i].first + g[i].nreg - 1 : i \in {j \in DOMAIN g : g[j].op \in Loads}}
        <3>1. DOMAIN g = 1 .. n
            BY <1>3
        <3>2. D \in T
            <4>1. k0 \in DOMAIN g /\ g[k0].op \in Loads /\ g[k0].first + g[k0].nreg - 1 = D
                BY <1>6, <2>6, <2>8, <3>1 DEF Deepest
            <4> QED
                BY <4>1
        <3>3. \A x \in T : x \in Int /\ x <= D
            BY <2>3, <2>11, <3>1 DEF Deepest
        <3>4. TileDepth(g) = Max(T)
            BY DEF TileDepth
        <3> HIDE DEF T
        <3>5. \E x \in T : \A y \in T : x >= y
            BY <2>3, <3>2, <3>3
        <3>6. Max(T) \in T /\ \A y \in T : Max(T) >= y
            BY <3>5 DEF Max
        <3>7. Max(T) \in Int /\ Max(T) <= D /\ Max(T) >= D
            BY <3>2, <3>3, <3>6
        <3> QED
            BY <2>3, <3>4, <3>7
    <2>13. ASSUME NEW i \in 1 .. n, g[i].op = "GROUP" PROVE Led(g, i, D)
        <3>1. a + i \in 1 .. Len(words) /\ a + i \in lo .. hi /\ g[i] = words[a + i]
            BY <1>5, <1>6
        <3>2. Led(words, a + i, D)
            BY <2>2, <2>5, <2>13, <3>1 DEF TaggedBy
        <3>3. PICK o \in 1 .. (a + i) - 1 : Leads(words, o, a + i) /\ Pitched(words[o], words[a + i], D)
            BY <3>2 DEF Led
        <3>4. o >= lo
            <4>1. ASSUME o < lo PROVE FALSE
                <5>1. lo # a + i
                    BY <2>3, <2>13, <3>1
                <5>2. lo \in o + 1 .. (a + i) - 1
                    BY <1>2, <3>1, <4>1, <5>1
                <5>3. words[lo].op \in Loads
                    BY <3>3, <5>2 DEF Leads
                <5> QED
                    BY <2>3, <5>3 DEF Loads
            <4> QED
                BY <4>1
        <3> DEFINE p == o - a
        <3>5. p \in 1 .. i - 1 /\ a + p = o /\ p \in 1 .. n
            BY <1>2, <2>1, <3>4 DEF a
        <3> HIDE DEF p
        <3>6. g[p] = words[o]
            BY <1>6, <3>5
        <3>7. ASSUME NEW j \in p + 1 .. i - 1 PROVE g[j].op \in Loads
            <4>1. j \in 1 .. n /\ a + j \in o + 1 .. (a + i) - 1
                BY <1>2, <3>5
            <4> QED
                BY <1>6, <3>3, <4>1 DEF Leads
        <3>8. Leads(g, p, i)
            BY <3>3, <3>6, <3>7 DEF Leads
        <3> QED
            BY <3>1, <3>3, <3>5, <3>6, <3>8 DEF Led
    <2>14. ASSUME NEW i \in 1 .. n, i # 1 PROVE ~Begins(g, i)
        <3>1. ASSUME Begins(g, i) PROVE FALSE
            <4>1. g[i].op = "OUT" /\ i < n /\ g[i + 1].op \in Loads
                BY <1>4, <2>14, <3>1 DEF Begins
            <4>2. i + 1 \in 1 .. n /\ a + (i + 1) = (a + i) + 1
                BY <1>2, <4>1
            <4>3. words[a + i].op = "OUT" /\ words[(a + i) + 1].op \in Loads
                BY <1>6, <4>1, <4>2
            <4>4. a + i \in lo + 1 .. hi /\ a + i < Len(words)
                <5>1. a + i \in lo .. hi /\ a + i # lo
                    BY <1>2, <1>5, <2>1, <2>14
                <5>2. (a + i) + 1 \in 1 .. Len(words)
                    BY <1>5, <4>2
                <5>3. a + i \in Int /\ hi \in Int
                    BY <1>12
                <5> QED
                    BY <1>10, <5>1, <5>2, <5>3
            <4>5. Begins(words, a + i)
                BY <4>3, <4>4 DEF Begins
            <4> QED
                BY <4>4, <4>5
        <3> QED
            BY <3>1
    <2> DEFINE tag == [i \in 1 .. Len(g) |-> TileDepth(g)]
    <2>15. \A i \in 1 .. n : tag[i] = D
        BY <1>4, <2>12
    <2> HIDE DEF tag
    <2>16. ASSUME NEW i \in 1 .. Len(g)
           PROVE  /\ tag[i] \in Nat /\ g[i].op # "TILE"
                  /\ g[i].op \in Loads => LoadWell(g[i]) /\ Deepest(g[i]) <= tag[i]
                  /\ g[i].op = "GROUP" => Led(g, i, tag[i])
                  /\ ~Begins(g, i) => tag[i] = tag[i - 1]
                  /\ Begins(g, i) => g[i].op = "OUT" /\ Heads(g, i, tag[i])
        <3>1. i \in 1 .. n /\ tag[i] = D
            BY <1>4, <2>15
        <3>2. ASSUME ~Begins(g, i) PROVE tag[i] = tag[i - 1]
            <4>1. i - 1 \in 1 .. n
                <5>1. i # 1
                    BY <3>2 DEF Begins
                <5> QED
                    BY <1>2, <3>1, <5>1
            <4> QED
                BY <2>15, <3>1, <4>1
        <3>3. ASSUME Begins(g, i) PROVE g[i].op = "OUT" /\ Heads(g, i, tag[i])
            <4>1. i = 1
                BY <2>14, <3>1, <3>3
            <4>2. g[1] = words[lo]
                BY <1>6, <2>1
            <4> QED
                BY <2>3, <2>10, <3>1, <4>1, <4>2
        <3>4. g[i].op # "TILE"
            BY <1>5, <1>6, <2>2, <3>1 DEF TaggedBy
        <3> QED
            BY <2>3, <2>11, <2>13, <3>1, <3>2, <3>3, <3>4
    <2>17. TaggedBy(g, tag)
        BY <2>16 DEF TaggedBy
    <2>20. TaggedBy(g, [i \in 1 .. Len(g) |-> TileDepth(g)])
        BY <2>17 DEF tag
    <2>21. Unit(g)
        BY <1>4, <2>20 DEF Unit
    <2> QED
        BY <2>21 DEF g
<1> QED
    BY <1>7, <1>8

\* Whoever is greater than a member in order is not less than the one after it.
LEMMA InOrderNext ==
    ASSUME NEW S \in SUBSET Int, IsFiniteSet(S), NEW j \in 1 .. Cardinality(S), NEW y \in S, y > InOrder(S)[j]
    PROVE  j < Cardinality(S) /\ InOrder(S)[j + 1] <= y
<1> DEFINE n == Cardinality(S)
           Below(x) == {z \in S : z < x}
           at == InOrder(S)
<1>1. n \in Nat /\ \A k \in 1 .. n : at[k] \in S /\ Cardinality(Below(at[k])) = k - 1
    BY InOrderRank
<1>2. ASSUME NEW x \in S, NEW z \in S, x < z
      PROVE  Cardinality(Below(x)) + 1 <= Cardinality(Below(z)) /\ Cardinality(Below(z)) \in Nat
    <2>1. IsFiniteSet(Below(x)) /\ IsFiniteSet(Below(z))
        BY FS_Subset
    <2>2. x \in Int /\ z \in Int /\ \A e \in S : e \in Int
        OBVIOUS
    <2>3. x \notin Below(x) /\ x \in Below(z) /\ Below(x) \subseteq Below(z)
        <3>1. \A e \in S : e < x => e < z
            BY <1>2, <2>2
        <3>2. ~(x < x)
            BY <2>2
        <3> QED
            BY <1>2, <3>1, <3>2, Zenon
    <2> HIDE DEF Below
    <2>4. Cardinality(Below(x) \cup {x}) = Cardinality(Below(x)) + 1 /\ IsFiniteSet(Below(x) \cup {x})
        BY <2>1, <2>3, FS_AddElement
    <2>5. Below(x) \cup {x} \subseteq Below(z)
        BY <2>3
    <2>6. Cardinality(Below(x) \cup {x}) <= Cardinality(Below(z)) /\ Cardinality(Below(z)) \in Nat
        BY <2>1, <2>5, FS_Subset, FS_CardinalityType
    <2> QED
        BY <2>4, <2>6
<1>3. Cardinality(Below(y)) <= n - 1 /\ Cardinality(Below(y)) \in Nat
    <2>1. IsFiniteSet(S \ {y}) /\ Cardinality(S \ {y}) = n - 1
        BY FS_RemoveElement
    <2>2. Below(y) \subseteq S \ {y}
        OBVIOUS
    <2> HIDE DEF Below, n
    <2> QED
        BY <2>1, <2>2, FS_Subset, FS_CardinalityType
<1>4. at[j] \in S /\ at[j] < y /\ at[j] \in Int /\ y \in Int
    BY <1>1
<1>5. (j - 1) + 1 <= Cardinality(Below(y))
    <2>1. Cardinality(Below(at[j])) = j - 1
        BY <1>1
    <2> HIDE DEF Below, at
    <2> QED
        BY <1>2, <1>4, <2>1
<1> HIDE DEF Below, at, n
<1>6. j < n /\ j + 1 \in 1 .. n
    BY <1>1, <1>3, <1>5 DEF n
<1>7. ASSUME y < at[j + 1] PROVE FALSE
    <2>1. at[j + 1] \in S /\ Cardinality(Below(at[j + 1])) = (j + 1) - 1
        BY <1>1, <1>6
    <2>2. Cardinality(Below(y)) + 1 <= Cardinality(Below(at[j + 1]))
        BY <1>2, <1>7, <2>1
    <2> QED
        BY <1>3, <1>5, <2>1, <2>2
<1>8. at[j + 1] \in Int
    BY <1>1, <1>6
<1>9. at[j + 1] <= y
    BY <1>4, <1>7, <1>8
<1> QED
    BY <1>6, <1>9 DEF at, n

\* chain_groups cuts tiles that follow each other into single tiles.
LEMMA TilesOfTagged ==
    ASSUME NEW words, Tagged(words)
    PROVE  \E n \in Nat : /\ ChainGroups(words) = [j \in 1 .. n |-> ChainGroups(words)[j]]
                          /\ \A j \in 1 .. n : Unit(ChainGroups(words)[j])
<1> DEFINE S == {i \in DOMAIN words :
                    i = 1 \/ (words[i].op = "OUT" /\ i < Len(words) /\ words[i + 1].op \in Loads)}
           starts == InOrder(S)
           n == Len(starts)
           last(j) == IF j = Len(starts) THEN Len(words) ELSE starts[j + 1] - 1
           group(j) == SubSeq(words, starts[j], last(j))
           groups == ChainGroups(words)
<1>1. Len(words) \in Nat /\ DOMAIN words = 1 .. Len(words)
    BY ListParts DEF Tagged
<1>2. S \in SUBSET (1 .. Len(words)) /\ S \in SUBSET Int /\ IsFiniteSet(S)
    <2>1. S \in SUBSET (1 .. Len(words))
        BY <1>1
    <2> HIDE DEF S
    <2>2. IsFiniteSet(1 .. Len(words))
        BY <1>1, FS_Interval
    <2>3. IsFiniteSet(S)
        BY <2>1, <2>2, FS_Subset
    <2>4. S \in SUBSET Int
        BY <1>1, <2>1
    <2> QED
        BY <2>1, <2>3, <2>4
<1>3. groups = [j \in DOMAIN starts |-> group(j)]
    BY DEF ChainGroups
<1>4. \A i \in 1 .. Len(words) : i \in S <=> Begins(words, i)
    BY <1>1 DEF Begins
<1> HIDE DEF S
<1>5. starts \in Seq(S) /\ n = Cardinality(S)
    BY <1>2, InOrderIn
<1>6. ASSUME NEW j \in 1 .. n, NEW y \in S, y > starts[j] PROVE j < n /\ starts[j + 1] <= y
    <2>1. j \in 1 .. Cardinality(S)
        BY <1>5
    <2>2. j < Cardinality(S) /\ InOrder(S)[j + 1] <= y
        BY <1>2, <1>6, <2>1, InOrderNext
    <2> QED
        BY <1>5, <2>2
<1> HIDE DEF starts
<1>7. n \in Nat /\ DOMAIN starts = 1 .. n /\ \A j \in 1 .. n : starts[j] \in S
    BY <1>5, SeqShape
<1> HIDE DEF n
<1>8. ASSUME NEW j \in 1 .. n PROVE Unit(group(j))
    <2> DEFINE lo == starts[j]
               hi == last(j)
    <2>1. lo \in 1 .. Len(words) /\ Begins(words, lo)
        BY <1>2, <1>4, <1>7
    <2>2. CASE j = n
        <3>1. hi = Len(words)
            BY <2>2 DEF n
        <3>2. ASSUME NEW i \in lo + 1 .. hi PROVE ~Begins(words, i)
            <4>1. i \in 1 .. Len(words) /\ i > lo
                BY <1>1, <2>1, <3>1
            <4>2. i \notin S
                BY <1>6, <2>2, <4>1
            <4> QED
                BY <1>4, <4>1, <4>2
        <3> HIDE DEF lo, hi
        <3>3. hi \in Int /\ hi <= Len(words)
            BY <1>1, <3>1
        <3>4. Unit(SubSeq(words, lo, hi))
            BY <2>1, <3>1, <3>2, <3>3, UnitOfTiles
        <3> QED
            BY <3>4 DEF lo, hi
    <2>3. CASE j # n
        <3>1. j + 1 \in 1 .. n
            BY <1>7, <2>3
        <3>2. starts[j + 1] \in 1 .. Len(words) /\ Begins(words, starts[j + 1])
            BY <1>2, <1>4, <1>7, <3>1
        <3>3. hi = starts[j + 1] - 1
            BY <2>3 DEF n
        <3>4. hi \in Int /\ hi <= Len(words) /\ hi + 1 = starts[j + 1]
            BY <1>1, <3>2, <3>3
        <3>5. ASSUME NEW i \in lo + 1 .. hi PROVE ~Begins(words, i)
            <4> HIDE DEF hi
            <4>1. i \in 1 .. Len(words) /\ i > lo /\ i < starts[j + 1] /\ i \in Int
                BY <1>1, <2>1, <3>2, <3>4
            <4>2. i \notin S
                <5>1. ASSUME i \in S PROVE FALSE
                    <6>1. starts[j + 1] <= i
                        BY <1>6, <4>1, <5>1
                    <6> QED
                        BY <3>2, <4>1, <6>1
                <5> QED
                    BY <5>1
            <4> QED
                BY <1>4, <4>1, <4>2
        <3> HIDE DEF lo, hi
        <3>6. Unit(SubSeq(words, lo, hi))
            BY <2>1, <3>2, <3>4, <3>5, UnitOfTiles
        <3> QED
            BY <3>6 DEF lo, hi
    <2> QED
        BY <2>2, <2>3
<1> HIDE DEF group, groups
<1>9. groups = [j \in 1 .. n |-> groups[j]] /\ \A j \in 1 .. n : groups[j] = group(j)
    BY <1>3, <1>7
<1>10. groups = [j \in 1 .. n |-> groups[j]] /\ \A j \in 1 .. n : Unit(groups[j])
    BY <1>8, <1>9
<1> QED
    BY <1>7, <1>10 DEF groups

\* Other addresses and other rows make no other tile.
LEMMA TaggedAlike ==
    ASSUME NEW g, NEW q, NEW dep, TaggedBy(g, dep), Len(q) = Len(g), Len(g) \in Nat,
           \A i \in 1 .. Len(g) : /\ q[i].op = g[i].op /\ (g[i].op \in Loads => q[i] = g[i]),
           \A o \in 1 .. Len(g) : \A i \in 1 .. Len(g) :
                g[o].op = "OUT" /\ g[i].op = "GROUP" /\ Pitched(g[o], g[i], dep[i]) => Pitched(q[o], q[i], dep[i])
    PROVE  TaggedBy(q, dep)
<1>1. SUFFICES ASSUME NEW i \in 1 .. Len(q)
               PROVE  /\ dep[i] \in Nat
                      /\ q[i].op \in Loads => LoadWell(q[i]) /\ Deepest(q[i]) <= dep[i]
                      /\ q[i].op = "GROUP" => Led(q, i, dep[i])
                      /\ ~Begins(q, i) => dep[i] = dep[i - 1]
                      /\ Begins(q, i) => q[i].op = "OUT" /\ Heads(q, i, dep[i])
    BY DEF TaggedBy
<1>2. i \in 1 .. Len(g) /\ q[i].op = g[i].op
    OBVIOUS
<1>3. dep[i] \in Nat /\ (q[i].op \in Loads => LoadWell(q[i]) /\ Deepest(q[i]) <= dep[i])
    BY <1>2 DEF TaggedBy
<1>4. ASSUME q[i].op = "GROUP" PROVE Led(q, i, dep[i])
    <2>1. g[i].op = "GROUP" /\ Led(g, i, dep[i])
        BY <1>2, <1>4 DEF TaggedBy
    <2>2. PICK o \in 1 .. i - 1 : Leads(g, o, i) /\ Pitched(g[o], g[i], dep[i])
        BY <2>1 DEF Led
    <2>3. o \in 1 .. Len(g) /\ g[o].op = "OUT"
        BY <1>2, <2>2 DEF Leads
    <2>4. q[o].op = "OUT"
        BY <2>3
    <2>5. Pitched(q[o], q[i], dep[i])
        BY <1>2, <2>1, <2>2, <2>3
    <2>6. ASSUME NEW k \in o + 1 .. i - 1 PROVE q[k].op \in Loads
        <3>1. k \in 1 .. Len(g)
            BY <1>2, <2>3
        <3>2. g[k].op \in Loads
            BY <2>2 DEF Leads
        <3> QED
            BY <3>1, <3>2
    <2>7. Leads(q, o, i)
        BY <2>4, <2>6 DEF Leads
    <2> QED
        BY <2>5, <2>7 DEF Led
<1>5. Begins(q, i) <=> Begins(g, i)
    <2>1. CASE i = 1
        BY <2>1 DEF Begins
    <2>2. CASE i # 1 /\ i < Len(g)
        <3>1. i + 1 \in 1 .. Len(g)
            BY <2>2
        <3>2. q[i + 1].op = g[i + 1].op
            BY <3>1
        <3> QED
            BY <1>2, <2>2, <3>2 DEF Begins
    <2>3. CASE i # 1 /\ ~(i < Len(g))
        BY <2>3 DEF Begins
    <2> QED
        BY <2>1, <2>2, <2>3
<1>6. ~Begins(q, i) => dep[i] = dep[i - 1]
    BY <1>2, <1>5 DEF TaggedBy
<1>7. ASSUME Begins(q, i) PROVE q[i].op = "OUT" /\ Heads(q, i, dep[i])
    <2>1. g[i].op = "OUT" /\ Heads(g, i, dep[i])
        BY <1>2, <1>5, <1>7 DEF TaggedBy
    <2>2. PICK k \in i + 1 .. Len(g) : (\A j \in i + 1 .. k : g[j].op \in Loads) /\ Deepest(g[k]) = dep[i]
        BY <2>1 DEF Heads
    <2>3. \A j \in i + 1 .. k : j \in 1 .. Len(g)
        BY <1>2
    <2>4. \A j \in i + 1 .. k : q[j] = g[j] /\ q[j].op \in Loads
        BY <2>2, <2>3
    <2>5. k \in i + 1 .. k /\ k \in i + 1 .. Len(q)
        BY <1>2
    <2>6. Deepest(q[k]) = dep[i]
        BY <2>2, <2>4, <2>5
    <2> QED
        BY <1>2, <2>1, <2>4, <2>5, <2>6 DEF Heads
<1> QED
    BY <1>3, <1>4, <1>6, <1>7

\* Some rows of a tile are a tile.
LEMMA SlicedUnit ==
    ASSUME NEW g, Unit(g), NEW r0 \in Nat, NEW rows \in Nat \ {0}
    PROVE  Tagged([i \in DOMAIN g |-> SliceCmd(g, g[i], r0, rows)])
<1> DEFINE q == [i \in DOMAIN g |-> SliceCmd(g, g[i], r0, rows)]
           n == Len(g)
           tag == [i \in 1 .. Len(g) |-> TileDepth(g)]
<1>1. IsSequence(g) /\ n \in Nat /\ DOMAIN g = 1 .. n /\ TaggedBy(g, tag)
    BY ListParts DEF Unit
<1>2. q = [i \in 1 .. n |-> q[i]] /\ \A i \in 1 .. n : q[i] = SliceCmd(g, g[i], r0, rows)
    BY <1>1
<1>3. \A i \in 1 .. n : tag[i] = TileDepth(g)
    OBVIOUS
<1> HIDE DEF q, tag, n
<1>4. IsSequence(q) /\ Len(q) = n
    BY <1>1, <1>2, ListMade
<1>5. ASSUME NEW i \in 1 .. n
      PROVE  q[i].op = g[i].op /\ (g[i].op \in Loads => q[i] = g[i])
    <2> DEFINE c == g[i]
    <2> HIDE DEF c
    <2>4. q[i] = SliceCmd(g, c, r0, rows)
        BY <1>2 DEF c
    <2>1. CASE g[i].op = "OUT"
        <3>1. SliceCmd(g, c, r0, rows) = [c EXCEPT !.base = @ + r0 * RowOut(g, c)]
            BY <2>1 DEF SliceCmd, c
        <3>2. SliceCmd(g, c, r0, rows).op = "OUT"
            BY <2>1, <3>1 DEF c
        <3> QED
            BY <2>1, <2>4, <3>2 DEF Loads
    <2>2. CASE g[i].op = "GROUP"
        <3>2. Led(g, i, tag[i])
            BY <1>1, <2>2 DEF TaggedBy, n
        <3>3. c.op = "GROUP" /\ Fits(c)
            BY <2>2, <3>2 DEF Led, Pitched, c
        <3>4. c \in GroupCommands
            BY <3>3 DEF Fits
        <3>1. SliceCmd(g, c, r0, rows).op = "GROUP"
            BY <3>3, <3>4 DEF SliceCmd, GroupCommands
        <3> QED
            BY <2>2, <2>4, <3>1 DEF Loads
    <2>3. CASE g[i].op \notin {"OUT", "GROUP"}
        BY <1>2, <2>3 DEF SliceCmd
    <2> QED
        BY <2>1, <2>2, <2>3
<1>6. ASSUME NEW o \in 1 .. n, NEW i \in 1 .. n, g[o].op = "OUT", g[i].op = "GROUP", Pitched(g[o], g[i], tag[i])
      PROVE  Pitched(q[o], q[i], tag[i])
    <2> DEFINE w == g[o]
               c == g[i]
               row == RowOut(g, w)
    <2>1. /\ w = Out(w.base, w.blk, w.gap) /\ w.base \in Int /\ w.blk \in Nat /\ w.gap \in Int /\ Fits(c)
          /\ tag[i] % Cells = 0 /\ w.blk # 0 => w.blk * Cells = tag[i] * c.P /\ w.blk * Cells + w.gap >= 0
        BY <1>6 DEF Pitched
    <2>2. TileDepth(g) \in Nat
        BY <1>1, <1>3, <1>6 DEF TaggedBy, n
    <2>3. row \in Int
        <3> DEFINE at == CHOOSE k \in DOMAIN g : g[k].op = "GROUP"
        <3>1. at \in 1 .. n /\ g[at].op = "GROUP"
            BY <1>1, <1>6
        <3> HIDE DEF at
        <3>2. Led(g, at, tag[at])
            BY <1>1, <3>1 DEF TaggedBy, n
        <3>3. Fits(g[at])
            BY <3>2 DEF Led, Pitched
        <3>4. g[at].P \in Nat
            BY <3>1, <3>3 DEF Fits, GroupCommands
        <3>5. row = IF w.blk # 0 THEN w.blk * Cells + w.gap ELSE TileDepth(g) * g[at].P
            BY DEF RowOut, at
        <3>6. Cells \in Nat
            BY CaseAssumption
        <3> HIDE DEF w, row
        <3> QED
            BY <2>1, <2>2, <3>4, <3>5, <3>6
    <2>4. q[o] = SliceCmd(g, w, r0, rows) /\ q[i] = SliceCmd(g, c, r0, rows) /\ w.op = "OUT" /\ c.op = "GROUP"
        BY <1>2, <1>6
    <2> HIDE DEF w, c
    <2>5. q[o] = Out(w.base + r0 * row, w.blk, w.gap)
        BY <2>1, <2>4 DEF SliceCmd, Out
    <2>6. Fits(q[i])
        BY <2>1, <2>4, SlicedGroupsFit
    <2>7. q[i].P = c.P
        <3>1. c \in GroupCommands
            BY <2>1, <2>4 DEF Fits
        <3> QED
            BY <2>4, <3>1 DEF SliceCmd, GroupCommands
    <2> DEFINE b == w.base + r0 * row
    <2>8. b \in Int
        <3> HIDE DEF row
        <3> QED
            BY <2>1, <2>3
    <2> HIDE DEF b
    <2>9. q[o] = Out(b, w.blk, w.gap)
        BY <2>5 DEF b
    <2>10. q[o].base = b /\ q[o].blk = w.blk /\ q[o].gap = w.gap
        BY <2>9 DEF Out
    <2> QED
        BY <2>1, <2>6, <2>7, <2>8, <2>9, <2>10 DEF Pitched
<1>7. TaggedBy(q, tag)
    <2>1. \A i \in 1 .. n : q[i].op = g[i].op /\ (g[i].op \in Loads => q[i] = g[i])
        BY <1>5
    <2> QED
        BY <1>1, <1>4, <1>6, <2>1, TaggedAlike DEF n
<1>8. Tagged(q)
    BY <1>4, <1>7 DEF Tagged
<1> QED
    BY <1>8 DEF q

\* chain_slice_rows: some rows of every tile of a list are tiles.
LEMMA SlicedTagged ==
    ASSUME NEW words, Tagged(words), NEW r0 \in Nat, NEW rows \in Nat \ {0}
    PROVE  Tagged(ChainSliceRows(words, r0, rows))
<1> DEFINE groups == ChainGroups(words)
           cut(g) == [i \in DOMAIN g |-> SliceCmd(g, g[i], r0, rows)]
           seqs == [k \in DOMAIN groups |-> cut(groups[k])]
<1>1. PICK n \in Nat : groups = [j \in 1 .. n |-> groups[j]] /\ \A j \in 1 .. n : Unit(groups[j])
    BY TilesOfTagged
<1>2. ChainSliceRows(words, r0, rows) = FlattenSeq(seqs)
    BY DEF ChainSliceRows
<1>3. ASSUME NEW g, Unit(g) PROVE Tagged(cut(g))
    BY <1>3, SlicedUnit
<1> HIDE DEF cut, groups
<1>4. DOMAIN groups = 1 .. n
    BY <1>1, ListMade
<1>5. seqs = [k \in 1 .. n |-> seqs[k]] /\ \A k \in 1 .. n : Tagged(seqs[k])
    BY <1>1, <1>3, <1>4
<1> HIDE DEF seqs
<1> QED
    BY <1>2, <1>5, TaggedFlat

\* The row blocks of a list of tiles.
LEMMA BlocksTagged ==
    ASSUME NEW c \in Case, NEW words, Tagged(words)
    PROVE  \E n \in Nat : /\ RowBlocks(words, c) = [k \in 1 .. n |-> RowBlocks(words, c)[k]]
                          /\ \A k \in 1 .. n : Tagged(RowBlocks(words, c)[k])
<1> DEFINE blocks == RowBlocks(words, c)
<1>1. CASE c.cuts = <<>> \/ ~Sliceable(words, c.T)
    <2>1. blocks = <<words>>
        BY <1>1 DEF RowBlocks
    <2> HIDE DEF blocks
    <2>2. blocks = [k \in 1 .. 1 |-> blocks[k]] /\ \A k \in 1 .. 1 : blocks[k] = words
        BY <2>1
    <2>3. 1 \in Nat
        OBVIOUS
    <2> QED
        BY <2>2, <2>3 DEF blocks
<1>2. CASE ~(c.cuts = <<>> \/ ~Sliceable(words, c.T))
    <2> DEFINE n == Len(c.cuts) - 1
               part(k) == ChainSliceRows(words, c.cuts[k], c.cuts[k + 1] - c.cuts[k])
    <2>1. blocks = [k \in 1 .. n |-> part(k)]
        BY <1>2 DEF RowBlocks
    <2>2. /\ c.cuts \in Seq(Nat) /\ c.cuts # <<>> /\ \A k \in 1 .. Len(c.cuts) - 1 : c.cuts[k] < c.cuts[k + 1]
        BY <1>2, CaseAssumption DEF CaseType
    <2>3. Len(c.cuts) \in Nat /\ Len(c.cuts) # 0 /\ \A k \in 1 .. Len(c.cuts) : c.cuts[k] \in Nat
        <3>1. Len(c.cuts) \in Nat /\ \A k \in 1 .. Len(c.cuts) : c.cuts[k] \in Nat
            BY <2>2, SeqShape
        <3>2. Len(c.cuts) # 0
            BY <2>2
        <3> QED
            BY <3>1, <3>2
    <2>4. ASSUME NEW k \in 1 .. n PROVE Tagged(part(k))
        <3>1. k \in 1 .. Len(c.cuts) /\ k + 1 \in 1 .. Len(c.cuts)
            BY <2>3
        <3>2. c.cuts[k] \in Nat /\ c.cuts[k + 1] \in Nat /\ c.cuts[k] < c.cuts[k + 1]
            BY <2>2, <2>3, <3>1
        <3>3. c.cuts[k + 1] - c.cuts[k] \in Nat \ {0}
            BY <3>2
        <3> QED
            BY <3>2, <3>3, SlicedTagged
    <2> HIDE DEF blocks, part
    <2>5. blocks = [k \in 1 .. n |-> blocks[k]] /\ \A k \in 1 .. n : Tagged(blocks[k])
        BY <2>1, <2>4
    <2>6. n \in Nat
        BY <2>3
    <2> QED
        BY <2>5, <2>6 DEF blocks
<1> QED
    BY <1>1, <1>2

\* A tile is a part of a node of its depth.
LEMMA UnitSound ==
    ASSUME NEW g, Unit(g), NEW D, TileDepth(g) = D
    PROVE  Sound(g, D)
<1> DEFINE tag == [i \in 1 .. Len(g) |-> TileDepth(g)]
<1>1. IsSequence(g) /\ Len(g) \in Nat /\ TaggedBy(g, tag)
    BY ListParts DEF Unit
<1>2. \A i \in 1 .. Len(g) : tag[i] = D
    OBVIOUS
<1> HIDE DEF tag
<1>3. ASSUME NEW i \in 1 .. Len(g)
      PROVE  /\ g[i].op # "TILE"
             /\ g[i].op \in Loads => LoadWell(g[i]) /\ Deepest(g[i]) <= D
             /\ g[i].op = "GROUP" => Led(g, i, D)
             /\ g[i].op = "GROUP" => \E k \in 1 .. Len(g) : g[k].op \in Loads /\ Deepest(g[k]) = D
    <2>1. g[i].op # "TILE" /\ (g[i].op \in Loads => LoadWell(g[i]) /\ Deepest(g[i]) <= D) /\ (g[i].op = "GROUP" => Led(g, i, D))
        BY <1>1, <1>2 DEF TaggedBy
    <2>2. 1 \in 1 .. Len(g) /\ Begins(g, 1)
        BY <1>1 DEF Begins
    <2>3. Heads(g, 1, D)
        BY <1>1, <1>2, <2>2 DEF TaggedBy
    <2>4. PICK k \in 1 + 1 .. Len(g) : (\A j \in 1 + 1 .. k : g[j].op \in Loads) /\ Deepest(g[k]) = D
        BY <2>3 DEF Heads
    <2>5. k \in 1 + 1 .. k /\ k \in 1 .. Len(g)
        OBVIOUS
    <2> QED
        BY <2>1, <2>4, <2>5
<1> QED
    BY <1>1, <1>3 DEF Sound

\* split_chain: what a node gets of a list of tiles is a part of its depth.
LEMMA SplitSound ==
    ASSUME NEW words, Tagged(words), NEW depths, NEW n \in DOMAIN depths
    PROVE  Sound(SplitChain(words, depths)[n], depths[n])
<1> DEFINE groups == ChainGroups(words)
           S(d) == {k \in DOMAIN groups : TileDepth(groups[k]) = d}
           at(d) == InOrder(S(d))
           mine(d) == [i \in DOMAIN at(d) |-> groups[at(d)[i]]]
           same(k) == {j \in DOMAIN depths : depths[j] = depths[k]}
           bins == [d \in ToSet(depths) |-> Lpt(mine(d), Cardinality({k \in DOMAIN depths : depths[k] = d}))]
           index(k) == Cardinality({j \in same(k) : j <= k})
           seqs(k) == [i \in DOMAIN mine(depths[k]) |-> IF bins[depths[k]][i] = index(k) THEN mine(depths[k])[i] ELSE <<>>]
<1>1. SplitChain(words, depths) = [k \in DOMAIN depths |-> FlattenSeq(seqs(k))]
    BY DEF SplitChain
<1> HIDE DEF bins, index
<1>2. PICK m \in Nat : groups = [j \in 1 .. m |-> groups[j]] /\ \A j \in 1 .. m : Unit(groups[j])
    BY TilesOfTagged
<1> HIDE DEF groups
<1>3. DOMAIN groups = 1 .. m
    BY <1>2, ListMade
<1> DEFINE d == depths[n]
           q == mine(d)
           a == at(d)
<1>4. /\ S(d) \in SUBSET (1 .. m) /\ S(d) \in SUBSET Int /\ IsFiniteSet(S(d))
      /\ \A k \in S(d) : Sound(groups[k], d)
    <2> DEFINE s == S(d)
    <2>1. s \in SUBSET (1 .. m)
        BY <1>3
    <2>5. \A k \in s : TileDepth(groups[k]) = d
        OBVIOUS
    <2> HIDE DEF s
    <2>2. IsFiniteSet(1 .. m)
        BY <1>2, FS_Interval
    <2>3. IsFiniteSet(s)
        BY <2>1, <2>2, FS_Subset
    <2>4. s \in SUBSET Int
        BY <1>2, <2>1
    <2>6. \A k \in s : Sound(groups[k], d)
        BY <1>2, <2>1, <2>5, UnitSound
    <2> QED
        BY <2>1, <2>3, <2>4, <2>6 DEF s
<1>5. a \in Seq(S(d))
    <2> HIDE DEF S
    <2> QED
        BY <1>4, InOrderIn
<1>6. q = [i \in DOMAIN a |-> groups[a[i]]]
    BY DEF a, q
<1> HIDE DEF a, S
<1> DEFINE len == Len(a)
<1>7. len \in Nat /\ DOMAIN a = 1 .. len /\ \A i \in 1 .. len : a[i] \in S(d)
    BY <1>5, SeqShape
<1> HIDE DEF len
<1>8. DOMAIN q = 1 .. len /\ \A i \in 1 .. len : Sound(q[i], d)
    <2> HIDE DEF q
    <2> QED
        BY <1>4, <1>6, <1>7
<1> DEFINE s == seqs(n)
<1>9. s = [i \in DOMAIN q |-> IF bins[d][i] = index(n) THEN q[i] ELSE <<>>]
    BY DEF s, q, d
<1> HIDE DEF q, s
<1>10. s = [i \in 1 .. len |-> s[i]] /\ \A i \in 1 .. len : s[i] = IF bins[d][i] = index(n) THEN q[i] ELSE <<>>
    BY <1>8, <1>9
<1>11. \A i \in 1 .. len : Sound(s[i], d)
    BY <1>8, <1>10, NothingSound
<1> HIDE DEF d
<1>12. Sound(FlattenSeq(s), d)
    BY <1>7, <1>10, <1>11, SoundFlat
<1> QED
    BY <1>1, <1>12 DEF s, d

\* The commands of a tile of depth D.
TileOf(w, D) ==
    /\ IsSequence(w) /\ Len(w) # 0 /\ w[1].op = "OUT" /\ Heads(w, 1, D)
    /\ \A i \in 1 .. Len(w) :
        /\ w[i].op # "TILE"
        /\ w[i].op \in Loads => LoadWell(w[i]) /\ Deepest(w[i]) <= D
        /\ w[i].op = "GROUP" => Led(w, i, D)
        /\ i # 1 => ~Begins(w, i)

\* The loads of a tile of depth D.
LoadsOf(load, D) ==
    /\ IsSequence(load)
    /\ \A j \in 1 .. Len(load) : load[j].op \in Loads /\ LoadWell(load[j]) /\ Deepest(load[j]) <= D
    /\ \E j \in 1 .. Len(load) : Deepest(load[j]) = D

\* They are a list of tiles, this one.
LEMMA TileIsTagged ==
    ASSUME NEW w, NEW D \in Nat, TileOf(w, D)
    PROVE  Tagged(w)
<1> DEFINE tag == [i \in 1 .. Len(w) |-> D]
<1>1. \A i \in 1 .. Len(w) : tag[i] = D
    OBVIOUS
<1> HIDE DEF tag
<1>2. ASSUME NEW i \in 1 .. Len(w)
      PROVE  /\ tag[i] \in Nat /\ w[i].op # "TILE"
             /\ w[i].op \in Loads => LoadWell(w[i]) /\ Deepest(w[i]) <= tag[i]
             /\ w[i].op = "GROUP" => Led(w, i, tag[i])
             /\ ~Begins(w, i) => tag[i] = tag[i - 1]
             /\ Begins(w, i) => w[i].op = "OUT" /\ Heads(w, i, tag[i])
    <2>1. tag[i] = D
        BY <1>1
    <2>2. ASSUME ~Begins(w, i) PROVE tag[i] = tag[i - 1]
        <3>1. i # 1
            BY <2>2 DEF Begins
        <3>2. Len(w) \in Nat
            BY ListParts DEF TileOf
        <3>3. i - 1 \in 1 .. Len(w)
            BY <3>1, <3>2
        <3> QED
            BY <1>1, <3>3
    <2>3. ASSUME Begins(w, i) PROVE w[i].op = "OUT" /\ Heads(w, i, D)
        BY <2>3 DEF TileOf
    <2>4. /\ w[i].op # "TILE"
          /\ w[i].op \in Loads => LoadWell(w[i]) /\ Deepest(w[i]) <= D
          /\ w[i].op = "GROUP" => Led(w, i, D)
        BY DEF TileOf
    <2> QED
        BY <2>1, <2>2, <2>3, <2>4
<1>3. TaggedBy(w, tag)
    BY <1>2 DEF TaggedBy
<1> QED
    BY <1>3 DEF Tagged, TileOf

\* One row slice of a tile, command by command.
RowSlice(o, load, g) == (<<o>> \o load) \o <<g, Flush>>

\* Where they are in the slice.
LEMMA SliceAt ==
    ASSUME NEW o, NEW load, IsSequence(load), NEW g, NEW q, q = RowSlice(o, load, g)
    PROVE  /\ IsSequence(q) /\ Len(load) \in Nat /\ Len(q) = Len(load) + 3
           /\ q[1] = o /\ q[Len(load) + 2] = g /\ q[Len(load) + 3] = Flush
           /\ \A j \in 1 .. Len(load) : q[1 + j] = load[j]
<1> DEFINE p == <<o>>
           e == <<g, Flush>>
           r == p \o load
           l == Len(load)
<1>1. IsSequence(p) /\ Len(p) = 1 /\ p[1] = o
    <2>1. p \in Seq({o}) /\ Len(p) = 1 /\ p[1] = o
        OBVIOUS
    <2> HIDE DEF p
    <2> QED
        BY <2>1, ListOver
<1>2. IsSequence(e) /\ Len(e) = 2 /\ e[1] = g /\ e[2] = Flush
    <2>1. e \in Seq({g, Flush}) /\ Len(e) = 2 /\ e[1] = g /\ e[2] = Flush
        OBVIOUS
    <2> HIDE DEF e
    <2> QED
        BY <2>1, ListOver
<1>3. l \in Nat
    BY ListParts
<1> HIDE DEF p, e
<1>4. /\ IsSequence(r) /\ Len(r) = 1 + l
      /\ \A i \in 1 .. 1 : r[i] = p[i]
      /\ \A j \in 1 .. l : r[1 + j] = load[j]
    <2>1. /\ IsSequence(p \o load) /\ Len(p \o load) = Len(p) + Len(load)
          /\ \A i \in 1 .. Len(p) : (p \o load)[i] = p[i]
          /\ \A j \in 1 .. Len(load) : (p \o load)[Len(p) + j] = load[j]
        <3>1. IsSequence(p) /\ IsSequence(load)
            BY <1>1
        <3> QED
            BY ONLY <3>1, JoinAt
    <2> QED
        BY <1>1, <2>1
<1>13. q = r \o e
    BY DEF p, e, RowSlice
<1> HIDE DEF r, l
<1>5. /\ IsSequence(q) /\ Len(q) = (1 + l) + 2
      /\ \A i \in 1 .. 1 + l : q[i] = r[i]
      /\ \A j \in 1 .. 2 : q[(1 + l) + j] = e[j]
    <2>1. /\ IsSequence(r \o e) /\ Len(r \o e) = Len(r) + Len(e)
          /\ \A i \in 1 .. Len(r) : (r \o e)[i] = r[i]
          /\ \A j \in 1 .. Len(e) : (r \o e)[Len(r) + j] = e[j]
        <3>1. IsSequence(r) /\ IsSequence(e)
            BY <1>2, <1>4
        <3> QED
            BY ONLY <3>1, JoinAt
    <2> QED
        BY <1>2, <1>4, <1>13, <2>1
<1>6. Len(q) = l + 3 /\ 1 \in 1 .. 1 /\ 1 \in 1 .. 1 + l /\ \A j \in 1 .. l : 1 + j \in 1 .. 1 + l
    BY <1>3, <1>5
<1>7. q[1] = o
    BY <1>1, <1>4, <1>5, <1>6
<1>8. \A j \in 1 .. l : q[1 + j] = load[j]
    BY <1>4, <1>5, <1>6
<1>9. (1 + l) + 1 = l + 2 /\ (1 + l) + 2 = l + 3 /\ 1 \in 1 .. 2 /\ 2 \in 1 .. 2
    BY <1>3
<1>10. q[l + 2] = g /\ q[l + 3] = Flush
    BY <1>2, <1>5, <1>9
<1> QED
    BY <1>3, <1>5, <1>6, <1>7, <1>8, <1>10 DEF l

\* A tile begins with its first row slice.
LEMMA TileStarts ==
    ASSUME NEW D, NEW o, o.op = "OUT", NEW load, LoadsOf(load, D), NEW g, g.op = "GROUP", Pitched(o, g, D)
    PROVE  TileOf(RowSlice(o, load, g), D)
<1> DEFINE w == RowSlice(o, load, g)
           l == Len(load)
<1>12. w = RowSlice(o, load, g) /\ IsSequence(load)
    BY DEF LoadsOf
<1> HIDE DEF w
<1>1. /\ IsSequence(w) /\ l \in Nat /\ Len(w) = l + 3 /\ w[1] = o /\ w[l + 2] = g /\ w[l + 3] = Flush
      /\ \A j \in 1 .. l : w[1 + j] = load[j]
    <2>1. /\ IsSequence(w) /\ Len(load) \in Nat /\ Len(w) = Len(load) + 3
          /\ w[1] = o /\ w[Len(load) + 2] = g /\ w[Len(load) + 3] = Flush
          /\ \A j \in 1 .. Len(load) : w[1 + j] = load[j]
        BY <1>12, SliceAt
    <2> QED
        BY <2>1
<1>2. \A j \in 1 .. l : load[j].op \in Loads /\ LoadWell(load[j]) /\ Deepest(load[j]) <= D
    BY DEF LoadsOf
<1>3. PICK m \in 1 .. l : Deepest(load[m]) = D
    BY DEF LoadsOf
<1> HIDE DEF l
<1>4. \A k \in 2 .. l + 1 : k - 1 \in 1 .. l /\ 1 + (k - 1) = k
    BY <1>1
<1>5. \A k \in 2 .. l + 1 : w[k].op \in Loads /\ LoadWell(w[k]) /\ Deepest(w[k]) <= D
    BY <1>1, <1>2, <1>4
<1>6. Heads(w, 1, D)
    <2>1. 1 + m \in 1 + 1 .. Len(w) /\ \A j \in 1 + 1 .. 1 + m : j \in 2 .. l + 1
        BY <1>1
    <2>2. Deepest(w[1 + m]) = D
        BY <1>1, <1>3
    <2> QED
        BY <1>5, <2>1, <2>2 DEF Heads
<1>7. Led(w, l + 2, D)
    <2>1. 1 \in 1 .. (l + 2) - 1 /\ \A k \in 1 + 1 .. (l + 2) - 1 : k \in 2 .. l + 1
        BY <1>1
    <2>2. Leads(w, 1, l + 2)
        BY <1>1, <1>5, <2>1 DEF Leads
    <2> QED
        BY <1>1, <2>1, <2>2 DEF Led
<1>8. \A i \in 1 .. Len(w) : i = 1 \/ i \in 2 .. l + 1 \/ i = l + 2 \/ i = l + 3
    BY <1>1
<1>9. ASSUME NEW i \in 1 .. Len(w)
      PROVE  /\ w[i].op # "TILE"
             /\ w[i].op \in Loads => LoadWell(w[i]) /\ Deepest(w[i]) <= D
             /\ w[i].op = "GROUP" => Led(w, i, D)
             /\ i # 1 => ~Begins(w, i)
    <2>1. CASE i = 1
        BY <1>1, <2>1 DEF Loads
    <2>2. CASE i \in 2 .. l + 1
        <3>1. w[i].op \in Loads /\ LoadWell(w[i]) /\ Deepest(w[i]) <= D
            BY <1>5, <2>2
        <3> QED
            BY <2>2, <3>1 DEF Begins, Loads
    <2>3. CASE i = l + 2
        BY <1>1, <1>7, <2>3 DEF Begins, Loads
    <2>4. CASE i = l + 3
        BY <1>1, <2>4 DEF Begins, Loads, Flush
    <2> QED
        BY <1>8, <2>1, <2>2, <2>3, <2>4
<1>10. Len(w) # 0
    BY <1>1
<1>11. TileOf(w, D)
    BY <1>1, <1>6, <1>9, <1>10 DEF TileOf
<1> QED
    BY <1>11 DEF w

\* And goes on with the others.
LEMMA TileContinues ==
    ASSUME NEW D, NEW p, TileOf(p, D), NEW o, o.op = "OUT", NEW g, g.op = "GROUP", Pitched(o, g, D)
    PROVE  TileOf(p \o RowSlice(o, <<>>, g), D)
<1> DEFINE q == RowSlice(o, <<>>, g)
           w == p \o q
           a == Len(p)
<1>1. IsSequence(q) /\ Len(q) = 3 /\ q[1] = o /\ q[2] = g /\ q[3] = Flush
    <2> DEFINE load == <<>>
    <2>1. IsSequence(load) /\ Len(load) = 0
        BY ProgramOfNone DEF Program
    <2>2. q = RowSlice(o, load, g)
        OBVIOUS
    <2> HIDE DEF q, load
    <2>3. IsSequence(q) /\ Len(q) = Len(load) + 3 /\ q[1] = o /\ q[Len(load) + 2] = g /\ q[Len(load) + 3] = Flush
        <3>1. IsSequence(load) /\ q = RowSlice(o, load, g)
            BY <2>1, <2>2
        <3> QED
            BY ONLY <3>1, SliceAt
    <2> QED
        BY <2>1, <2>3
<1> HIDE DEF q
<1>2. /\ IsSequence(w) /\ a \in Nat /\ Len(w) = a + 3
      /\ \A i \in 1 .. a : w[i] = p[i]
      /\ \A j \in 1 .. 3 : w[a + j] = q[j]
    <2>1. IsSequence(p)
        BY DEF TileOf
    <2>2. /\ IsSequence(p \o q) /\ Len(p) \in Nat /\ Len(p \o q) = Len(p) + Len(q)
          /\ \A i \in 1 .. Len(p) : (p \o q)[i] = p[i]
          /\ \A j \in 1 .. Len(q) : (p \o q)[Len(p) + j] = q[j]
        <3>1. IsSequence(p) /\ IsSequence(q)
            BY <1>1, <2>1
        <3> QED
            BY ONLY <3>1, JoinAt
    <2> QED
        BY <1>1, <2>2
<1> HIDE DEF w
<1>3. a # 0
    BY DEF TileOf
<1>4. w[1] = p[1] /\ w[a + 1] = o /\ w[a + 2] = g /\ w[a + 3] = Flush
    <2>1. 1 \in 1 .. 3 /\ 2 \in 1 .. 3 /\ 3 \in 1 .. 3 /\ 1 \in 1 .. a
        BY <1>2, <1>3
    <2> QED
        BY <1>1, <1>2, <2>1
<1>5. Heads(w, 1, D)
    <2>1. PICK k \in 1 + 1 .. a : (\A j \in 1 + 1 .. k : p[j].op \in Loads) /\ Deepest(p[k]) = D
        BY DEF TileOf, Heads
    <2> HIDE DEF a
    <2>2. k \in 1 + 1 .. Len(w) /\ k \in 1 .. a /\ \A j \in 1 + 1 .. k : j \in 1 .. a
        BY <1>2
    <2> QED
        BY <1>2, <2>1, <2>2 DEF Heads
<1>6. ASSUME NEW i \in 1 .. a
      PROVE  /\ w[i].op # "TILE"
             /\ w[i].op \in Loads => LoadWell(w[i]) /\ Deepest(w[i]) <= D
             /\ w[i].op = "GROUP" => Led(w, i, D)
             /\ i # 1 => ~Begins(w, i)
    <2>1. w[i] = p[i]
        BY <1>2
    <2>2. w[i].op # "TILE" /\ (w[i].op \in Loads => LoadWell(w[i]) /\ Deepest(w[i]) <= D)
        BY <2>1 DEF TileOf
    <2>3. ASSUME w[i].op = "GROUP" PROVE Led(w, i, D)
        <3>1. Led(p, i, D)
            BY <2>1, <2>3 DEF TileOf
        <3>2. \A j \in 1 .. Len(p) : w[0 + j] = p[j]
            BY <1>2
        <3>3. 0 \in Nat /\ 0 + i = i
            OBVIOUS
        <3>4. Led(w, 0 + i, D)
            BY <1>2, <3>1, <3>2, <3>3, LedShift
        <3> QED
            BY <3>3, <3>4
    <2>4. ASSUME i # 1, Begins(w, i) PROVE FALSE
        <3>1. w[i].op = "OUT" /\ w[i + 1].op \in Loads
            BY <2>4 DEF Begins
        <3>2. CASE i = a
            BY <1>4, <3>1, <3>2 DEF Loads
        <3>3. CASE i # a
            <4>1. i + 1 \in 1 .. a /\ i < a
                <5> HIDE DEF a
                <5> QED
                    BY <1>2, <3>3
            <4>2. Begins(p, i)
                BY <1>2, <2>1, <3>1, <4>1 DEF Begins
            <4> QED
                BY <2>4, <4>2 DEF TileOf
        <3> QED
            BY <3>2, <3>3
    <2> QED
        BY <2>2, <2>3, <2>4
<1> HIDE DEF a
<1>7. Led(w, a + 2, D)
    <2>1. a + 1 \in 1 .. (a + 2) - 1 /\ \A k \in (a + 1) + 1 .. (a + 2) - 1 : FALSE
        BY <1>2
    <2>2. Leads(w, a + 1, a + 2)
        BY <1>4, <2>1 DEF Leads
    <2> QED
        BY <1>4, <2>1, <2>2 DEF Led
<1>8. \A i \in 1 .. Len(w) : i \in 1 .. a \/ i = a + 1 \/ i = a + 2 \/ i = a + 3
    BY <1>2
<1>9. (a + 1) + 1 = a + 2
    BY <1>2
<1>10. ASSUME NEW i \in 1 .. Len(w)
      PROVE  /\ w[i].op # "TILE"
             /\ w[i].op \in Loads => LoadWell(w[i]) /\ Deepest(w[i]) <= D
             /\ w[i].op = "GROUP" => Led(w, i, D)
             /\ i # 1 => ~Begins(w, i)
    <2>1. CASE i \in 1 .. a
        BY <1>6, <2>1
    <2>2. CASE i = a + 1
        BY <1>4, <1>9, <2>2 DEF Begins, Loads
    <2>3. CASE i = a + 2
        BY <1>4, <1>7, <2>3 DEF Begins, Loads
    <2>4. CASE i = a + 3
        BY <1>4, <2>4 DEF Begins, Loads, Flush
    <2> QED
        BY <1>8, <2>1, <2>2, <2>3, <2>4
<1>11. Len(w) # 0 /\ w[1].op = "OUT"
    BY <1>2, <1>4 DEF TileOf
<1>12. TileOf(w, D)
    BY <1>2, <1>5, <1>10, <1>11 DEF TileOf
<1> QED
    BY <1>12 DEF w, q

\* Where the tiles begin.
LEMMA PlacedAt ==
    ASSUME NEW c, NEW tiles, Tiled(c, tiles), NEW c0 \in Nat
    PROVE  \A t \in ToSet(Placed(tiles, c0)) : TileFits(c, t) /\ t.c0 \in Nat
<1> DEFINE n == Len(tiles)
           s == Placed(tiles, c0)
           before(i) == [k \in 1 .. i - 1 |-> tiles[k].P * tiles[k].d]
<1>1. n \in Nat /\ DOMAIN tiles = 1 .. n /\ \A i \in 1 .. n : TileFits(c, tiles[i])
    BY ListParts DEF Tiled
<1>2. s = [i \in 1 .. n |-> s[i]] /\ \A i \in 1 .. n : s[i].c0 = c0 + Total(before(i))
    BY <1>1 DEF Placed
<1>3. Tiled(c, s)
    BY PlacedFit
<1> HIDE DEF s, n
<1>4. \A e \in ToSet(s) : \E i \in 1 .. n : e = s[i]
    BY <1>1, <1>2, ListMade
<1>5. ASSUME NEW i \in 1 .. n PROVE s[i].c0 \in Nat
    <2>1. \A k \in 1 .. i - 1 : k \in 1 .. n
        BY <1>1
    <2>2. \A k \in 1 .. i - 1 : tiles[k].P * tiles[k].d \in Nat
        BY <1>1, <2>1 DEF TileFits
    <2>3. before(i) \in Seq(Nat)
        <3>1. i - 1 \in Nat
            BY <1>1
        <3> QED
            BY <2>2, <3>1
    <2> HIDE DEF before
    <2>4. Total(before(i)) \in Nat
        BY <2>3, TotalIn
    <2> QED
        BY <1>2, <2>4
<1> QED
    BY <1>3, <1>4, <1>5 DEF Tiled, s

\* The images lie behind the activations.
LEMMA StrideOf ==
    ASSUME NEW c \in Case
    PROVE  Stride(c) \in Nat /\ Weights(c) \in Nat
<1> DEFINE s == Stride(c)
           k == c.T * s + Words
<1>1. s \in Nat /\ c.T \in Nat /\ Words \in Nat
    BY CaseAssumption DEF Stride, CaseType
<1> HIDE DEF s
<1>2. k \in Nat
    BY <1>1
<1> HIDE DEF k
<1>3. UpDiv(k, 2) \in Nat
    BY <1>2, RoundedUp
<1> DEFINE u == UpDiv(k, 2)
<1> HIDE DEF u
<1>4. 2 * u \in Nat
    BY <1>3 DEF u
<1> QED
    BY <1>1, <1>4 DEF Weights, u, k, s

\* And so do those of every tile.
LEMMA ImagesAt ==
    ASSUME NEW c \in Case, NEW tiles, Tiled(c, tiles), \A t \in ToSet(tiles) : t.c0 \in Nat
    PROVE  \A t \in ToSet(WithImages(c, tiles)) : TileFits(c, t) /\ t.c0 \in Nat /\ t.img \in Nat
<1> DEFINE n == Len(tiles)
           s == WithImages(c, tiles)
           before(i) == [k \in 1 .. i - 1 |-> 2 * UpDiv(ImageWords(c, tiles[k]), 2)]
<1>1. n \in Nat /\ DOMAIN tiles = 1 .. n /\ \A i \in 1 .. n : TileFits(c, tiles[i]) /\ tiles[i].c0 \in Nat
    BY ListParts DEF Tiled
<1>2. s = [i \in 1 .. n |-> s[i]] /\ \A i \in 1 .. n : s[i].c0 = tiles[i].c0 /\ s[i].img = Weights(c) + Total(before(i))
    BY <1>1 DEF WithImages
<1>3. Tiled(c, s)
    BY WithImagesFit
<1> HIDE DEF s, n
<1>4. \A e \in ToSet(s) : \E i \in 1 .. n : e = s[i]
    BY <1>1, <1>2, ListMade
<1>5. ASSUME NEW i \in 1 .. n PROVE s[i].img \in Nat
    <2>1. \A k \in 1 .. i - 1 : k \in 1 .. n
        BY <1>1
    <2>2. ASSUME NEW k \in 1 .. i - 1 PROVE 2 * UpDiv(ImageWords(c, tiles[k]), 2) \in Nat
        <3>1. TileFits(c, tiles[k])
            BY <1>1, <2>1
        <3> DEFINE p == tiles[k].P
                   d == tiles[k].d
                   w == c.W
                   x == ImageWords(c, tiles[k])
                   u == UpDiv(x, 2)
        <3>2. p \in Nat /\ d \in Nat /\ w \in Nat
            BY <3>1, CaseAssumption DEF TileFits, CaseType
        <3>3. x = p * d * w
            BY DEF ImageWords
        <3> HIDE DEF p, d, w, x
        <3>4. x \in Nat
            BY <3>2, <3>3
        <3>5. u \in Nat
            BY <3>4, RoundedUp
        <3> HIDE DEF u
        <3>6. 2 * u \in Nat
            BY <3>5
        <3> QED
            BY <3>6 DEF u, x
    <2>3. before(i) \in Seq(Nat)
        <3>1. i - 1 \in Nat
            BY <1>1
        <3> QED
            BY <2>2, <3>1
    <2> HIDE DEF before
    <2>4. Total(before(i)) \in Nat
        BY <2>3, TotalIn
    <2> QED
        BY <1>2, <2>4, StrideOf
<1> QED
    BY <1>1, <1>2, <1>3, <1>4, <1>5 DEF Tiled, s

\* put_images: where the tiles of every block begin, and their images.
LEMMA PutImagesAt ==
    ASSUME NEW c \in Case
    PROVE  \A t \in ToSet(PutImages(c)) : TileFits(c, t) /\ t.c0 \in Nat /\ t.img \in Nat
<1> DEFINE bw == BlockCols(c)
           placed(b) == Placed(TilesOf(c, bw, c.minTiles), b * bw)
           seqs == [i \in 1 .. c.blocks |-> placed(i - 1)]
<1>1. c.blocks \in Nat \ {0} /\ c.C \in Nat /\ c.minTiles \in Nat \ {0} /\ (c.mixed \/ c.minTiles <= bw \div c.nodes[1])
    BY CaseAssumption DEF CaseType, BlockCols
<1>2. bw \in Nat
    BY <1>1, DivMod DEF BlockCols
<1>3. PutImages(c) = WithImages(c, FlattenSeq(seqs))
    BY DEF PutImages, Flat
<1> HIDE DEF bw
<1>4. ASSUME NEW i \in 1 .. c.blocks
      PROVE  Tiled(c, placed(i - 1)) /\ \A t \in ToSet(placed(i - 1)) : t.c0 \in Nat
    <2> DEFINE tiles == TilesOf(c, bw, c.minTiles)
               c0 == (i - 1) * bw
    <2>1. Tiled(c, tiles)
        BY <1>1, <1>2, TilesFit
    <2>2. c0 \in Nat
        <3>1. i - 1 \in Nat
            BY <1>1
        <3> DEFINE j == i - 1
        <3> HIDE DEF j
        <3>2. j * bw \in Nat
            BY <1>2, <3>1 DEF j
        <3> QED
            BY <3>2 DEF j
    <2> HIDE DEF tiles, c0
    <2>3. Tiled(c, Placed(tiles, c0)) /\ \A t \in ToSet(Placed(tiles, c0)) : t.c0 \in Nat
        BY <2>1, <2>2, PlacedFit, PlacedAt
    <2> QED
        BY <2>3 DEF tiles, c0
<1> HIDE DEF placed
<1>5. seqs = [i \in 1 .. c.blocks |-> seqs[i]]
      /\ \A i \in 1 .. c.blocks : Tiled(c, seqs[i]) /\ \A t \in ToSet(seqs[i]) : t.c0 \in Nat
    BY <1>4
<1> HIDE DEF seqs
<1>6. Tiled(c, FlattenSeq(seqs))
    BY <1>1, <1>5, TiledJoined
<1>7. \A t \in ToSet(FlattenSeq(seqs)) : t.c0 \in Nat
    <2>1. IsSequence(seqs) /\ \A q \in ToSet(seqs) : \E i \in 1 .. c.blocks : q = seqs[i]
        BY <1>1, <1>5, ListMade
    <2>2. \A q \in ToSet(seqs) : IsSequence(q) /\ \A t \in ToSet(q) : t.c0 \in Nat
        BY <1>5, <2>1 DEF Tiled
    <2>3. \A e \in ToSet(FlattenSeq(seqs)) : \E q \in ToSet(seqs) : e \in ToSet(q)
        BY <2>1, <2>2, FlattenList
    <2> QED
        BY <2>2, <2>3
<1> QED
    BY <1>3, <1>6, <1>7, ImagesAt

\* Columns of whole beats.
LEMMA WholeBeats ==
    ASSUME NEW P \in Nat, NEW d \in Nat, NEW cols, cols = d * P
    PROVE  cols \in Nat /\ cols \div Cells \in Nat /\ (d % Cells = 0 => (cols \div Cells) * Cells = cols)
<1>3. Cells \in Nat \ {0}
    BY CaseAssumption
<1>6. cols \in Nat
    OBVIOUS
<1>7. cols \div Cells \in Nat /\ (cols % Cells = 0 => (cols \div Cells) * Cells = cols)
    <2> DEFINE q == cols \div Cells
               m == q * Cells
    <2>1. q \in Nat /\ cols = m + (cols % Cells)
        BY <1>3, <1>6, DivMod
    <2>2. m \in Nat
        <3> HIDE DEF q
        <3> QED
            BY <1>3, <2>1
    <2> HIDE DEF m
    <2>3. cols % Cells = 0 => m = cols
        BY <1>6, <2>1, <2>2
    <2> QED
        BY <2>1, <2>3 DEF m
<1>8. d % Cells = 0 => cols % Cells = 0
    <2>1. SUFFICES ASSUME d % Cells = 0 PROVE cols % Cells = 0
        OBVIOUS
    <2> DEFINE q == d \div Cells
    <2>2. q \in Nat /\ d = q * Cells
        <3> DEFINE m == q * Cells
        <3>1. q \in Nat /\ d % Cells \in 0 .. Cells - 1 /\ d = m + (d % Cells)
            BY <1>3, DivMod
        <3>2. m \in Nat
            <4> HIDE DEF q
            <4> QED
                BY <1>3, <3>1
        <3> HIDE DEF m
        <3>3. d = m
            BY <2>1, <3>1, <3>2
        <3> QED
            BY <3>1, <3>3 DEF m
    <2> HIDE DEF q
    <2> DEFINE y == P * q
    <2>3. y \in Nat /\ cols = 0 + y * Cells
        <3>1. y \in Nat /\ y * Cells = P * (q * Cells)
            BY <1>3, <2>2, TimesAssoc
        <3>2. cols = P * d
            OBVIOUS
        <3> HIDE DEF y
        <3>3. y * Cells = cols
            BY <2>2, <3>1, <3>2
        <3>4. y * Cells \in Int
            BY <1>3, <3>1
        <3> QED
            BY <3>1, <3>3, <3>4
    <2> HIDE DEF y
    <2>4. 0 \in 0 .. Cells - 1
        BY <1>3
    <2>5. (0 + y * Cells) % Cells = 0
        BY <1>3, <2>3, <2>4, Digits
    <2> QED
        BY <2>3, <2>5
<1> QED
    BY <1>6, <1>7, <1>8

\* Every row slice of a tile writes into the rows of the tile.
LEMMA SlicePitched ==
    ASSUME NEW c \in Case, NEW t, TileFits(c, t), t.c0 \in Nat, NEW bw \in Nat \ {0},
           NEW r0 \in Nat, NEW n \in Nat \ {0}, NEW b, b = t.c0 \div bw
    PROVE  LET split == t.d * t.P # bw
               o == Out(b * c.T * bw + r0 * bw + t.c0 - b * bw,
                        IF split THEN (t.d * t.P) \div Cells ELSE 0, IF split THEN bw - t.d * t.P ELSE 0)
               g == ColGroup(c, r0 * Stride(c), n, t.P, t.d)
           IN  o.op = "OUT" /\ g.op = "GROUP" /\ Pitched(o, g, t.d)
<1> DEFINE P == t.P
           d == t.d
           cols == d * P
           split == cols # bw
           base == b * c.T * bw + r0 * bw + t.c0 - b * bw
           blk == IF split THEN cols \div Cells ELSE 0
           gap == IF split THEN bw - cols ELSE 0
           o == Out(base, blk, gap)
           at == r0 * Stride(c)
           g == ColGroup(c, at, n, P, d)
<1>1. P \in Nat \ {0} /\ d \in Nat \ {0} /\ P * c.W <= Words
    BY DEF TileFits
<1>2. b \in Nat
    BY DivMod
<1>3. c.T \in Nat /\ Cells \in Nat \ {0}
    BY CaseAssumption DEF CaseType
<1>4. base \in Int
    <2> DEFINE T == c.T
               x == b * T * bw
               y == r0 * bw
               z == b * bw
    <2>1. T \in Nat /\ x \in Nat /\ y \in Nat /\ z \in Nat
        <3> HIDE DEF T
        <3> QED
            BY <1>2, <1>3 DEF T
    <2>2. base = x + y + t.c0 - z
        OBVIOUS
    <2> HIDE DEF x, y, z, base
    <2> QED
        BY <2>1, <2>2
<1>5. at \in Nat
    <2> DEFINE s == Stride(c)
    <2>1. s \in Nat
        BY StrideOf
    <2> HIDE DEF s
    <2>2. r0 * s \in Nat
        BY <2>1
    <2> QED
        BY <2>2 DEF s
<1> HIDE DEF at, base
<1>6. cols \in Nat /\ cols \div Cells \in Nat /\ (d % Cells = 0 => (cols \div Cells) * Cells = cols)
    <2> HIDE DEF P, d
    <2> QED
        BY <1>1, WholeBeats
<1> HIDE DEF cols
<1>9. blk \in Nat /\ gap \in Int
    BY <1>6
<1>10. ASSUME d % Cells = 0, blk # 0 PROVE blk * Cells = cols /\ blk * Cells + gap >= 0
    <2>1. split
        BY <1>10
    <2>2. (cols \div Cells) * Cells = cols
        BY <1>6, <1>10
    <2>3. blk = cols \div Cells /\ gap = bw - cols
        BY <2>1
    <2>4. blk * Cells = cols
        BY <2>2, <2>3
    <2> DEFINE m == blk * Cells
    <2>5. m = cols
        BY <2>4
    <2> HIDE DEF m, blk, gap
    <2>6. m + gap >= 0
        BY <1>6, <2>3, <2>5
    <2> QED
        BY <2>4, <2>6 DEF m
<1>11. Fits(g) /\ g.op = "GROUP" /\ g.P = P
    <2>1. Fits(g)
        BY <1>1, <1>5, TilerGroupsFit
    <2> QED
        BY <2>1 DEF ColGroup, Group
<1> HIDE DEF blk, gap, g
<1>12. o.op = "OUT" /\ o.base = base /\ o.blk = blk /\ o.gap = gap /\ o = Out(base, blk, gap)
    BY DEF Out
<1> HIDE DEF o, P, d
<1>13. Pitched(o, g, d)
    <2>1. o = Out(o.base, o.blk, o.gap)
        BY <1>12
    <2>2. d % Cells = 0 /\ o.blk # 0 => o.blk * Cells = d * g.P /\ o.blk * Cells + o.gap >= 0
        BY <1>10, <1>11, <1>12 DEF cols
    <2> QED
        BY <1>4, <1>9, <1>11, <1>12, <2>1, <2>2 DEF Pitched
<1> QED
    BY <1>11, <1>12, <1>13 DEF o, g, P, d, base, blk, gap, at, cols

\* A tile, slice by slice.
LEMMA TileCmdsTagged ==
    ASSUME NEW c \in Case, NEW t, TileFits(c, t), t.c0 \in Nat, NEW bw \in Nat \ {0}, NEW load, LoadsOf(load, t.d)
    PROVE  Tagged(TileCmds(c, t, bw, load))
<1> DEFINE b == t.c0 \div bw
           split == t.d * t.P # bw
           slices == RowSlices(c.T, c.W, c.stride)
           first(i) == Out(b * c.T * bw + slices[i].r0 * bw + t.c0 - b * bw,
                         IF split THEN (t.d * t.P) \div Cells ELSE 0, IF split THEN bw - t.d * t.P ELSE 0)
           some(i) == IF i = 1 THEN load ELSE <<>>
           group(i) == ColGroup(c, slices[i].r0 * Stride(c), slices[i].n, t.P, t.d)
           slice(i) == <<first(i)>> \o some(i) \o <<group(i), Flush>>
           seqs == [i \in DOMAIN slices |-> slice(i)]
           D == t.d
<1>1. PICK n \in Nat : /\ slices = [i \in 1 .. n |-> slices[i]]
                       /\ \A i \in 1 .. n : slices[i].r0 \in Nat /\ slices[i].n \in Nat \ {0}
    BY SlicesOfRows
<1>2. TileCmds(c, t, bw, load) = FlattenSeq(seqs)
    BY DEF TileCmds
<1>3. DOMAIN slices = 1 .. n
    <2> HIDE DEF slices
    <2> QED
        BY <1>1, ListMade
<1>4. ASSUME NEW i \in 1 .. n
      PROVE  first(i).op = "OUT" /\ group(i).op = "GROUP" /\ Pitched(first(i), group(i), D)
    <2> HIDE DEF slices
    <2> DEFINE r0 == slices[i].r0
               m == slices[i].n
    <2>1. r0 \in Nat /\ m \in Nat \ {0}
        BY <1>1
    <2> HIDE DEF r0, m
    <2> DEFINE x == b
    <2>2. x = t.c0 \div bw
        OBVIOUS
    <2> HIDE DEF x
    <2> DEFINE o == Out(x * c.T * bw + r0 * bw + t.c0 - x * bw,
                        IF split THEN (t.d * t.P) \div Cells ELSE 0, IF split THEN bw - t.d * t.P ELSE 0)
               g == ColGroup(c, r0 * Stride(c), m, t.P, t.d)
    <2>3. o.op = "OUT" /\ g.op = "GROUP" /\ Pitched(o, g, t.d)
        BY <2>1, <2>2, SlicePitched
    <2>4. o = first(i) /\ g = group(i)
        BY DEF x, r0, m
    <2> HIDE DEF o, g, first, group
    <2> QED
        BY <2>3, <2>4
<1> HIDE DEF first, group
<1>5. \A i \in 1 .. n : slice(i) = RowSlice(first(i), some(i), group(i))
    BY DEF RowSlice
<1> HIDE DEF slice, slices
<1>6. seqs = [i \in 1 .. n |-> seqs[i]] /\ \A i \in 1 .. n : seqs[i] = RowSlice(first(i), some(i), group(i))
    BY <1>3, <1>5
<1> HIDE DEF seqs, D
<1>7. CASE n = 0
    <2>1. seqs = [i \in 1 .. 0 |-> seqs[i]]
        BY <1>6, <1>7
    <2>2. FlattenSeq(seqs) = <<>>
        BY <2>1, FlattenNone
    <2> QED
        BY <1>2, <2>2, NothingSound
<1>8. CASE n # 0
    <2>1. IsSequence(<<>>)
        BY ProgramOfNone DEF Program
    <2>2. some(1) = load /\ \A i \in 2 .. n : some(i) = <<>>
        OBVIOUS
    <2>3. \A i \in 1 .. n : IsSequence(some(i))
        BY <2>1, <2>2 DEF LoadsOf
    <2> HIDE DEF some
    <2>4. ASSUME NEW i \in 1 .. n PROVE IsSequence(seqs[i])
        <3> DEFINE o == first(i)
                   s == some(i)
                   g == group(i)
                   q == seqs[i]
        <3>1. IsSequence(s) /\ q = RowSlice(o, s, g)
            BY <1>6, <2>3
        <3> HIDE DEF o, s, g, q
        <3>2. IsSequence(q)
            BY ONLY <3>1, SliceAt
        <3> QED
            BY <3>2 DEF q
    <2>5. PICK S : seqs \in Seq(Seq(S)) /\ Len(seqs) = n /\ \A i \in 1 .. n : seqs[i] \in Seq(S)
        BY <1>6, <2>4, ListsOver
    <2> DEFINE V == {w \in Seq(S) : TileOf(w, D)}
    <2>6. seqs[1] \in V
        <3>1. 1 \in 1 .. n
            BY <1>8
        <3>2. seqs[1] = RowSlice(first(1), load, group(1)) /\ seqs[1] \in Seq(S)
            BY <1>6, <2>2, <2>5, <3>1
        <3>3. first(1).op = "OUT" /\ group(1).op = "GROUP" /\ Pitched(first(1), group(1), D)
            BY <1>4, <3>1
        <3> DEFINE o == first(1)
                   g == group(1)
        <3> HIDE DEF o, g
        <3>4. TileOf(RowSlice(o, load, g), D)
            BY <3>3, TileStarts DEF o, g, D
        <3> QED
            BY <3>2, <3>4 DEF o, g
    <2>7. ASSUME NEW i \in 2 .. Len(seqs), NEW p \in V PROVE p \o seqs[i] \in V
        <3>1. i \in 1 .. n /\ i \in 2 .. n
            BY <2>5
        <3> DEFINE o == first(i)
                   g == group(i)
                   q == seqs[i]
        <3>2. q = RowSlice(o, <<>>, g) /\ q \in Seq(S) /\ p \in Seq(S) /\ TileOf(p, D)
            BY <1>6, <2>2, <2>5, <3>1
        <3>3. o.op = "OUT" /\ g.op = "GROUP" /\ Pitched(o, g, D)
            BY <1>4, <3>1
        <3> HIDE DEF o, g, q
        <3>4. TileOf(p \o RowSlice(o, <<>>, g), D)
            BY <3>2, <3>3, TileContinues
        <3>5. p \o q \in Seq(S)
            BY <3>2, Joined
        <3>6. p \o q \in V
            BY <3>2, <3>4, <3>5
        <3> QED
            BY <3>6 DEF q
    <2> HIDE DEF V
    <2>8. FlattenSeq(seqs) \in V
        BY <1>8, <2>5, <2>6, <2>7, FlattenKeeps
    <2>9. TileOf(FlattenSeq(seqs), D) /\ D \in Nat
        BY <2>8 DEF V, TileFits, D
    <2> QED
        BY <1>2, <2>9, TileIsTagged
<1> QED
    BY <1>7, <1>8

\* The pieces of a load: the last one ends with the last stage.
LEMMA PiecesAt ==
    ASSUME NEW d \in Nat \ {0}
    PROVE  \E n \in Nat \ {0} :
             /\ DOMAIN Pieces(d) = 1 .. n
             /\ \A k \in 1 .. n : LET s0 == Pieces(d)[k]
                                      m == Least(LoadRegs, d - s0)
                                  IN  s0 \in Nat /\ m \in Nat /\ s0 + m <= d /\ (k = n => s0 + m = d)
<1> DEFINE r == LoadRegs
           n == UpDiv(d, r)
           u == n * r
<1>1. r \in Nat \ {0}
    BY CaseAssumption
<1>2. n \in Nat \ {0} /\ d <= u /\ u - r < d
    BY <1>1, RoundedUp
<1>3. DOMAIN Pieces(d) = 1 .. n /\ \A k \in 1 .. n : Pieces(d)[k] = (k - 1) * r
    BY DEF Pieces, Steps
<1> HIDE DEF n
<1>4. ASSUME NEW k \in 1 .. n
      PROVE  LET s0 == Pieces(d)[k]
                 m == Least(r, d - s0)
             IN  s0 \in Nat /\ m \in Nat /\ s0 + m <= d /\ (k = n => s0 + m = d)
    <2> DEFINE s0 == (k - 1) * r
               e == (n - 1) * r
    <2> HIDE DEF r
    <2>1. k - 1 \in Nat /\ n - 1 \in Nat /\ k - 1 <= n - 1 /\ (k = n => k - 1 = n - 1)
        BY <1>2
    <2>2. s0 <= e /\ (k = n => s0 = e)
        BY <1>1, <2>1, TimesMonotone
    <2>3. s0 \in Nat /\ e \in Nat /\ u \in Nat
        BY <1>1, <1>2, <2>1
    <2>4. e = u - r
        <3>1. (n + (-1)) * r = (n * r) + ((-1) * r)
            BY <1>1, <1>2, Distribute
        <3>2. n + (-1) = n - 1 /\ (-1) * r = -r
            BY <1>1, <1>2
        <3> DEFINE w == (n + (-1)) * r
        <3>3. w = u + (-r) /\ e = w
            BY <3>1, <3>2
        <3> HIDE DEF w, u, e
        <3> QED
            BY <1>1, <2>3, <3>3
    <2>5. Pieces(d)[k] = s0
        BY <1>3 DEF r
    <2> HIDE DEF s0, e, u
    <2> DEFINE m == Least(r, d - s0)
    <2>6. m \in Nat /\ s0 + m <= d /\ (k = n => s0 + m = d)
        BY <1>1, <1>2, <2>2, <2>3, <2>4 DEF Least
    <2> HIDE DEF m
    <2>7. m = Least(r, d - Pieces(d)[k])
        BY <2>5 DEF m
    <2> QED
        BY <2>3, <2>5, <2>6, <2>7
<1> QED
    BY <1>2, <1>3, <1>4 DEF r

\* LOAD: the image of a tile, piece by piece.
LEMMA ImageLoads ==
    ASSUME NEW c \in Case, NEW t, TileFits(c, t), t.img \in Nat
    PROVE  LoadsOf([k \in DOMAIN Pieces(t.d) |->
                LET s0 == Pieces(t.d)[k]
                IN  Load(t.img + s0 * t.P * c.W, 1 + s0, Least(LoadRegs, t.d - s0), t.P * c.W)], t.d)
<1> DEFINE d == t.d
           piece(k) == LET s0 == Pieces(t.d)[k]
                       IN  Load(t.img + s0 * t.P * c.W, 1 + s0, Least(LoadRegs, t.d - s0), t.P * c.W)
           q == [k \in DOMAIN Pieces(t.d) |-> piece(k)]
<1>1. d \in Nat \ {0} /\ t.P \in Nat /\ c.W \in Nat /\ c.W % 2 = 0
    BY CaseAssumption DEF TileFits, CaseType
<1>2. PICK n \in Nat \ {0} :
         /\ DOMAIN Pieces(d) = 1 .. n
         /\ \A k \in 1 .. n : LET s0 == Pieces(d)[k]
                                  m == Least(LoadRegs, d - s0)
                              IN  s0 \in Nat /\ m \in Nat /\ s0 + m <= d /\ (k = n => s0 + m = d)
    BY <1>1, PiecesAt
<1>3. ASSUME NEW k \in 1 .. n
      PROVE  piece(k).op \in Loads /\ LoadWell(piece(k)) /\ Deepest(piece(k)) <= d /\ (k = n => Deepest(piece(k)) = d)
    <2> DEFINE s0 == Pieces(d)[k]
               m == Least(LoadRegs, d - s0)
               P == t.P
               W == c.W
               w == P * W
               base == t.img + s0 * P * W
               l == Load(base, 1 + s0, m, w)
    <2>1. s0 \in Nat /\ m \in Nat /\ s0 + m <= d /\ (k = n => s0 + m = d)
        BY <1>2
    <2>2. piece(k) = l
        OBVIOUS
    <2> HIDE DEF s0, m, piece, P, W
    <2>3. w \in Nat /\ base \in Int
        <3> DEFINE x == s0 * P * W
        <3>1. w \in Nat /\ x \in Nat
            BY <1>1, <2>1 DEF P, W
        <3> HIDE DEF x
        <3>2. t.img + x \in Int
            BY <3>1
        <3> QED
            BY <3>1, <3>2 DEF x
    <2>4. w % 2 = 0
        BY <1>1, EvenTimes DEF P, W
    <2> HIDE DEF w, base
    <2>5. w + (w % 2) = w
        BY <2>3, <2>4
    <2>6. l = [op |-> "LOAD", base |-> base, first |-> 1 + s0, nreg |-> m, nwords |-> w, nsegs |-> 1,
               segStep |-> 0, tgtStep |-> w]
        BY <2>5 DEF Load, LoadX
    <2> HIDE DEF l, d
    <2>7. l.op \in Loads
        BY <2>6 DEF Loads
    <2>8. LoadWell(l)
        BY <2>1, <2>3, <2>6 DEF LoadWell
    <2>9. Deepest(l) = s0 + m
        BY <2>1, <2>6 DEF Deepest
    <2> QED
        BY <2>1, <2>2, <2>7, <2>8, <2>9
<1> HIDE DEF piece, d
<1>4. q = [k \in 1 .. n |-> q[k]] /\ \A k \in 1 .. n : q[k] = piece(k)
    BY <1>2 DEF d
<1> HIDE DEF q
<1>5. IsSequence(q) /\ Len(q) = n
    BY <1>4, ListMade
<1>6. n \in 1 .. n
    OBVIOUS
<1>7. LoadsOf(q, d)
    BY <1>3, <1>4, <1>5, <1>6 DEF LoadsOf
<1> QED
    BY <1>7 DEF q, d, piece

\* LOADX: the columns of a tile, out of the rows of a matrix.
LEMMA RowLoads ==
    ASSUME NEW c \in Case, NEW t, TileFits(c, t), t.c0 \in Nat
    PROVE  LoadsOf([k \in DOMAIN Pieces(t.d) |->
                LET s0 == Pieces(t.d)[k]
                IN  LoadX(Weights(c) + (t.c0 + s0) * c.W, 1 + s0, Least(LoadRegs, t.d - s0), c.W, t.P, t.d * c.W, c.W)], t.d)
<1> DEFINE d == t.d
           piece(k) == LET s0 == Pieces(t.d)[k]
                       IN  LoadX(Weights(c) + (t.c0 + s0) * c.W, 1 + s0, Least(LoadRegs, t.d - s0), c.W, t.P, t.d * c.W, c.W)
           q == [k \in DOMAIN Pieces(t.d) |-> piece(k)]
<1>1. d \in Nat \ {0} /\ t.P \in Nat /\ c.W \in Nat
    BY CaseAssumption DEF TileFits, CaseType
<1>2. PICK n \in Nat \ {0} :
         /\ DOMAIN Pieces(d) = 1 .. n
         /\ \A k \in 1 .. n : LET s0 == Pieces(d)[k]
                                  m == Least(LoadRegs, d - s0)
                              IN  s0 \in Nat /\ m \in Nat /\ s0 + m <= d /\ (k = n => s0 + m = d)
    BY <1>1, PiecesAt
<1>3. ASSUME NEW k \in 1 .. n
      PROVE  piece(k).op \in Loads /\ LoadWell(piece(k)) /\ Deepest(piece(k)) <= d /\ (k = n => Deepest(piece(k)) = d)
    <2> DEFINE s0 == Pieces(d)[k]
               m == Least(LoadRegs, d - s0)
               W == c.W
               step == d * W
               base == Weights(c) + (t.c0 + s0) * W
               l == LoadX(base, 1 + s0, m, W, t.P, step, W)
    <2>1. s0 \in Nat /\ m \in Nat /\ s0 + m <= d /\ (k = n => s0 + m = d)
        BY <1>2
    <2>2. piece(k) = l
        OBVIOUS
    <2> HIDE DEF s0, m, piece, W
    <2>3. step \in Nat /\ base \in Int
        <3> DEFINE y == t.c0 + s0
                   x == y * W
        <3>1. y \in Nat
            BY <2>1
        <3> HIDE DEF y, d
        <3>2. x \in Nat /\ step \in Nat
            BY <1>1, <3>1 DEF W
        <3> HIDE DEF x
        <3>3. Weights(c) + x \in Int
            BY <3>2, StrideOf
        <3> QED
            BY <3>2, <3>3 DEF x, y
    <2> HIDE DEF step, base
    <2>6. l = [op |-> "LOADX", base |-> base, first |-> 1 + s0, nreg |-> m, nwords |-> W, nsegs |-> t.P,
               segStep |-> step, tgtStep |-> W]
        BY DEF LoadX
    <2> HIDE DEF l, d
    <2>7. l.op \in Loads
        BY <2>6 DEF Loads
    <2>8. LoadWell(l)
        BY <1>1, <2>1, <2>3, <2>6 DEF LoadWell, W
    <2>9. Deepest(l) = s0 + m
        BY <2>1, <2>6 DEF Deepest
    <2> QED
        BY <2>1, <2>2, <2>7, <2>8, <2>9
<1> HIDE DEF piece, d
<1>4. q = [k \in 1 .. n |-> q[k]] /\ \A k \in 1 .. n : q[k] = piece(k)
    BY <1>2 DEF d
<1> HIDE DEF q
<1>5. IsSequence(q) /\ Len(q) = n
    BY <1>4, ListMade
<1>6. n \in 1 .. n
    OBVIOUS
<1>7. LoadsOf(q, d)
    BY <1>3, <1>4, <1>5, <1>6 DEF LoadsOf
<1> QED
    BY <1>7 DEF q, d, piece

\* Tiles that are placed, one after the other.
LEMMA CmdsTagged ==
    ASSUME NEW c \in Case, NEW bw \in Nat \ {0}, NEW n \in Nat, NEW seqs, seqs = [i \in 1 .. n |-> seqs[i]],
           \A i \in 1 .. n : \E t : \E load : /\ TileFits(c, t) /\ t.c0 \in Nat /\ LoadsOf(load, t.d)
                                              /\ seqs[i] = TileCmds(c, t, bw, load)
    PROVE  Tagged(FlattenSeq(seqs))
<1>1. ASSUME NEW i \in 1 .. n PROVE Tagged(seqs[i])
    <2>1. PICK t : \E load : /\ TileFits(c, t) /\ t.c0 \in Nat /\ LoadsOf(load, t.d)
                             /\ seqs[i] = TileCmds(c, t, bw, load)
        OBVIOUS
    <2>2. PICK load : LoadsOf(load, t.d) /\ seqs[i] = TileCmds(c, t, bw, load)
        BY <2>1
    <2> QED
        BY <2>1, <2>2, TileCmdsTagged
<1> QED
    BY <1>1, TaggedFlat

\* A block has columns.
LEMMA ColumnsOfBlock ==
    ASSUME NEW c \in Case
    PROVE  BlockCols(c) \in Nat \ {0} /\ c.C \in Nat \ {0}
<1> DEFINE b == c.blocks
           C == c.C
           q == C \div b
           m == q * b
<1>1. C \in Nat \ {0} /\ b \in Nat \ {0} /\ C % b = 0
    BY CaseAssumption DEF CaseType
<1> HIDE DEF b, C
<1>2. q \in Nat /\ C = m + (C % b)
    BY <1>1, DivMod
<1>3. q # 0
    <2>1. SUFFICES ASSUME q = 0 PROVE FALSE
        OBVIOUS
    <2> HIDE DEF q
    <2>2. m = 0
        BY <1>1, <2>1
    <2> HIDE DEF m
    <2> QED
        BY <1>1, <1>2, <2>2
<1> QED
    BY <1>1, <1>2, <1>3 DEF BlockCols, b, C

\* cmds_load.
LEMMA CmdsLoadTagged ==
    ASSUME NEW c \in Case
    PROVE  Tagged(CmdsLoad(c))
<1> DEFINE tiles == PutImages(c)
           load(t) == [k \in DOMAIN Pieces(t.d) |->
                LET s0 == Pieces(t.d)[k]
                IN  Load(t.img + s0 * t.P * c.W, 1 + s0, Least(LoadRegs, t.d - s0), t.P * c.W)]
           bw == BlockCols(c)
           seqs == [i \in DOMAIN tiles |-> TileCmds(c, tiles[i], bw, load(tiles[i]))]
           n == Len(tiles)
<1>1. CmdsLoad(c) = FlattenSeq(seqs)
    BY DEF CmdsLoad, CmdsOf
<1>2. bw \in Nat \ {0}
    BY ColumnsOfBlock
<1>3. ASSUME NEW t, TileFits(c, t), t.img \in Nat PROVE LoadsOf(load(t), t.d)
    BY <1>3, ImageLoads
<1> HIDE DEF load, bw
<1>4. Tiled(c, tiles) /\ \A t \in ToSet(tiles) : TileFits(c, t) /\ t.c0 \in Nat /\ t.img \in Nat
    BY ImagesFit, PutImagesAt
<1> HIDE DEF tiles
<1>5. /\ n \in Nat /\ DOMAIN tiles = 1 .. n
      /\ \A i \in 1 .. n : TileFits(c, tiles[i]) /\ tiles[i].c0 \in Nat /\ LoadsOf(load(tiles[i]), tiles[i].d)
    BY <1>3, <1>4, ListParts DEF Tiled
<1> HIDE DEF n
<1>6. /\ seqs = [i \in 1 .. n |-> seqs[i]]
      /\ \A i \in 1 .. n : seqs[i] = TileCmds(c, tiles[i], bw, load(tiles[i]))
    BY <1>5
<1> HIDE DEF seqs
<1>7. Tagged(FlattenSeq(seqs))
    BY <1>2, <1>5, <1>6, CmdsTagged
<1> QED
    BY <1>1, <1>7

\* cmds_loadx.
LEMMA CmdsLoadXTagged ==
    ASSUME NEW c \in Case
    PROVE  Tagged(CmdsLoadX(c))
<1> DEFINE tiles == Placed(TilesOf(c, c.C, 1), 0)
           load(t) == [k \in DOMAIN Pieces(t.d) |->
                LET s0 == Pieces(t.d)[k]
                IN  LoadX(Weights(c) + (t.c0 + s0) * c.W, 1 + s0, Least(LoadRegs, t.d - s0), c.W, t.P, t.d * c.W, c.W)]
           bw == c.C
           seqs == [i \in DOMAIN tiles |-> TileCmds(c, tiles[i], bw, load(tiles[i]))]
           n == Len(tiles)
<1>1. CmdsLoadX(c) = FlattenSeq(seqs)
    BY DEF CmdsLoadX, CmdsOf
<1>2. bw \in Nat \ {0}
    BY ColumnsOfBlock
<1>3. ASSUME NEW t, TileFits(c, t), t.c0 \in Nat PROVE LoadsOf(load(t), t.d)
    BY <1>3, RowLoads
<1> HIDE DEF load, bw
<1>4. Tiled(c, tiles) /\ \A t \in ToSet(tiles) : TileFits(c, t) /\ t.c0 \in Nat
    BY ColumnTilesFit, PlacedFit, PlacedAt
<1> HIDE DEF tiles
<1>5. /\ n \in Nat /\ DOMAIN tiles = 1 .. n
      /\ \A i \in 1 .. n : TileFits(c, tiles[i]) /\ tiles[i].c0 \in Nat /\ LoadsOf(load(tiles[i]), tiles[i].d)
    BY <1>3, <1>4, ListParts DEF Tiled
<1> HIDE DEF n
<1>6. /\ seqs = [i \in 1 .. n |-> seqs[i]]
      /\ \A i \in 1 .. n : seqs[i] = TileCmds(c, tiles[i], bw, load(tiles[i]))
    BY <1>5
<1> HIDE DEF seqs
<1>7. Tagged(FlattenSeq(seqs))
    BY <1>2, <1>5, <1>6, CmdsTagged
<1> QED
    BY <1>1, <1>7

\* A tile of the wide GEMM.
LEMMA WideTileSound ==
    ASSUME NEW c \in Case, c.path = "wide", NEW q, OfWideTile(c, q)
    PROVE  Sound(q, c.nodes[1])
<1>1. PICK k \in DOMAIN WideTiles(c) : \E r0 \in Nat : \E g :
        LET t == WideTiles(c)[k]
        IN  q = WideTile(c, t, r0, g) /\ TileFits(c, t) /\ Fits(g) /\ g.op = "GROUP" /\ g.P = t.P
    BY DEF OfWideTile
<1> DEFINE t == WideTiles(c)[k]
           D == c.nodes[1]
<1>2. PICK r0 \in Nat : \E g : q = WideTile(c, t, r0, g) /\ TileFits(c, t) /\ Fits(g) /\ g.op = "GROUP" /\ g.P = t.P
    BY <1>1
<1>3. PICK g : q = WideTile(c, t, r0, g) /\ TileFits(c, t) /\ Fits(g) /\ g.op = "GROUP" /\ g.P = t.P
    BY <1>2
<1> DEFINE per == D * (Words \div c.W)
<1>4. t.d = D /\ t.c0 = (k - 1) * per /\ t.img = Weights(c) + (k - 1) * per * c.W
    BY DEF WideTiles
<1>5. k \in Nat \ {0}
    BY WideTilesFit
<1>6. c.W \in Nat \ {0} /\ c.W % 2 = 0 /\ Words \in Nat /\ c.C \in Nat /\ Cells \in Nat \ {0} /\ D \in Nat \ {0} /\ t.P \in Nat \ {0}
    BY <1>3, <1>4, CaseAssumption DEF CaseType, TileFits
<1> HIDE DEF t, D
<1> DEFINE P == t.P
           W == c.W
           C == c.C
           w == P * W
           cols == P * D
<1>7. per \in Nat /\ t.c0 \in Nat /\ t.img \in Int
    <2>1. Words \div W \in Nat
        BY <1>6, DivMod
    <2> DEFINE z == Words \div W
    <2>2. z \in Nat
        BY <2>1
    <2> HIDE DEF z, W
    <2>3. per \in Nat
        BY <1>6, <2>2 DEF z, W
    <2> HIDE DEF per
    <2> DEFINE x == (k - 1) * per
               y == x * W
    <2>4. x \in Nat
        BY <1>5, <2>3
    <2> HIDE DEF x
    <2>5. y \in Nat /\ Weights(c) \in Nat
        BY <1>6, <2>4, StrideOf DEF W
    <2> HIDE DEF y
    <2>6. t.c0 = x /\ t.img = Weights(c) + y
        BY <1>4 DEF x, y, W
    <2> QED
        BY <2>3, <2>4, <2>5, <2>6
<1> HIDE DEF per
<1>8. w \in Nat /\ w % 2 = 0 /\ cols \in Nat
    <2>1. w % 2 = 0
        BY <1>6, EvenTimes
    <2> HIDE DEF P, W
    <2> QED
        BY <1>6, <2>1 DEF P, W
<1> DEFINE base == r0 * C + t.c0
           blk == cols \div Cells
           gap == C - cols
           o == Out(base, blk, gap)
           l == Load(t.img, 1, D, w)
<1>9. base \in Int
    <2> DEFINE x == r0 * C
    <2>1. x \in Nat
        <3> HIDE DEF C
        <3> QED
            BY <1>6 DEF C
    <2>2. base = x + t.c0
        OBVIOUS
    <2> HIDE DEF x, base
    <2> QED
        BY <1>7, <2>1, <2>2
<1>10. blk \in Nat /\ gap \in Int
    <2>1. C \in Nat
        BY <1>6
    <2> HIDE DEF cols, C
    <2>2. blk \in Nat
        BY <1>6, <1>8, DivMod
    <2>3. gap \in Int
        BY <1>8, <2>1
    <2> QED
        BY <2>2, <2>3
<1>11. ASSUME D % Cells = 0 PROVE blk * Cells = D * P /\ blk * Cells + gap >= 0
    <2>1. cols = D * P
        <3> HIDE DEF P
        <3> QED
            BY <1>6 DEF P
    <2>2. blk * Cells = cols
        <3> HIDE DEF P, cols
        <3> QED
            BY <1>6, <1>11, <2>1, WholeBeats DEF P
    <2>3. C \in Nat
        BY <1>6
    <2> DEFINE m == blk * Cells
    <2>4. m = cols /\ gap = C - cols
        BY <2>2
    <2> HIDE DEF m, cols, gap, C
    <2>5. m + gap >= 0
        BY <1>8, <2>3, <2>4
    <2> QED
        BY <2>1, <2>2, <2>5 DEF m
<1>12. q = <<o, l, g, Flush>> /\ g.P = P /\ Fits(g) /\ g.op = "GROUP"
    BY <1>3, <1>4 DEF WideTile
<1> HIDE DEF base, blk, gap, w
<1>13. o.op = "OUT" /\ o.base = base /\ o.blk = blk /\ o.gap = gap /\ o = Out(base, blk, gap)
    BY DEF Out
<1>14. l = [op |-> "LOAD", base |-> t.img, first |-> 1, nreg |-> D, nwords |-> w, nsegs |-> 1, segStep |-> 0, tgtStep |-> w]
    <2>1. w + (w % 2) = w
        BY <1>8
    <2> QED
        BY <2>1 DEF Load, LoadX
<1> HIDE DEF o, l, P
<1>15. Pitched(o, g, D)
    <2>1. o = Out(o.base, o.blk, o.gap)
        BY <1>13
    <2>2. D % Cells = 0 => o.blk * Cells = D * g.P /\ o.blk * Cells + o.gap >= 0
        BY <1>11, <1>12, <1>13
    <2> QED
        BY <1>9, <1>10, <1>12, <1>13, <2>1, <2>2 DEF Pitched
<1>16. l.op \in Loads /\ LoadWell(l) /\ Deepest(l) = D
    BY <1>6, <1>7, <1>8, <1>14 DEF Loads, LoadWell, Deepest
<1> DEFINE e == Flush
<1>17. e.op = "FLUSH"
    BY DEF Flush
<1> HIDE DEF e
<1>18. q = [i \in 1 .. 4 |-> q[i]] /\ q[1] = o /\ q[2] = l /\ q[3] = g /\ q[4] = e
    BY <1>12 DEF e
<1>19. IsSequence(q) /\ Len(q) = 4
    BY <1>18, ListMade
<1>20. Led(q, 3, D)
    <2>1. Leads(q, 1, 3)
        <3>1. \A j \in 2 .. 2 : q[j].op \in Loads
            BY <1>16, <1>18
        <3> QED
            BY <1>13, <1>18, <3>1 DEF Leads
    <2>2. Pitched(q[1], q[3], D) /\ 1 \in 1 .. 3 - 1
        BY <1>15, <1>18
    <2> QED
        BY <2>1, <2>2 DEF Led
<1>21. ASSUME NEW i \in 1 .. 4
       PROVE  /\ q[i].op # "TILE"
              /\ q[i].op \in Loads => LoadWell(q[i]) /\ Deepest(q[i]) <= D
              /\ q[i].op = "GROUP" => Led(q, i, D)
              /\ q[i].op = "GROUP" => \E j \in 1 .. 4 : q[j].op \in Loads /\ Deepest(q[j]) = D
    <2>1. i = 1 \/ i = 2 \/ i = 3 \/ i = 4
        OBVIOUS
    <2>2. q[1].op = "OUT" /\ q[2].op \in Loads /\ q[3].op = "GROUP" /\ q[4].op = "FLUSH"
        BY <1>12, <1>13, <1>16, <1>17, <1>18
    <2>3. 2 \in 1 .. 4 /\ LoadWell(q[2]) /\ Deepest(q[2]) = D /\ Deepest(q[2]) <= D
        BY <1>6, <1>16, <1>18
    <2> QED
        BY <1>20, <2>1, <2>2, <2>3 DEF Loads
<1> QED
    BY <1>19, <1>21 DEF Sound, D

\* The program of a node of the wide GEMM.
LEMMA WideSound ==
    ASSUME NEW c \in Case, c.path = "wide", NEW n \in DOMAIN c.nodes
    PROVE  Sound(WideProgram(c, n), c.nodes[n])
<1>1. PICK len \in Nat :
        \E seqs : /\ WideProgram(c, n) = FlattenSeq(seqs) /\ seqs = [i \in 1 .. len |-> seqs[i]]
                  /\ \A i \in 1 .. len : OfWideTile(c, seqs[i])
    BY WideTilesMade
<1>2. PICK seqs : /\ WideProgram(c, n) = FlattenSeq(seqs) /\ seqs = [i \in 1 .. len |-> seqs[i]]
                  /\ \A i \in 1 .. len : OfWideTile(c, seqs[i])
    BY <1>1
<1>3. \A i \in 1 .. len : Sound(seqs[i], c.nodes[1])
    BY <1>2, WideTileSound
<1>4. Sound(FlattenSeq(seqs), c.nodes[1])
    BY <1>2, <1>3, SoundFlat
<1>5. c.nodes[n] = c.nodes[1]
    BY GoldenAssumption
<1> QED
    BY <1>2, <1>4, <1>5

\* Whatever the tiler, the depths and the row blocks: in every part a node runs, every
\* column group follows an OUT and loads, OUT's blocks are as wide as the rows of the
\* tile, and a load reaches the last stage of the node.
THEOREM PartsSound ==
    ASSUME NEW c \in Case, c.path # "bench", NEW n \in DOMAIN c.nodes
    PROVE  \E m \in Nat : /\ PartsOf(c)[n] = [k \in 1 .. m |-> PartsOf(c)[n][k]]
                          /\ \A k \in 1 .. m : Sound(PartsOf(c)[n][k], c.nodes[n])
<1> DEFINE q == PartsOf(c)[n]
<1>1. c.path \in {"load", "loadx", "wide"}
    BY CaseAssumption DEF CaseType
<1>2. CASE c.path = "wide"
    <2>1. q = <<WideProgram(c, n)>>
        BY <1>2 DEF PartsOf
    <2>2. q = [k \in 1 .. 1 |-> q[k]] /\ \A k \in 1 .. 1 : q[k] = WideProgram(c, n)
        BY <2>1
    <2>3. 1 \in Nat /\ Sound(WideProgram(c, n), c.nodes[n])
        BY <1>2, WideSound
    <2> HIDE DEF q
    <2>4. q = [k \in 1 .. 1 |-> q[k]] /\ \A k \in 1 .. 1 : Sound(q[k], c.nodes[n])
        BY <2>2, <2>3
    <2> QED
        BY <2>3, <2>4 DEF q
<1>3. CASE c.path \in {"load", "loadx"}
    <2> DEFINE words == Words0(c)
               blocks == RowBlocks(words, c)
               split == [k \in DOMAIN blocks |-> SplitChain(blocks[k], c.nodes)]
    <2>1. Tagged(words)
        BY CmdsLoadTagged, CmdsLoadXTagged DEF Words0
    <2>2. PartsOf(c) = SplitBlocks(blocks, c.nodes)
        BY <1>3 DEF PartsOf
    <2> HIDE DEF words
    <2>3. PICK m \in Nat : blocks = [k \in 1 .. m |-> blocks[k]] /\ \A k \in 1 .. m : Tagged(blocks[k])
        BY <2>1, BlocksTagged
    <2>4. q = [k \in DOMAIN blocks |-> split[k][n]]
        BY <2>2 DEF SplitBlocks
    <2> HIDE DEF blocks, q
    <2>5. DOMAIN blocks = 1 .. m
        BY <2>3, ListMade
    <2>6. ASSUME NEW k \in 1 .. m PROVE Sound(split[k][n], c.nodes[n])
        BY <2>3, <2>5, SplitSound
    <2> HIDE DEF split
    <2>7. q = [k \in 1 .. m |-> q[k]] /\ \A k \in 1 .. m : Sound(q[k], c.nodes[n])
        BY <2>4, <2>5, <2>6
    <2> QED
        BY <2>7 DEF q
<1> QED
    BY <1>1, <1>2, <1>3

(***************************************************************************)
(* Where the writer, the group and the loader are.                         *)
(***************************************************************************)
\* Rows of the column group that are not written yet, and the beats that are.
Remaining(n) == (cg[n].left + cg[n].m) + (IF st[n] = "run" THEN tile[n].left ELSE 0)
Made(n) == IF st[n] \in {"go", "run"} THEN (Cmd(n).T - Remaining(n)) * Cmd(n).P * Beats(n) ELSE 0

\* Up to a column group, loads and all, the writer is where the OUT before has put it.
From(o, beats) == [base |-> o.base, blk |-> o.blk, gap |-> o.gap, beats |-> beats]
WriterAt(n) ==
    ~Halted(n) /\ Cmd(n).op \in Loads \cup {"GROUP"} =>
        \A o \in 1 .. pc[n] - 1 : Leads(job.prog[n], o, pc[n]) => wr[n] = From(job.prog[n][o], Made(n))

\* The rows still to be loaded are the last of the group.
GroupAt(n) ==
    ~Halted(n) /\ Cmd(n).op = "GROUP" /\ st[n] \in {"go", "run"} =>
        /\ Remaining(n) <= Cmd(n).T
        /\ cg[n].left > 0 => cg[n].base = Cmd(n).base + (Cmd(n).T - cg[n].left) * Cmd(n).S

\* The loader is at the load of the command, or at rows of the group.
ArmOf(c) == Arm(c.base, c.first, c.nreg, c.nwords, c.nsegs, c.segStep, c.tgtStep, 0)
RowsFrom(c, l) ==
    \E r \in Nat : \E m \in Nat \ {0} : \E w \in Nat : r + m <= c.T /\ l = GroupLoad(c, c.base + r * c.S, m, w)
LoaderAt(n) ==
    ld[n].busy =>
        /\ ~Halted(n)
        /\ \/ Cmd(n).op \in Loads /\ ld[n] = ArmOf(Cmd(n))
           \/ Cmd(n).op = "GROUP" /\ st[n] \in {"go", "run"} /\ RowsFrom(Cmd(n), ld[n])

At(n) == WriterAt(n) /\ GroupAt(n) /\ LoaderAt(n)
AInv ==
    /\ IInv
    /\ wr = [n \in Node |-> wr[n]]
    /\ \A n \in Node : At(n)

\* A step of one node leaves the others where they are.
LEMMA OneAt ==
    ASSUME AInv, NEW n \in Node, Only(n), IInv', wr' = [wr EXCEPT ![n] = wr'[n]], At(n)'
    PROVE  AInv'
<1>1. job' = job /\ Node' = Node
    BY DEF Only, Node, gemm
<1>2. wr' = [k \in Node' |-> wr'[k]]
    BY <1>1 DEF AInv
<1>3. ASSUME NEW k \in Node PROVE At(k)'
    <2>1. CASE k # n
        <3>1. /\ pc'[k] = pc[k] /\ st'[k] = st[k] /\ ld'[k] = ld[k] /\ cg'[k] = cg[k] /\ tile'[k] = tile[k]
              /\ wr'[k] = wr[k]
            BY <2>1 DEF AInv, IInv, Shapes, Only
        <3>2. WriterAt(k) /\ GroupAt(k) /\ LoaderAt(k)
            BY DEF AInv, At
        <3>3. /\ Cmd(k)' = Cmd(k) /\ Halted(k)' = Halted(k) /\ Beats(k)' = Beats(k)
            BY <1>1, <3>1 DEF Cmd, Halted, Beats, gemm
        <3>4. Remaining(k)' = Remaining(k) /\ Made(k)' = Made(k)
            BY <3>1, <3>3 DEF Remaining, Made
        <3>5. WriterAt(k)'
            BY <1>1, <3>1, <3>2, <3>3, <3>4 DEF WriterAt
        <3>6. GroupAt(k)'
            BY <1>1, <3>1, <3>2, <3>3, <3>4 DEF GroupAt
        <3>7. LoaderAt(k)'
            BY <1>1, <3>1, <3>2, <3>3 DEF LoaderAt
        <3> QED
            BY <3>5, <3>6, <3>7 DEF At
    <2> QED
        BY <2>1
<1> QED
    BY <1>1, <1>2, <1>3 DEF AInv

\* What leads the next command: an OUT just run, or what leads the load before.
LEMMA NextLed ==
    ASSUME NEW words, NEW p \in Nat, NEW o \in 1 .. p, Leads(words, o, p + 1)
    PROVE  \/ o = p /\ words[p].op = "OUT"
           \/ o \in 1 .. p - 1 /\ words[p].op \in Loads /\ Leads(words, o, p)
<1>1. CASE o = p
    BY <1>1 DEF Leads
<1>2. CASE o # p
    <2>1. o \in 1 .. p - 1 /\ p \in o + 1 .. (p + 1) - 1
        BY <1>2
    <2>2. words[o].op = "OUT" /\ \A k \in o + 1 .. (p + 1) - 1 : words[k].op \in Loads
        BY DEF Leads
    <2>3. \A k \in o + 1 .. p - 1 : k \in o + 1 .. (p + 1) - 1
        OBVIOUS
    <2> QED
        BY <2>1, <2>2, <2>3 DEF Leads
<1> QED
    BY <1>1, <1>2

\* One row more is its beats more.
LEMMA RowMore ==
    ASSUME NEW x \in Int, NEW P \in Nat, NEW B \in Nat
    PROVE  (x + 1) * P * B = x * P * B + P * B
<1>1. (x + 1) * P = x * P + P
    <2>1. (x + 1) * P = (x * P) + (1 * P)
        BY Distribute
    <2>2. 1 * P = P
        OBVIOUS
    <2> QED
        BY <2>1, <2>2
<1> DEFINE y == x * P
<1>2. y \in Int
    OBVIOUS
<1> HIDE DEF y
<1>3. (y + P) * B = (y * B) + (P * B)
    BY <1>2, Distribute
<1> QED
    BY <1>1, <1>3 DEF y

\* The depth of a node, and the beats of its sums.
LEMMA BeatsOf ==
    ASSUME IInv, NEW n \in Node
    PROVE  gemm.nodes[n] \in Nat \ {0} /\ Beats(n) \in Nat
<1> DEFINE d == gemm.nodes[n]
<1>1. gemm \in Case
    BY Programs
<1>2. d \in Nat \ {0} /\ Cells \in Nat \ {0}
    <2>1. gemm.nodes \in Seq(Nat \ {0})
        BY <1>1, DepthsOf
    <2>2. \A i \in DOMAIN gemm.nodes : gemm.nodes[i] \in Nat \ {0}
        BY <2>1, SeqShape
    <2> QED
        BY <2>2, CaseAssumption DEF Node
<1> HIDE DEF d
<1> DEFINE k == d + Cells - 1
<1>3. k \in Nat
    BY <1>2
<1> HIDE DEF k
<1>4. k \div Cells \in Nat
    BY <1>2, <1>3, DivMod
<1> QED
    BY <1>2, <1>4 DEF Beats, UpDiv, d, k

\* OUT and FLUSH: what comes next is led by the OUT or by nothing.
LEMMA OutAt ==
    ASSUME AInv, NEW n \in Node, RunOut(n) \/ RunFlush(n)
    PROVE  AInv'
<1>1. IInv /\ At(n)
    BY DEF AInv
<1>2. /\ ~Halted(n) /\ st[n] = "fetch" /\ pc' = [pc EXCEPT ![n] = @ + 1]
      /\ UNCHANGED <<job, st, ld, bram, cg, tile, out>>
      /\ Cmd(n).op \notin Loads
      /\ \/ Cmd(n).op = "OUT" /\ wr' = [wr EXCEPT ![n] = From(Cmd(n), 0)]
         \/ Cmd(n).op = "FLUSH" /\ wr' = wr
    BY DEF RunOut, RunFlush, Fetch, NextCmd, From, Loads
<1>3. IInv'
    BY <1>1, OutStep
<1>4. Only(n) /\ pc'[n] = pc[n] + 1 /\ st'[n] = "fetch" /\ ~ld'[n].busy
    BY <1>1, <1>2 DEF IInv, Shapes, Only, NodeOK
<1>5. wr' = [wr EXCEPT ![n] = wr'[n]] /\ (Cmd(n).op = "OUT" => wr'[n] = From(Cmd(n), 0))
    BY <1>2 DEF AInv
<1>6. WriterAt(n)'
    <2>1. SUFFICES ASSUME NEW o \in 1 .. pc[n], Leads(job.prog[n], o, pc[n] + 1)
                   PROVE  wr'[n] = From(job.prog[n][o], 0)
        <3>1. pc[n] \in Nat
            BY <1>1, Programs
        <3>2. 1 .. pc'[n] - 1 = 1 .. pc[n] /\ job' = job
            BY <1>2, <1>4, <3>1
        <3>3. Made(n)' = 0
            BY <1>4 DEF Made
        <3> QED
            BY <1>4, <3>2, <3>3 DEF WriterAt
    <2>2. pc[n] \in Nat
        BY <1>1, Programs
    <2>3. o = pc[n] /\ job.prog[n][pc[n]].op = "OUT"
        BY <1>2, <2>1, <2>2, NextLed DEF Cmd
    <2> QED
        BY <1>5, <2>3 DEF Cmd
<1>7. GroupAt(n)' /\ LoaderAt(n)'
    BY <1>4 DEF GroupAt, LoaderAt
<1> QED
    BY <1>3, <1>4, <1>5, <1>6, <1>7, OneAt DEF At

\* A load begins: the writer is where it was.
LEMMA LoadAt ==
    ASSUME AInv, NEW n \in Node, RunLoad(n)
    PROVE  AInv'
<1>1. IInv /\ At(n)
    BY DEF AInv
<1>2. /\ ~Halted(n) /\ st[n] = "fetch" /\ Cmd(n).op \in Loads /\ st' = [st EXCEPT ![n] = "load"]
      /\ UNCHANGED <<job, pc, cg, tile, wr, out>>
      /\ StartLoad(n, ArmOf(Cmd(n)))
    BY DEF RunLoad, Fetch, Loads, ArmOf
<1>3. IInv'
    BY <1>1, LoadStep
<1>4. Only(n) /\ st'[n] = "load" /\ ld'[n] = ArmOf(Cmd(n))
    <2>1. ld'[n] = ArmOf(Cmd(n)) /\ ld' = [ld EXCEPT ![n] = ld'[n]] /\ bram' = [bram EXCEPT ![n] = bram'[n]]
        BY <1>1, <1>2, LoadFills
    <2> QED
        BY <1>1, <1>2, <2>1 DEF IInv, Shapes, Only
<1>5. wr' = [wr EXCEPT ![n] = wr'[n]]
    BY <1>2 DEF AInv
<1>6. Cmd(n)' = Cmd(n) /\ Halted(n)' = Halted(n)
    BY <1>2 DEF Cmd, Halted
<1>7. WriterAt(n)'
    <2>1. Made(n)' = 0 /\ Made(n) = 0
        BY <1>2, <1>4 DEF Made
    <2>2. WriterAt(n)
        BY <1>1 DEF At
    <2> QED
        BY <1>2, <1>6, <2>1, <2>2 DEF WriterAt
<1>8. GroupAt(n)'
    BY <1>4 DEF GroupAt
<1>9. LoaderAt(n)'
    BY <1>2, <1>4, <1>6 DEF LoaderAt
<1> QED
    BY <1>3, <1>4, <1>5, <1>7, <1>8, <1>9, OneAt DEF At

\* A single tile.
LEMMA TileAt ==
    ASSUME AInv, NEW n \in Node, RunTile(n)
    PROVE  AInv'
<1>1. IInv /\ At(n)
    BY DEF AInv
<1>2. /\ st[n] = "fetch" /\ Cmd(n).op = "TILE" /\ st' = [st EXCEPT ![n] = "run"]
      /\ tile' = [tile EXCEPT ![n] = tile'[n]]
      /\ UNCHANGED <<job, pc, ld, bram, cg, wr, out>>
    BY <1>1 DEF RunTile, Fetch, IInv, Shapes
<1>3. IInv'
    BY <1>1, TileStep
<1>4. Only(n) /\ ~ld'[n].busy
    BY <1>1, <1>2 DEF IInv, Shapes, Only, NodeOK
<1>5. wr' = [wr EXCEPT ![n] = wr'[n]]
    BY <1>2 DEF AInv
<1>6. Cmd(n)'.op = "TILE"
    BY <1>2 DEF Cmd
<1>7. WriterAt(n)' /\ GroupAt(n)' /\ LoaderAt(n)'
    BY <1>4, <1>6 DEF WriterAt, GroupAt, LoaderAt, Loads
<1> QED
    BY <1>3, <1>4, <1>5, <1>7, OneAt DEF At

\* A load ends; after the load of a command the next one is led by what led it.
LEMMA DoneAt ==
    ASSUME AInv, NEW n \in Node, LoadDone(n)
    PROVE  AInv'
<1>1. IInv /\ At(n)
    BY DEF AInv
<1>2. /\ ld[n].busy /\ ld' = [ld EXCEPT ![n] = NoLoad] /\ bram' = [bram EXCEPT ![n] = bram'[n]]
      /\ UNCHANGED <<job, cg, tile, wr, out>>
      /\ IF st[n] = "load" THEN st' = [st EXCEPT ![n] = "fetch"] /\ pc' = [pc EXCEPT ![n] = @ + 1]
                           ELSE UNCHANGED <<st, pc>>
    BY <1>1 DEF LoadDone, NextCmd, IInv, Shapes
<1>3. IInv'
    BY <1>1, DoneStep
<1>4. Only(n) /\ ~ld'[n].busy
    <2>1. NoLoad.busy = FALSE
        BY DEF NoLoad
    <2> QED
        BY <1>1, <1>2, <2>1 DEF IInv, Shapes, Only
<1>5. wr' = [wr EXCEPT ![n] = wr'[n]] /\ wr'[n] = wr[n]
    BY <1>2 DEF AInv
<1>6. LoaderAt(n)'
    BY <1>4 DEF LoaderAt
<1>7. CASE st[n] = "load"
    <2>1. st'[n] = "fetch" /\ pc'[n] = pc[n] + 1
        BY <1>1, <1>2, <1>7 DEF IInv, Shapes
    <2>2. pc[n] \in Nat /\ ~Halted(n) /\ Cmd(n).op \in Loads
        BY <1>1, <1>7, Programs DEF IInv, NodeOK
    <2>3. Made(n)' = 0 /\ Made(n) = 0
        BY <1>7, <2>1 DEF Made
    <2>4. WriterAt(n)'
        <3>1. SUFFICES ASSUME NEW o \in 1 .. pc[n], Leads(job.prog[n], o, pc[n] + 1)
                       PROVE  wr[n] = From(job.prog[n][o], 0)
            <4>1. 1 .. pc'[n] - 1 = 1 .. pc[n] /\ job' = job
                BY <1>2, <2>1, <2>2
            <4> QED
                BY <1>5, <2>1, <2>3, <4>1 DEF WriterAt
        <3>2. o \in 1 .. pc[n] - 1 /\ Leads(job.prog[n], o, pc[n])
            BY <2>2, <3>1, NextLed DEF Cmd, Loads
        <3> QED
            BY <1>1, <2>2, <2>3, <3>2 DEF At, WriterAt
    <2>5. GroupAt(n)'
        BY <2>1 DEF GroupAt
    <2> QED
        BY <1>3, <1>4, <1>5, <1>6, <2>4, <2>5, OneAt DEF At
<1>8. CASE st[n] # "load"
    <2>1. /\ Cmd(n)' = Cmd(n) /\ Halted(n)' = Halted(n) /\ Remaining(n)' = Remaining(n) /\ Beats(n)' = Beats(n)
        BY <1>2, <1>8 DEF Cmd, Halted, Remaining, Beats, gemm
    <2>2. Made(n)' = Made(n)
        BY <1>2, <1>8, <2>1 DEF Made
    <2>3. WriterAt(n)' /\ GroupAt(n)'
        BY <1>1, <1>2, <1>8, <2>1, <2>2 DEF At, WriterAt, GroupAt
    <2> QED
        BY <1>3, <1>4, <1>5, <1>6, <2>3, OneAt DEF At
<1> QED
    BY <1>7, <1>8

\* The next rows of a group, and what is left of it then.
LEMMA RowsNext ==
    ASSUME NEW c \in GroupCommands, NEW left \in Nat \ {0}, left <= c.T,
           NEW base, base = c.base + (c.T - left) * c.S, NEW w \in Nat
    PROVE  LET m == GroupRows(c, left)
           IN  /\ m \in 1 .. left /\ RowsFrom(c, GroupLoad(c, base, m, w))
               /\ left - m > 0 => base + c.M * c.S = c.base + (c.T - (left - m)) * c.S
<1> DEFINE m == GroupRows(c, left)
           T == c.T
           S == c.S
           M == c.M
           r == T - left
<1>1. T \in Nat \ {0} /\ S \in Nat \ {0} /\ M \in Nat \ {0} /\ c.base \in Nat /\ r \in Nat
    BY DEF GroupCommands
<1>2. m \in 1 .. left /\ (left - m > 0 => m = M)
    BY <1>1 DEF GroupRows, Least
<1>3. RowsFrom(c, GroupLoad(c, base, m, w))
    <2>1. base = c.base + r * c.S
        OBVIOUS
    <2>2. m \in Nat \ {0} /\ r + m <= T
        <3> HIDE DEF m, S, M
        <3> QED
            BY <1>1, <1>2
    <2> HIDE DEF m, r
    <2>3. r + m <= c.T /\ GroupLoad(c, base, m, w) = GroupLoad(c, c.base + r * c.S, m, w)
        BY <2>1, <2>2
    <2> HIDE DEF T
    <2> QED
        BY <1>1, <2>2, <2>3 DEF RowsFrom
<1>4. ASSUME left - m > 0 PROVE base + M * S = c.base + (T - (left - m)) * S
    <2> DEFINE x == r * S
               y == M * S
    <2>1. m = M
        BY <1>2, <1>4
    <2>2. T - (left - m) = r + M
        BY <1>1, <2>1
    <2> HIDE DEF r, m, S, T, M
    <2>3. (r + M) * S = x + y /\ x \in Nat /\ y \in Nat
        BY <1>1, Distribute
    <2>4. base = c.base + x
        BY DEF r, S, T
    <2> HIDE DEF x, y
    <2>5. base + y = c.base + (x + y)
        BY <1>1, <2>3, <2>4
    <2> QED
        BY <2>2, <2>3, <2>5 DEF y
<1> HIDE DEF m
<1> QED
    BY <1>2, <1>3, <1>4 DEF m

\* A column group begins: none of its rows is made, the first are loaded.
LEMMA GroupAtStep ==
    ASSUME AInv, NEW n \in Node, RunGroup(n)
    PROVE  AInv'
<1> DEFINE c == Cmd(n)
           m == GroupRows(c, c.T)
           g == [left |-> c.T - m, base |-> c.base + c.M * c.S, m |-> m, half |-> 0]
           l == GroupLoad(c, c.base, m, 0)
<1>1. IInv /\ At(n)
    BY DEF AInv
<1>2. /\ ~Halted(n) /\ c.op = "GROUP" /\ st[n] = "fetch" /\ st' = [st EXCEPT ![n] = "go"]
      /\ StartLoad(n, l) /\ cg' = [cg EXCEPT ![n] = g]
      /\ UNCHANGED <<job, pc, tile, wr, out>>
    BY DEF RunGroup, Fetch
<1>3. c \in GroupCommands
    BY <1>1, <1>2, Programs DEF Fits
<1>4. /\ m \in 1 .. c.T /\ RowsFrom(c, l) /\ c.T \in Nat \ {0}
      /\ c.T - m > 0 => c.base + c.M * c.S = c.base + (c.T - (c.T - m)) * c.S
    <2> DEFINE T == c.T
               S == c.S
               base == c.base
    <2>1. T \in Nat \ {0} /\ T <= c.T /\ S \in Nat /\ base \in Nat /\ 0 \in Nat
        BY <1>3 DEF GroupCommands
    <2>2. base = c.base + (c.T - T) * c.S
        <3>1. (c.T - T) * c.S = 0
            BY <2>1
        <3> QED
            BY <2>1, <3>1
    <2> HIDE DEF c, T, base
    <2>3. LET k == GroupRows(c, T)
          IN  /\ k \in 1 .. T /\ RowsFrom(c, GroupLoad(c, base, k, 0))
              /\ T - k > 0 => base + c.M * c.S = c.base + (c.T - (T - k)) * c.S
        BY <1>3, <2>1, <2>2, RowsNext
    <2> QED
        BY <2>1, <2>3 DEF T, base
<1> HIDE DEF m, l, c
<1>5. IInv'
    BY <1>1, GroupStep
<1>6. Only(n) /\ st'[n] = "go" /\ cg'[n] = g /\ ld'[n] = l
    <2> HIDE DEF g
    <2>1. ld'[n] = l /\ ld' = [ld EXCEPT ![n] = ld'[n]] /\ bram' = [bram EXCEPT ![n] = bram'[n]]
        BY <1>1, <1>2, LoadFills
    <2> QED
        BY <1>1, <1>2, <2>1 DEF IInv, Shapes, Only
<1>7. wr' = [wr EXCEPT ![n] = wr'[n]] /\ wr'[n] = wr[n]
    BY <1>2 DEF AInv
<1>8. Cmd(n)' = c /\ c = Cmd(n) /\ Halted(n)' = Halted(n) /\ pc' = pc /\ job' = job
    BY <1>2 DEF Cmd, Halted, c
<1>9. Remaining(n)' = c.T
    <2> DEFINE T == c.T
    <2>1. cg'[n].left = T - m /\ cg'[n].m = m /\ st'[n] = "go"
        BY <1>6
    <2>2. T \in Nat /\ m \in Int
        BY <1>4
    <2> HIDE DEF T
    <2>3. ((T - m) + m) + 0 = T
        BY <2>2
    <2> QED
        BY <2>1, <2>3 DEF Remaining, T
<1>10. Made(n)' = 0 /\ Made(n) = 0
    <2> DEFINE P == c.P
               B == Beats(n)
    <2>1. Made(n) = 0 /\ Made(n)' = (c.T - c.T) * P * B
        <3>1. Beats(n)' = B
            BY <1>8 DEF Beats, gemm
        <3> QED
            BY <1>2, <1>6, <1>8, <1>9, <3>1 DEF Made
    <2>2. c.T - c.T = 0
        BY <1>4
    <2>3. P \in Nat /\ B \in Nat
        BY <1>1, <1>3, BeatsOf DEF GroupCommands
    <2> HIDE DEF P, B
    <2>4. 0 * P * B = 0
        BY <2>3
    <2> QED
        BY <2>1, <2>2, <2>4
<1>11. WriterAt(n)'
    <2>1. WriterAt(n)
        BY <1>1 DEF At
    <2> QED
        BY <1>2, <1>7, <1>8, <1>10, <2>1 DEF WriterAt
<1>12. GroupAt(n)'
    <2>1. c.T <= c.T
        BY <1>4
    <2> QED
        BY <1>4, <1>6, <1>8, <1>9, <2>1 DEF GroupAt
<1>13. LoaderAt(n)'
    BY <1>2, <1>4, <1>6, <1>8 DEF LoaderAt
<1> QED
    BY <1>5, <1>6, <1>7, <1>11, <1>12, <1>13, OneAt DEF At

\* Loaded rows begin to run: as many as before are to be made.
LEMMA StartAt ==
    ASSUME AInv, NEW n \in Node, StartTile(n)
    PROVE  AInv'
<1> DEFINE c == Cmd(n)
           g == cg[n]
           m == GroupRows(c, g.left)
           other == HalfFeeder - g.half
           l == GroupLoad(c, g.base, m, other)
           next == [left |-> g.left - m, base |-> g.base + c.M * c.S, m |-> m, half |-> other]
           t == [act |-> g.half, wt |-> c.wt, W |-> c.W, M |-> g.m, P |-> c.P, G |-> c.G, left |-> g.m]
<1>1. IInv /\ At(n)
    BY DEF AInv
<1>2. /\ st[n] = "go" /\ ~ld[n].busy /\ tile' = [tile EXCEPT ![n] = t]
      /\ st' = [st EXCEPT ![n] = "run"]
      /\ IF c.db /\ g.left > 0 THEN StartLoad(n, l) /\ cg' = [cg EXCEPT ![n] = next]
         ELSE cg' = [cg EXCEPT ![n].m = 0] /\ UNCHANGED <<ld, bram>>
      /\ UNCHANGED <<job, pc, wr, out>>
    BY DEF StartTile, HalfFeeder
<1>3. /\ ~Halted(n) /\ c.op = "GROUP" /\ c \in GroupCommands
      /\ g.left \in Nat /\ g.m \in Nat /\ g.half \in {0, HalfFeeder} /\ HalfFeeder \in Nat
    <2>1. ~Halted(n) /\ c.op = "GROUP" /\ c \in GroupCommands /\ g \in Groups(c)
        BY <1>1, <1>2, Programs DEF IInv, NodeOK, GroupReady, Fits
    <2>2. HalfFeeder \in Nat
        BY CaseAssumption DEF HalfFeeder
    <2> QED
        BY <2>1, <2>2 DEF Groups
<1>4. /\ Remaining(n) = g.left + g.m /\ Remaining(n) <= c.T
      /\ g.left > 0 => g.base = c.base + (c.T - g.left) * c.S
    <2>1. Remaining(n) = (g.left + g.m) + 0
        BY <1>2 DEF Remaining
    <2>2. GroupAt(n)
        BY <1>1 DEF At
    <2> QED
        BY <1>2, <1>3, <2>1, <2>2 DEF GroupAt
<1>5. IInv'
    BY <1>1, StartStep
<1>6. c.T \in Nat
    BY <1>3 DEF GroupCommands
<1>7. ASSUME g.left > 0
      PROVE  /\ m \in 1 .. g.left /\ RowsFrom(c, l)
             /\ g.left - m > 0 => g.base + c.M * c.S = c.base + (c.T - (g.left - m)) * c.S
    <2> DEFINE left == g.left
               base == g.base
    <2>1. left \in Nat \ {0} /\ left <= c.T /\ base = c.base + (c.T - left) * c.S
        BY <1>3, <1>4, <1>6, <1>7
    <2>2. other \in Nat
        BY <1>3
    <2> HIDE DEF left, base, other, c
    <2>3. LET k == GroupRows(c, left)
          IN  /\ k \in 1 .. left /\ RowsFrom(c, GroupLoad(c, base, k, other))
              /\ left - k > 0 => base + c.M * c.S = c.base + (c.T - (left - k)) * c.S
        BY <1>3, <2>1, <2>2, RowsNext
    <2> QED
        BY <2>3 DEF left, base
<1>8. tile'[n].left = g.m /\ st'[n] = "run" /\ tile' = [tile EXCEPT ![n] = tile'[n]] /\ st' = [st EXCEPT ![n] = st'[n]]
    BY <1>1, <1>2 DEF IInv, Shapes
<1> HIDE DEF t, m, l, other, c
<1>9. /\ ld' = [ld EXCEPT ![n] = ld'[n]] /\ bram' = [bram EXCEPT ![n] = bram'[n]] /\ cg' = [cg EXCEPT ![n] = cg'[n]]
      /\ \/ c.db /\ g.left > 0 /\ ld'[n] = l /\ cg'[n] = next
         \/ ~(c.db /\ g.left > 0) /\ ld' = ld /\ cg'[n] = [g EXCEPT !.m = 0]
    <2>1. CASE c.db /\ g.left > 0
        <3>1. ld'[n] = l /\ ld' = [ld EXCEPT ![n] = ld'[n]] /\ bram' = [bram EXCEPT ![n] = bram'[n]]
            BY <1>1, <1>2, <2>1, LoadFills
        <3> HIDE DEF next
        <3>2. cg'[n] = next /\ cg' = [cg EXCEPT ![n] = cg'[n]]
            BY <1>1, <1>2, <2>1 DEF IInv, Shapes
        <3> QED
            BY <2>1, <3>1, <3>2
    <2>2. CASE ~(c.db /\ g.left > 0)
        <3>1. cg' = [cg EXCEPT ![n].m = 0] /\ UNCHANGED <<ld, bram>>
            BY <1>2, <2>2
        <3> QED
            BY <1>1, <2>2, <3>1 DEF IInv, Shapes
    <2> QED
        BY <2>1, <2>2
<1>10. Only(n)
    BY <1>1, <1>2, <1>8, <1>9 DEF Only, IInv, Shapes
<1>11. wr' = [wr EXCEPT ![n] = wr'[n]] /\ wr'[n] = wr[n]
    BY <1>2 DEF AInv
<1>12. Cmd(n)' = c /\ c = Cmd(n) /\ Halted(n)' = Halted(n) /\ pc' = pc /\ job' = job /\ Beats(n)' = Beats(n)
    BY <1>2 DEF Cmd, Halted, Beats, gemm, c
<1>13. /\ Remaining(n)' = Remaining(n)
       /\ cg'[n].left > 0 => cg'[n].base = c.base + (c.T - cg'[n].left) * c.S
    <2>1. Remaining(n)' = (cg'[n].left + cg'[n].m) + g.m
        BY <1>8 DEF Remaining
    <2>2. CASE c.db /\ g.left > 0 /\ ld'[n] = l /\ cg'[n] = next
        <3>1. cg'[n].left = g.left - m /\ cg'[n].m = m /\ cg'[n].base = g.base + c.M * c.S
            BY <2>2
        <3>2. m \in Nat
            BY <1>7, <2>2
        <3>3. ((g.left - m) + m) + g.m = g.left + g.m
            BY <1>3, <3>2
        <3> QED
            BY <1>4, <1>7, <2>1, <2>2, <3>1, <3>3
    <2>3. CASE cg'[n] = [g EXCEPT !.m = 0]
        <3>0. g \in Groups(c)
            BY <1>1, <1>2 DEF IInv, NodeOK, GroupReady, c
        <3>1. cg'[n].left = g.left /\ cg'[n].m = 0 /\ cg'[n].base = g.base
            BY <2>3, <3>0 DEF Groups
        <3>3. (g.left + 0) + g.m = g.left + g.m
            BY <1>3
        <3> QED
            BY <1>4, <2>1, <3>1, <3>3
    <2> QED
        BY <1>9, <2>2, <2>3
<1>14. Made(n)' = Made(n)
    BY <1>2, <1>8, <1>12, <1>13 DEF Made
<1>15. WriterAt(n)'
    <2>1. WriterAt(n)
        BY <1>1 DEF At
    <2> QED
        BY <1>11, <1>12, <1>14, <2>1 DEF WriterAt
<1>16. GroupAt(n)'
    BY <1>4, <1>8, <1>12, <1>13 DEF GroupAt
<1>17. LoaderAt(n)'
    <2>1. CASE g.left > 0 /\ ld'[n] = l
        BY <1>3, <1>7, <1>8, <1>12, <2>1 DEF LoaderAt
    <2>2. CASE ld' = ld
        BY <1>2, <2>2 DEF LoaderAt
    <2> QED
        BY <1>9, <2>1, <2>2
<1> QED
    BY <1>5, <1>10, <1>11, <1>15, <1>16, <1>17, OneAt DEF At

\* A row is made: the writer is its beats further on.
LEMMA RowAt ==
    ASSUME AInv, NEW n \in Node, RunRow(n)
    PROVE  AInv'
<1> DEFINE c == Cmd(n)
           g == cg[n]
           t == tile[n]
<1>1. IInv /\ At(n)
    BY DEF AInv
<1>2. /\ st[n] = "run" /\ job' = job /\ tile' = [tile EXCEPT ![n].left = @ - 1]
      /\ wr' = [wr EXCEPT ![n].beats = @ + t.P * Beats(n)]
      /\ ToRow(n) \/ ToCommand(n) \/ ToGroup(n) \/ ToRows(n)
    BY <1>1, RowCases
<1>3. /\ ~Halted(n) /\ TileRuns(n) /\ Fits(c) /\ c.op \in {"TILE", "GROUP"}
      /\ t.left \in Nat /\ t.P = c.P /\ pc[n] \in Nat
      /\ t \in [act : Nat, wt : Nat, W : {c.W}, M : 1 .. c.M, P : {c.P}, G : Nat, left : 1 .. t.M]
    BY <1>1, <1>2, TileInRange, Programs DEF TileRuns
<1>4. c.op = "GROUP" => /\ c \in GroupCommands /\ c.T \in Nat /\ c.P \in Nat
                        /\ g \in Groups(c) /\ g.left \in Nat /\ g.m \in Nat
    BY <1>3 DEF TileRuns, Fits, Groups, GroupCommands
<1>5. IInv'
    BY <1>1, <1>2, RowStep
<1>6. /\ tile' = [tile EXCEPT ![n] = tile'[n]] /\ tile'[n].left = t.left - 1
      /\ wr' = [wr EXCEPT ![n] = wr'[n]] /\ wr'[n] = [wr[n] EXCEPT !.beats = @ + t.P * Beats(n)]
    BY <1>1, <1>2, <1>3 DEF IInv, Shapes, AInv
<1>7. Beats(n)' = Beats(n) /\ Beats(n) \in Nat
    BY <1>1, <1>2, BeatsOf DEF Beats, gemm
<1> HIDE DEF t
<1>8. ASSUME pc' = pc, c.op = "GROUP", st'[n] \in {"go", "run"}, Remaining(n)' = Remaining(n) - 1,
             Remaining(n) \in Int
      PROVE  WriterAt(n)'
    <2>1. Cmd(n)' = c /\ c = Cmd(n) /\ Halted(n)' = Halted(n)
        BY <1>2, <1>8 DEF Cmd, Halted
    <2>2. WriterAt(n)
        BY <1>1 DEF At
    <2>3. SUFFICES ASSUME NEW o \in 1 .. pc[n] - 1, Leads(job.prog[n], o, pc[n])
                   PROVE  wr'[n] = From(job.prog[n][o], Made(n)')
        BY <1>2, <1>8 DEF WriterAt
    <2>4. wr[n] = From(job.prog[n][o], Made(n))
        BY <1>3, <1>8, <2>2, <2>3 DEF WriterAt
    <2>5. wr'[n] = From(job.prog[n][o], Made(n) + t.P * Beats(n))
        BY <1>6, <2>4 DEF From
    <2> DEFINE P == c.P
               B == Beats(n)
               R == Remaining(n)
               x == c.T - R
               y == c.T - (R - 1)
    <2>6. Made(n) = x * P * B /\ Made(n)' = y * P * B
        BY <1>2, <1>7, <1>8, <2>1 DEF Made
    <2>7. x \in Int /\ y = x + 1 /\ P \in Nat /\ B \in Nat
        BY <1>4, <1>7, <1>8
    <2> HIDE DEF P, B, x, y, R
    <2>8. y * P * B = x * P * B + P * B
        BY <2>7, RowMore
    <2>9. P * B = t.P * Beats(n)
        BY <1>3 DEF P, B
    <2> QED
        BY <2>5, <2>6, <2>8, <2>9
<1>9. c.op = "GROUP" =>
        /\ Remaining(n) = (g.left + g.m) + t.left /\ Remaining(n) <= c.T /\ Remaining(n) \in Int
        /\ g.left > 0 => g.base = c.base + (c.T - g.left) * c.S
    <2>1. Remaining(n) = (g.left + g.m) + t.left
        BY <1>2 DEF Remaining, t
    <2>2. GroupAt(n)
        BY <1>1 DEF At
    <2>3. c.op = "GROUP" => Remaining(n) \in Int
        BY <1>3, <1>4, <2>1
    <2> QED
        BY <1>2, <1>3, <2>1, <2>2, <2>3 DEF GroupAt
<1>10. CASE ToRow(n)
    <2>1. pc' = pc /\ st' = st /\ cg' = cg /\ ld' = ld /\ bram' = bram
        BY <1>10 DEF ToRow
    <2>2. Only(n)
        BY <1>1, <1>2, <1>6, <2>1 DEF Only, IInv, Shapes
    <2>3. Cmd(n)' = c /\ c = Cmd(n) /\ Halted(n)' = Halted(n)
        BY <1>2, <2>1 DEF Cmd, Halted
    <2>4. c.op = "GROUP" => Remaining(n)' = Remaining(n) - 1
        <3>1. Remaining(n)' = (g.left + g.m) + (t.left - 1)
            BY <1>2, <1>6, <2>1 DEF Remaining
        <3> QED
            BY <1>3, <1>4, <1>9, <3>1
    <2>5. WriterAt(n)'
        <3>1. CASE c.op = "GROUP"
            BY <1>2, <1>8, <1>9, <2>1, <2>4, <3>1
        <3>2. CASE c.op = "TILE"
            BY <2>3, <3>2 DEF WriterAt, Loads
        <3> QED
            BY <1>3, <3>1, <3>2
    <2>6. GroupAt(n)'
        <3>1. c.op = "GROUP" => Remaining(n)' <= c.T
            BY <1>4, <1>9, <2>4
        <3> QED
            BY <1>9, <2>1, <2>3, <3>1 DEF GroupAt
    <2>7. LoaderAt(n)'
        <3>1. LoaderAt(n)
            BY <1>1 DEF At
        <3> QED
            BY <2>1, <2>3, <3>1 DEF LoaderAt
    <2> QED
        BY <1>5, <1>6, <2>2, <2>5, <2>6, <2>7, OneAt DEF At
<1>11. CASE ToCommand(n)
    <2>1. /\ pc' = [pc EXCEPT ![n] = @ + 1] /\ st' = [st EXCEPT ![n] = "fetch"] /\ cg' = cg /\ ld' = ld /\ bram' = bram
          /\ c.op = "TILE" \/ (c.op = "GROUP" /\ ~(g.m > 0))
        BY <1>11 DEF ToCommand
    <2>2. Only(n) /\ pc'[n] = pc[n] + 1 /\ st'[n] = "fetch"
        BY <1>1, <1>2, <1>6, <2>1 DEF Only, IInv, Shapes
    <2>3. ~ld'[n].busy
        BY <1>3, <1>4, <2>1 DEF TileRuns
    <2>4. WriterAt(n)'
        <3>1. SUFFICES ASSUME NEW o \in 1 .. pc[n], Leads(job.prog[n], o, pc[n] + 1) PROVE FALSE
            <4>1. 1 .. pc'[n] - 1 = 1 .. pc[n]
                BY <1>3, <2>2
            <4> QED
                BY <1>2, <2>2, <4>1 DEF WriterAt
        <3>2. job.prog[n][pc[n]].op = "OUT" \/ job.prog[n][pc[n]].op \in Loads
            BY <1>3, <3>1, NextLed
        <3> QED
            BY <1>3, <3>2 DEF Cmd, Loads
    <2>5. GroupAt(n)' /\ LoaderAt(n)'
        BY <2>2, <2>3 DEF GroupAt, LoaderAt
    <2> QED
        BY <1>5, <1>6, <2>2, <2>4, <2>5, OneAt DEF At
<1>12. CASE ToGroup(n)
    <2>1. /\ pc' = pc /\ st' = [st EXCEPT ![n] = "go"] /\ cg' = cg /\ ld' = ld /\ bram' = bram
          /\ t.left = 1 /\ c.op = "GROUP"
        BY <1>12 DEF ToGroup, t
    <2>2. Only(n) /\ st'[n] = "go"
        BY <1>1, <1>2, <1>6, <2>1 DEF Only, IInv, Shapes
    <2>3. Cmd(n)' = c /\ c = Cmd(n) /\ Halted(n)' = Halted(n)
        BY <1>2, <2>1 DEF Cmd, Halted
    <2>4. Remaining(n)' = Remaining(n) - 1
        <3>1. Remaining(n)' = (g.left + g.m) + 0
            BY <2>1, <2>2 DEF Remaining
        <3> QED
            BY <1>4, <1>9, <2>1, <3>1
    <2>5. WriterAt(n)'
        BY <1>8, <1>9, <2>1, <2>2, <2>4
    <2>6. GroupAt(n)'
        <3>1. Remaining(n)' <= c.T
            BY <1>4, <1>9, <2>1, <2>4
        <3> QED
            BY <1>9, <2>1, <2>3, <3>1 DEF GroupAt
    <2>7. LoaderAt(n)'
        <3>1. LoaderAt(n)
            BY <1>1 DEF At
        <3> QED
            BY <2>1, <2>2, <2>3, <3>1 DEF LoaderAt, Loads
    <2> QED
        BY <1>5, <1>6, <2>2, <2>5, <2>6, <2>7, OneAt DEF At
<1>13. CASE ToRows(n)
    <2> DEFINE m == GroupRows(c, g.left)
               l == GroupLoad(c, g.base, m, 0)
               next == [left |-> g.left - m, base |-> g.base + c.M * c.S, m |-> m, half |-> 0]
    <2>1. /\ pc' = pc /\ st' = [st EXCEPT ![n] = "go"] /\ cg' = [cg EXCEPT ![n] = next] /\ StartLoad(n, l)
          /\ t.left = 1 /\ c.op = "GROUP" /\ g.m = 0 /\ g.left > 0
        BY <1>13 DEF ToRows, t
    <2>2. /\ m \in 1 .. g.left /\ RowsFrom(c, l)
          /\ g.left - m > 0 => g.base + c.M * c.S = c.base + (c.T - (g.left - m)) * c.S
        <3> DEFINE left == g.left
                   base == g.base
        <3>1. left \in Nat \ {0} /\ left <= c.T /\ base = c.base + (c.T - left) * c.S /\ c \in GroupCommands /\ 0 \in Nat
            BY <1>3, <1>4, <1>9, <2>1
        <3> HIDE DEF left, base, c
        <3>2. LET k == GroupRows(c, left)
              IN  /\ k \in 1 .. left /\ RowsFrom(c, GroupLoad(c, base, k, 0))
                  /\ left - k > 0 => base + c.M * c.S = c.base + (c.T - (left - k)) * c.S
            BY <3>1, RowsNext
        <3> QED
            BY <3>2 DEF left, base
    <2> HIDE DEF m, l, c
    <2>3. Only(n) /\ st'[n] = "go" /\ cg'[n] = next /\ ld'[n] = l
        <3> HIDE DEF next
        <3>1. ld'[n] = l /\ ld' = [ld EXCEPT ![n] = ld'[n]] /\ bram' = [bram EXCEPT ![n] = bram'[n]]
            BY <1>1, <2>1, LoadFills
        <3> QED
            BY <1>1, <1>2, <1>6, <2>1, <3>1 DEF Only, IInv, Shapes
    <2>4. Cmd(n)' = c /\ c = Cmd(n) /\ Halted(n)' = Halted(n)
        BY <1>2, <2>1 DEF Cmd, Halted, c
    <2>5. Remaining(n)' = Remaining(n) - 1
        <3>1. Remaining(n)' = ((g.left - m) + m) + 0
            BY <2>3 DEF Remaining
        <3>2. m \in Int
            BY <2>2
        <3> QED
            BY <1>4, <1>9, <2>1, <3>1, <3>2
    <2>6. WriterAt(n)'
        BY <1>8, <1>9, <2>1, <2>3, <2>5
    <2>7. GroupAt(n)'
        <3>1. Remaining(n)' <= c.T
            BY <1>4, <1>9, <2>1, <2>5
        <3> QED
            BY <2>2, <2>3, <2>4, <3>1 DEF GroupAt
    <2>8. LoaderAt(n)'
        BY <1>3, <2>1, <2>2, <2>3, <2>4 DEF LoaderAt
    <2> QED
        BY <1>5, <1>6, <2>3, <2>6, <2>7, <2>8, OneAt DEF At
<1> QED
    BY <1>2, <1>10, <1>11, <1>12, <1>13

\* At first no command has been run.
LEMMA AtFirst ==
    ASSUME Init
    PROVE  AInv
<1>1. IInv
    BY Initially
<1>2. wr = [n \in Node |-> wr[n]]
    BY DEF Init
<1>3. ASSUME NEW n \in Node PROVE At(n)
    <2>1. pc[n] = 1 /\ st[n] = "fetch" /\ ld[n].busy = FALSE
        BY DEF Init, NoLoad
    <2>2. 1 .. 1 - 1 = {}
        OBVIOUS
    <2>3. WriterAt(n)
        BY <2>1, <2>2 DEF WriterAt
    <2> QED
        BY <2>1, <2>3 DEF At, GroupAt, LoaderAt
<1> QED
    BY <1>1, <1>2, <1>3 DEF AInv

\* Nothing changes.
LEMMA IdleAt ==
    ASSUME AInv, UNCHANGED vars
    PROVE  AInv'
<1>1. /\ job' = job /\ pc' = pc /\ st' = st /\ ld' = ld /\ bram' = bram
      /\ cg' = cg /\ tile' = tile /\ wr' = wr /\ gemm' = gemm /\ Node' = Node
    BY DEF vars, gemm, Node
<1>2. IInv'
    BY Idle DEF AInv
<1>3. ASSUME NEW n \in Node PROVE At(n)'
    <2>1. WriterAt(n) /\ GroupAt(n) /\ LoaderAt(n)
        BY DEF AInv, At
    <2>2. /\ Cmd(n)' = Cmd(n) /\ Halted(n)' = Halted(n) /\ Beats(n)' = Beats(n) /\ Remaining(n)' = Remaining(n)
        BY <1>1 DEF Cmd, Halted, Beats, Remaining
    <2>3. Made(n)' = Made(n)
        BY <1>1, <2>2 DEF Made
    <2> QED
        BY <1>1, <2>1, <2>2, <2>3 DEF At, WriterAt, GroupAt, LoaderAt
<1> QED
    BY <1>1, <1>2, <1>3 DEF AInv

\* Whatever the programs: up to and in a column group the result writer is where the OUT
\* before has put it and as far on as rows are made, and the loader is at the load of
\* the command or at rows of the group.
THEOREM WhereTheyAre == Spec => []AInv
<1>1. Init => AInv
    BY AtFirst
<1>2. AInv /\ [Next]_vars => AInv'
    <2>1. SUFFICES ASSUME AInv, [Next]_vars
                   PROVE  AInv'
        OBVIOUS
    <2>2. CASE UNCHANGED vars
        BY <2>1, <2>2, IdleAt
    <2>3. CASE Terminated
        BY <2>1, <2>3, IdleAt DEF Terminated
    <2>4. ASSUME NEW n \in Node,
                 RunOut(n) \/ RunFlush(n) \/ RunLoad(n) \/ RunTile(n) \/ RunGroup(n)
                     \/ LoadDone(n) \/ StartTile(n) \/ RunRow(n)
          PROVE  AInv'
        <3>1. CASE RunOut(n) \/ RunFlush(n)
            BY <2>1, <3>1, OutAt
        <3>2. CASE RunLoad(n)
            BY <2>1, <3>2, LoadAt
        <3>3. CASE RunTile(n)
            BY <2>1, <3>3, TileAt
        <3>4. CASE RunGroup(n)
            BY <2>1, <3>4, GroupAtStep
        <3>5. CASE LoadDone(n)
            BY <2>1, <3>5, DoneAt
        <3>6. CASE StartTile(n)
            BY <2>1, <3>6, StartAt
        <3>7. CASE RunRow(n)
            BY <2>1, <3>7, RowAt
        <3> QED
            BY <2>4, <3>1, <3>2, <3>3, <3>4, <3>5, <3>6, <3>7
    <2> QED
        BY <2>1, <2>2, <2>3, <2>4 DEF Next
<1> QED
    BY <1>1, <1>2, PTL DEF Spec

(***************************************************************************)
(* The access ranges.                                                      *)
(***************************************************************************)
\* The part a node is at, and where in it.
LEMMA PartAtWork ==
    ASSUME IInv, gemm.path # "bench", NEW n \in Node, ~Halted(n)
    PROVE  \E words : \E b \in Nat :
             /\ Sound(words, gemm.nodes[n]) /\ pc[n] - b \in 1 .. Len(words)
             /\ AccessAt(n).reads = ChainReads(words) /\ AccessAt(n).writes = ChainWrites(words)
             /\ \A j \in 1 .. Len(words) : job.prog[n][b + j] = words[j]
<1>1. PICK c \in Case : job = Job(c)
    BY DEF IInv
<1>2. gemm = c
    BY <1>1 DEF gemm, Job, JobOf
<1> DEFINE parts == PartsOf(c)[n]
           all == FlattenSeq(parts)
           from(k) == Total([j \in 1 .. k - 1 |-> Len(parts[j])])
           acc == [k \in DOMAIN parts |-> [cmds |-> Len(parts[k]), reads |-> ChainReads(parts[k]), writes |-> ChainWrites(parts[k])]]
<1>3. job.prog[n] = all /\ job.access[n] = acc
    BY <1>1, <1>2 DEF Job, JobOf, Node
<1>4. PICK m \in Nat : parts = [k \in 1 .. m |-> parts[k]] /\ \A k \in 1 .. m : Sound(parts[k], c.nodes[n])
    BY <1>2, PartsSound DEF Node
<1>5. pc[n] \in Nat \ {0} /\ pc[n] <= Len(all) /\ Len(all) \in Nat
    <2>1. Len(job.prog[n]) \in Nat /\ pc[n] \in 1 .. Len(job.prog[n]) + 1 /\ ~(pc[n] > Len(job.prog[n]))
        BY Programs DEF Halted
    <2> HIDE DEF all
    <2> QED
        BY <1>3, <2>1
<1> HIDE DEF parts
<1>6. m \in Nat \ {0}
    <2>1. ASSUME m = 0 PROVE FALSE
        <3>1. parts = [k \in 1 .. 0 |-> parts[k]]
            BY <1>4, <2>1
        <3>2. all = <<>>
            BY <3>1, FlattenNone
        <3>3. Len(all) = 0
            BY <3>2
        <3> HIDE DEF all
        <3> QED
            BY <1>5, <3>3
    <2> QED
        BY <2>1
<1>7. PICK S : parts \in Seq(Seq(S)) /\ Len(parts) = m
    <2>1. \A k \in 1 .. m : IsSequence(parts[k])
        BY <1>4 DEF Sound
    <2> QED
        BY <1>4, <2>1, ListsOver
<1>8. /\ \A k \in 1 .. m : /\ from(k) \in Nat /\ from(k + 1) = from(k) + Len(parts[k])
                           /\ \A j \in 1 .. Len(parts[k]) : all[from(k) + j] = parts[k][j]
      /\ \A i \in 1 .. Len(all) : \E k \in 1 .. m : from(k) < i /\ i <= from(k + 1)
    <2>1. Len(parts) # 0
        BY <1>6, <1>7
    <2> QED
        BY <1>7, <2>1, PartsAt
<1>9. DOMAIN parts = 1 .. m /\ DOMAIN acc = 1 .. m
    BY <1>4, ListMade
<1>10. ASSUME NEW k \in 1 .. m + 1 PROVE Before(n, k) = from(k)
    <2>1. \A j \in 1 .. k - 1 : job.access[n][j].cmds = Len(parts[j])
        <3>1. \A j \in 1 .. k - 1 : j \in 1 .. m
            BY <1>4
        <3> QED
            BY <1>3, <1>9, <3>1
    <2>2. [j \in 1 .. k - 1 |-> job.access[n][j].cmds] = [j \in 1 .. k - 1 |-> Len(parts[j])]
        BY <2>1
    <2> QED
        BY <2>2 DEF Before
<1> HIDE DEF from, all
<1> DEFINE Is(k) == Before(n, k) < pc[n] /\ pc[n] <= Before(n, k + 1)
           K == CHOOSE k \in 1 .. m : Is(k)
<1>11. \A k \in 1 .. m : Is(k) <=> from(k) < pc[n] /\ pc[n] <= from(k + 1)
    <2>1. \A k \in 1 .. m : k \in 1 .. m + 1 /\ k + 1 \in 1 .. m + 1
        BY <1>4
    <2> QED
        BY <1>10, <2>1
<1> HIDE DEF Is
<1>12. \E k \in 1 .. m : Is(k)
    <2>1. pc[n] \in 1 .. Len(all)
        BY <1>5
    <2> QED
        BY <1>8, <1>11, <2>1
<1>13. K \in 1 .. m /\ Is(K)
    BY <1>12
<1>14. AccessAt(n) = acc[K]
    BY <1>3, <1>9 DEF AccessAt, Is
<1> HIDE DEF K
<1> DEFINE words == parts[K]
           b == from(K)
<1>15. AccessAt(n).reads = ChainReads(words) /\ AccessAt(n).writes = ChainWrites(words)
    BY <1>9, <1>13, <1>14
<1>16. b \in Nat /\ Sound(words, gemm.nodes[n]) /\ \A j \in 1 .. Len(words) : job.prog[n][b + j] = words[j]
    BY <1>2, <1>3, <1>4, <1>8, <1>13
<1>17. Len(words) \in Nat
    <2>1. IsSequence(words)
        BY <1>16 DEF Sound
    <2> QED
        BY <2>1, ListParts
<1>18. b < pc[n] /\ pc[n] <= b + Len(words)
    BY <1>8, <1>11, <1>13
<1> HIDE DEF words, b
<1>19. pc[n] - b \in 1 .. Len(words)
    BY <1>5, <1>16, <1>17, <1>18
<1> QED
    BY <1>15, <1>16, <1>19

\* What a load of a command needs lies in the range of the command.
LEMMA LoadReads ==
    ASSUME NEW words, NEW p \in 1 .. Len(words), IsSequence(words), words[p].op \in Loads, LoadWell(words[p]),
           NEW x \in Needs(ArmOf(words[p]))
    PROVE  InSome(x, ChainReads(words))
<1> DEFINE c == words[p]
           rg == IF c.op = "LOAD" THEN <<c.base, c.base + c.nreg * c.nwords>>
                 ELSE <<c.base, c.base + (c.nreg - 1) * c.tgtStep + (c.nsegs - 1) * c.segStep + c.nwords>>
<1>1. DOMAIN words = 1 .. Len(words)
    BY ListParts
<1>2. rg \in ChainReads(words)
    <2>1. p \in {k \in DOMAIN words : words[k].op \in Loads \cup {"GROUP"}}
        BY <1>1
    <2>2. CASE c.op = "LOAD"
        BY <2>1, <2>2 DEF ChainReads
    <2>3. CASE c.op = "LOADX"
        BY <2>1, <2>3 DEF ChainReads
    <2> QED
        BY <2>2, <2>3 DEF Loads
<1>3. PICK r \in 0 .. c.nreg - 1, i \in 0 .. c.nsegs - 1, j \in 0 .. c.nwords - 1 :
        x = c.base + r * c.tgtStep + i * c.segStep + j
    BY DEF Needs, ArmOf, Arm
<1>4. /\ c.base \in Int /\ c.nreg \in Nat /\ c.nwords \in Nat /\ c.nsegs \in Nat /\ c.segStep \in Nat /\ c.tgtStep \in Nat
      /\ c.op = "LOAD" => c.nsegs = 1 /\ c.tgtStep = c.nwords
    BY DEF LoadWell
<1> DEFINE base == c.base
           N == c.nreg
           w == c.nwords
           S == c.segStep
           R == c.tgtStep
           k == c.nsegs
           u == r * R
           v == i * S
           u1 == (N - 1) * R
           v1 == (k - 1) * S
<1>5. r \in Nat /\ i \in Nat /\ j \in Nat /\ r <= N - 1 /\ i <= k - 1 /\ j <= w - 1 /\ N - 1 \in Nat /\ k - 1 \in Nat
    BY <1>4
<1>6. u \in Nat /\ v \in Nat /\ u1 \in Nat /\ v1 \in Nat /\ u <= u1 /\ v <= v1
    <2> HIDE DEF N, R, k, S
    <2>1. R \in Nat /\ S \in Nat
        BY <1>4 DEF R, S
    <2>2. N - 1 \in Nat /\ k - 1 \in Nat
        BY <1>5 DEF N, k
    <2>3. u <= u1
        BY <1>5, <2>1, <2>2, TimesMonotone DEF N
    <2>4. v <= v1
        BY <1>5, <2>1, <2>2, TimesMonotone DEF k
    <2> QED
        BY <1>5, <2>1, <2>2, <2>3, <2>4
<1>7. x = base + u + v + j
    BY <1>3
<1>8. CASE c.op = "LOAD"
    <2> DEFINE e == N * w
    <2>1. v = 0
        <3>1. i = 0
            BY <1>4, <1>5, <1>8
        <3> HIDE DEF S
        <3> QED
            BY <1>4, <3>1 DEF S
    <2>2. e = u1 + w
        <3>1. N - 1 \in Nat /\ w \in Nat /\ R = w /\ N \in Nat
            BY <1>4, <1>5, <1>8
        <3> HIDE DEF N, w, R
        <3>2. ((N - 1) + 1) * w = ((N - 1) * w) + (1 * w)
            BY <3>1, Distribute
        <3>3. (N - 1) + 1 = N /\ 1 * w = w
            BY <3>1
        <3> QED
            BY <3>1, <3>2, <3>3
    <2>3. rg = <<base, base + e>>
        BY <1>8
    <2>4. w \in Nat /\ base \in Int /\ j \in Nat /\ j <= w - 1
        BY <1>4, <1>5
    <2> HIDE DEF u, v, u1, v1, e, base, w, rg
    <2>5. base <= x /\ x < base + e
        BY <1>6, <1>7, <2>1, <2>2, <2>4
    <2>6. rg[1] <= x /\ x < rg[2]
        BY <2>3, <2>5
    <2> QED
        BY <1>2, <2>6 DEF InSome
<1>9. CASE c.op = "LOADX"
    <2>3. rg = <<base, base + u1 + v1 + w>>
        BY <1>9
    <2>4. w \in Nat /\ base \in Int /\ j \in Nat /\ j <= w - 1
        BY <1>4, <1>5
    <2> HIDE DEF u, v, u1, v1, base, w, rg
    <2>5. base <= x /\ x < base + u1 + v1 + w
        BY <1>6, <1>7, <2>4
    <2>6. rg[1] <= x /\ x < rg[2]
        BY <2>3, <2>5
    <2> QED
        BY <1>2, <2>6 DEF InSome
<1> QED
    BY <1>8, <1>9 DEF Loads

\* So do the rows of a column group.
LEMMA GroupReads ==
    ASSUME NEW words, NEW p \in 1 .. Len(words), IsSequence(words), words[p].op = "GROUP", words[p] \in GroupCommands,
           NEW l, RowsFrom(words[p], l), NEW x \in Needs(l)
    PROVE  InSome(x, ChainReads(words))
<1> DEFINE c == words[p]
           base == c.base
           T == c.T
           S == c.S
           W == c.W
           rg == <<base, base + (T - 1) * S + W>>
<1>1. DOMAIN words = 1 .. Len(words)
    BY ListParts
<1>2. rg \in ChainReads(words)
    <2>1. p \in {k \in DOMAIN words : words[k].op \in Loads \cup {"GROUP"}}
        BY <1>1
    <2> QED
        BY <2>1 DEF ChainReads
<1>3. PICK r \in Nat : \E m \in Nat \ {0} : \E w \in Nat : r + m <= T /\ l = GroupLoad(c, base + r * S, m, w)
    BY DEF RowsFrom
<1>4. PICK m \in Nat \ {0} : \E w \in Nat : r + m <= T /\ l = GroupLoad(c, base + r * S, m, w)
    BY <1>3
<1>5. PICK w \in Nat : r + m <= T /\ l = GroupLoad(c, base + r * S, m, w)
    BY <1>4
<1>6. base \in Nat /\ T \in Nat \ {0} /\ S \in Nat \ {0} /\ W \in Nat \ {0}
    BY DEF GroupCommands
<1> DEFINE e == (T - 1) * S
           at == base + r * S
           u == r * S
<1>7. u \in Nat /\ e \in Nat
    <2> HIDE DEF T, S
    <2> QED
        BY <1>6
<1>8. CASE S = W
    <2>1. l = Arm(at, 0, 1, m * W, 1, S, 0, w)
        BY <1>5, <1>8 DEF GroupLoad
    <2>2. PICK j \in 0 .. (m * W) - 1 : x = at + 0 * 0 + 0 * S + j
        <3> HIDE DEF at, S, W
        <3>1. l.base = at /\ l.nreg = 1 /\ l.nwords = m * W /\ l.nsegs = 1 /\ l.segStep = S /\ l.tgtStep = 0
            BY <2>1 DEF Arm
        <3>2. \A y \in 0 .. 1 - 1 : y = 0
            OBVIOUS
        <3> QED
            BY <3>1, <3>2 DEF Needs
    <2> DEFINE y == m * W
               z == T * W
    <2>3. y \in Nat /\ z \in Nat /\ u + y <= z /\ z = e + W
        <3> DEFINE k == r + m
        <3>1. k \in Int /\ k <= T
            BY <1>5
        <3>2. S \in Nat /\ S = W
            BY <1>6, <1>8
        <3>3. T \in Nat \ {0} /\ T - 1 \in Int
            BY <1>6
        <3> HIDE DEF T, S, W
        <3>4. k * W = (r * W) + (m * W)
            BY <3>2, Distribute
        <3> HIDE DEF k
        <3>5. k * W <= T * W
            BY <3>1, <3>2, <3>3, TimesMonotone
        <3>6. ((T - 1) + 1) * W = ((T - 1) * W) + (1 * W) /\ (T - 1) + 1 = T /\ 1 * W = W
            BY <3>2, <3>3, Distribute
        <3>7. y \in Nat /\ z \in Nat
            BY <3>2, <3>3
        <3> QED
            BY <3>2, <3>4, <3>5, <3>6, <3>7
    <2>4. x = base + u + j /\ j \in Nat /\ j < y
        <3>1. 0 * 0 + 0 * S = 0
            BY <1>6
        <3>2. at = base + u
            OBVIOUS
        <3>3. j \in Nat /\ j < y
            BY <2>3
        <3> HIDE DEF at, u, S, y, base
        <3>4. 0 * S = 0
            BY <1>6 DEF S
        <3> QED
            BY <1>6, <1>7, <2>2, <3>2, <3>3, <3>4 DEF base
    <2>8. W \in Nat /\ base \in Nat
        BY <1>6
    <2> HIDE DEF u, y, z, e
    <2>5. rg = <<base, base + e + W>>
        BY DEF e
    <2> HIDE DEF base, rg, W
    <2>6. base <= x /\ x < base + e + W
        BY <1>7, <2>3, <2>4, <2>8
    <2>7. rg[1] <= x /\ x < rg[2]
        BY <2>5, <2>6
    <2> QED
        BY <1>2, <2>7 DEF InSome
<1>9. CASE S # W
    <2>1. l = Arm(at, 0, 1, W, m, S, 0, w)
        BY <1>5, <1>9 DEF GroupLoad
    <2>2. PICK i \in 0 .. m - 1, j \in 0 .. W - 1 : x = at + 0 * 0 + i * S + j
        <3> HIDE DEF at, S, W
        <3>1. l.base = at /\ l.nreg = 1 /\ l.nwords = W /\ l.nsegs = m /\ l.segStep = S /\ l.tgtStep = 0
            BY <2>1 DEF Arm
        <3>2. \A y \in 0 .. 1 - 1 : y = 0
            OBVIOUS
        <3> QED
            BY <3>1, <3>2 DEF Needs
    <2> DEFINE v == i * S
    <2>3. v \in Nat /\ u + v <= e
        <3> DEFINE k == r + i
        <3>1. k \in Int /\ k <= T - 1 /\ i \in Nat
            BY <1>5, <1>6
        <3>2. S \in Nat /\ T - 1 \in Int
            BY <1>6
        <3> HIDE DEF T, S
        <3>3. k * S = (r * S) + (i * S)
            BY <3>1, <3>2, Distribute
        <3> HIDE DEF k
        <3>4. k * S <= (T - 1) * S
            BY <3>1, <3>2, TimesMonotone
        <3> QED
            BY <3>1, <3>2, <3>3, <3>4
    <2>4. at = base + u /\ j \in Nat /\ j < W
        BY <1>6
    <2>5. rg = <<base, base + e + W>>
        OBVIOUS
    <2>9. W \in Nat /\ base \in Nat
        BY <1>6
    <2>6. x = base + u + v + j
        <3> HIDE DEF at, base, u, v, W
        <3>1. x = at + 0 + v + j
            BY <2>2 DEF v
        <3> QED
            BY <1>7, <2>3, <2>4, <2>9, <3>1
    <2> HIDE DEF u, v, e, base, rg, W
    <2>7. base <= x /\ x < base + e + W
        BY <1>7, <2>3, <2>4, <2>6, <2>9
    <2>8. rg[1] <= x /\ x < rg[2]
        BY <2>5, <2>7
    <2> QED
        BY <1>2, <2>8 DEF InSome
<1> QED
    BY <1>8, <1>9

\* A part for nodes of depth D is that deep.
LEMMA DepthOfPart ==
    ASSUME NEW words, NEW D \in Nat, Sound(words, D), NEW k \in 1 .. Len(words), words[k].op \in Loads, Deepest(words[k]) = D
    PROVE  TileDepth(words) = D
<1> DEFINE L == {i \in DOMAIN words : words[i].op \in Loads}
           U == {0} \cup {Deepest(words[i]) : i \in L}
<1>1. TileDepth(words) = Max(U)
    BY DEF TileDepth, Deepest
<1>2. DOMAIN words = 1 .. Len(words) /\ \A i \in 1 .. Len(words) : words[i].op \in Loads => Deepest(words[i]) <= D
    BY ListParts DEF Sound
<1>3. D \in U /\ \A y \in U : D >= y
    <2>1. k \in L
        BY <1>2
    <2>2. D \in U
        BY <2>1
    <2>3. \A i \in L : D >= Deepest(words[i])
        BY <1>2
    <2>4. D >= 0
        OBVIOUS
    <2> QED
        BY <2>2, <2>3, <2>4
<1>4. \A y \in U : y \in Int
    <2>1. \A i \in L : LoadWell(words[i])
        BY <1>2 DEF Sound
    <2> QED
        BY <2>1 DEF LoadWell, Deepest
<1> HIDE DEF U
<1>5. Max(U) = D
    <2>1. \E x \in U : \A y \in U : x >= y
        BY <1>3
    <2>2. Max(U) \in U /\ \A y \in U : Max(U) >= y
        BY <2>1 DEF Max
    <2>3. Max(U) \in Int /\ Max(U) <= D /\ Max(U) >= D
        BY <1>3, <1>4, <2>2
    <2> QED
        BY <2>3
<1> QED
    BY <1>1, <1>5

\* The OUT before a column group.
LEMMA LastOut ==
    ASSUME NEW words, NEW p \in Nat, NEW o \in 1 .. p - 1, Leads(words, o, p), words[p].op = "GROUP"
    PROVE  Max({k \in 1 .. p : words[k].op = "OUT"}) = o
<1> DEFINE S == {k \in 1 .. p : words[k].op = "OUT"}
<1>1. o \in S
    BY DEF Leads
<1>2. ASSUME NEW k \in S PROVE o >= k
    <2>1. SUFFICES ASSUME k > o PROVE FALSE
        OBVIOUS
    <2>2. k = p \/ k \in o + 1 .. p - 1
        BY <2>1
    <2> QED
        BY <2>2 DEF Leads, Loads
<1>3. \A k \in S : k \in Int
    OBVIOUS
<1> HIDE DEF S
<1>4. Max(S) = o
    <2>1. \E x \in S : \A y \in S : x >= y
        BY <1>1, <1>2
    <2>2. Max(S) \in S /\ \A y \in S : Max(S) >= y
        BY <2>1 DEF Max
    <2>3. Max(S) \in Int /\ Max(S) <= o /\ Max(S) >= o
        BY <1>1, <1>2, <1>3, <2>2
    <2> QED
        BY <2>3
<1> QED
    BY <1>4 DEF S

\* Beats of whole rows, and the records of the row that runs.
LEMMA BeatWithin ==
    ASSUME NEW T \in Nat, NEW P \in Nat, NEW B \in Nat, NEW R \in Nat, R < T,
           NEW rec \in 0 .. P - 1, NEW q \in 0 .. B - 1
    PROVE  LET beat == R * P * B + rec * B + q
           IN  beat \in Nat /\ beat < T * P * B
<1> DEFINE e == R * P
           E == T * P
           u == e * B
           v == rec * B
           f == e + rec
           z == E * B
<1>1. e \in Nat /\ E \in Nat /\ e + P <= E
    <2>1. (R + 1) * P = e + (1 * P) /\ 1 * P = P
        BY Distribute
    <2>2. (R + 1) * P <= T * P
        BY TimesMonotone
    <2> QED
        BY <2>1, <2>2
<1>2. f \in Nat /\ f + 1 <= E
    <2> HIDE DEF e, E
    <2> QED
        BY <1>1
<1> HIDE DEF e, E
<1>3. f * B = u + v
    BY <1>1, Distribute
<1> HIDE DEF f
<1>4. (f + 1) * B <= z /\ (f + 1) * B = (f * B) + (1 * B) /\ 1 * B = B
    BY <1>1, <1>2, Distribute, TimesMonotone
<1>5. u \in Nat /\ v \in Nat /\ z \in Nat
    BY <1>1
<1> HIDE DEF u, v, z
<1>6. (u + v) + B <= z
    BY <1>3, <1>4
<1>7. u + v + q \in Nat /\ u + v + q < z
    BY <1>5, <1>6
<1> QED
    BY <1>7 DEF u, v, z, e, E

\* Where cells of a group lie: without blocks they follow one another; with blocks of
\* a row's beats they follow one another within the row.
LEMMA CellWithin ==
    ASSUME NEW T \in Nat, NEW P \in Nat, NEW B \in Nat, NEW beat \in Nat, beat < T * P * B, NEW u \in 0 .. Cells - 1,
           NEW base \in Int, NEW blk \in Nat, NEW gap \in Int,
           blk # 0 => blk = P * B /\ blk * Cells + gap >= 0
    PROVE  LET i == base + beat * Cells + (IF blk = 0 THEN 0 ELSE (beat \div blk) * gap) + u
           IN  /\ base <= i
               /\ blk = 0 => i < base + (T * P * B) * Cells
               /\ blk # 0 => i < base + ((T - 1) * (blk * Cells + gap) + blk * Cells)
<1> DEFINE z == T * P * B
<1>1. Cells \in Nat \ {0} /\ z \in Nat
    BY CaseAssumption
<1> HIDE DEF z
<1>2. CASE blk = 0
    <2> DEFINE a == beat * Cells
               e == z * Cells
    <2>1. a \in Nat /\ e \in Nat /\ a + Cells <= e
        <3>1. beat + 1 <= z
            BY <1>1 DEF z
        <3>2. (beat + 1) * Cells <= e /\ (beat + 1) * Cells = a + (1 * Cells)
            BY <1>1, <3>1, Distribute, TimesMonotone
        <3> QED
            BY <1>1, <3>2
    <2> HIDE DEF a, e
    <2>2. base <= base + a + 0 + u /\ base + a + 0 + u < base + e
        BY <1>1, <2>1
    <2> QED
        BY <1>2, <2>2 DEF a, e, z
<1>3. CASE blk # 0
    <2> DEFINE q == beat \div blk
               r == beat % blk
               h == blk * Cells
               pitch == h + gap
               x == q * blk
    <2>1. q \in Nat /\ r \in 0 .. blk - 1 /\ beat = x + r /\ blk \in Nat \ {0}
        BY <1>3, DivMod
    <2>2. h \in Nat /\ pitch \in Nat
        BY <1>1, <1>3
    <2>3. q <= T - 1
        <3>1. z = T * blk
            BY <1>3 DEF z
        <3>2. ASSUME q >= T PROVE FALSE
            <4>1. T * blk <= q * blk
                BY <2>1, <3>2, TimesMonotone
            <4> DEFINE y == T * blk
            <4>2. y \in Nat
                OBVIOUS
            <4>3. x \in Nat
                <5>1. q \in Nat /\ blk \in Nat
                    BY <2>1
                <5> HIDE DEF q, r
                <5> QED
                    BY <5>1
            <4>4. y <= x /\ z = y /\ beat < z
                BY <3>1, <4>1 DEF z
            <4> HIDE DEF x, y, r, q
            <4> QED
                BY <2>1, <4>2, <4>3, <4>4
        <3> HIDE DEF q
        <3> QED
            BY <2>1, <3>2
    <2> HIDE DEF q, r
    <2> DEFINE a == q * pitch
               s == r * Cells
               A == (T - 1) * pitch
    <2>4. beat * Cells + q * gap = a + s
        <3> DEFINE w == x * Cells
                   v == q * gap
        <3>1. beat * Cells = w + s
            <4>1. x \in Nat /\ r \in Nat
                BY <2>1
            <4> HIDE DEF x
            <4> QED
                BY <1>1, <2>1, <4>1, Distribute
        <3>2. w = q * h
            BY <1>1, <2>1, TimesAssoc
        <3>3. q * (h + gap) = q * h + q * gap
            <4> HIDE DEF h
            <4> QED
                BY <2>1, <2>2
        <3> HIDE DEF h, x
        <3>4. w \in Int /\ v \in Int /\ s \in Int /\ a \in Int
            <4>1. x \in Nat
                BY <2>1 DEF x
            <4>2. w \in Nat /\ s \in Nat
                BY <1>1, <2>1, <4>1
            <4>3. v \in Int
                BY <2>1
            <4>4. a \in Int
                <5> HIDE DEF pitch
                <5> QED
                    BY <2>1, <2>2
            <4> QED
                BY <4>2, <4>3, <4>4
        <3>5. a = q * h + v
            BY <3>3
        <3> HIDE DEF a, v, w, s
        <3> QED
            BY <3>1, <3>2, <3>4, <3>5 DEF v
    <2>5. a \in Nat /\ A \in Int /\ a <= A
        <3> HIDE DEF pitch
        <3> QED
            BY <2>1, <2>2, <2>3, TimesMonotone
    <2>6. s \in Nat /\ s + Cells <= h
        <3>1. r + 1 <= blk /\ r \in Nat
            BY <2>1
        <3>2. (r + 1) * Cells <= h /\ (r + 1) * Cells = s + (1 * Cells) /\ 1 * Cells = Cells
            BY <1>1, <2>1, <3>1, Distribute, TimesMonotone
        <3> QED
            BY <1>1, <3>1, <3>2
    <2> DEFINE v == q * gap
               c == beat * Cells
    <2>7. v \in Int /\ c \in Int
        BY <1>1, <2>1
    <2> HIDE DEF a, A, s, h, v, c
    <2>8. c + v = a + s
        BY <2>4 DEF c, v
    <2>9. base <= base + c + v + u /\ base + c + v + u < base + (A + h)
        BY <1>1, <2>2, <2>5, <2>6, <2>7, <2>8
    <2> QED
        BY <1>3, <2>9 DEF A, h, v, c, q
<1> QED
    BY <1>2, <1>3

\* A node of whole beats: its sums make up as many, and a sum is within them.
LEMMA BeatsOfDepth ==
    ASSUME NEW D \in Nat, D % Cells = 0, NEW B, B = D \div Cells
    PROVE  /\ B \in Nat /\ UpDiv(D, Cells) = B /\ B * Cells = D
           /\ \A s \in 0 .. D - 1 : s \div Cells \in 0 .. B - 1 /\ s % Cells \in 0 .. Cells - 1
<1>1. Cells \in Nat \ {0}
    BY CaseAssumption
<1>2. B \in Nat /\ D = (B * Cells) + 0
    BY <1>1, DivMod
<1> DEFINE z == B * Cells
<1>3. z \in Nat /\ z = D
    BY <1>1, <1>2
<1>4. UpDiv(D, Cells) = B
    <2> DEFINE x == Cells - 1
    <2>1. x \in 0 .. Cells - 1
        BY <1>1
    <2>2. (x + B * Cells) \div Cells = B
        <3>1. x \in 0 .. Cells - 1 /\ B \in Nat /\ Cells \in Nat \ {0}
            BY <1>1, <1>2, <2>1
        <3> HIDE DEF x
        <3> QED
            BY ONLY <3>1, Digits
    <2>3. x + B * Cells = D + Cells - 1
        <3> HIDE DEF z
        <3>1. x + z = D + Cells - 1
            BY <1>1, <1>3
        <3> QED
            BY <3>1 DEF z
    <2> QED
        BY <2>2, <2>3 DEF UpDiv
<1>5. ASSUME NEW s \in 0 .. D - 1
      PROVE  s \div Cells \in 0 .. B - 1 /\ s % Cells \in 0 .. Cells - 1
    <2> DEFINE q == s \div Cells
               r == s % Cells
               y == q * Cells
    <2>1. q \in Nat /\ r \in 0 .. Cells - 1 /\ s = y + r
        <3>1. s \in Nat
            OBVIOUS
        <3> QED
            BY <1>1, <3>1, DivMod
    <2>2. ASSUME q >= B PROVE FALSE
        <3>1. z <= y
            BY <1>1, <1>2, <2>1, <2>2, TimesMonotone
        <3>2. y \in Nat
            <4> HIDE DEF q
            <4> QED
                BY <1>1, <2>1
        <3> HIDE DEF z, y, r, q
        <3> QED
            BY <1>1, <1>3, <2>1, <3>1, <3>2
    <2> HIDE DEF q, r
    <2>3. q < B
        BY <1>2, <2>1, <2>2
    <2>4. q \in 0 .. B - 1
        BY <1>2, <2>1, <2>3
    <2> QED
        BY <2>1, <2>4 DEF q, r
<1> QED
    BY <1>2, <1>3, <1>4, <1>5

\* What a column group writes, row by row, lies in the range of the group.
LEMMA GroupWritesCover ==
    ASSUME NEW words, NEW D \in Nat \ {0}, D % Cells = 0, Sound(words, D),
           NEW p \in 1 .. Len(words), words[p].op = "GROUP",
           NEW o \in 1 .. p - 1, Leads(words, o, p), Pitched(words[o], words[p], D),
           NEW R \in Nat, R < words[p].T, NEW w, w = From(words[o], R * words[p].P * UpDiv(D, Cells)),
           NEW rec \in 0 .. words[p].P - 1, NEW s \in 0 .. D - 1
    PROVE  InSome(CellAt(w, D, rec, s), ChainWrites(words))
<1> DEFINE g == words[p]
           T == g.T
           P == g.P
           base == words[o].base
           blk == words[o].blk
           gap == words[o].gap
           B == D \div Cells
           q == s \div Cells
           u == s % Cells
           beat == R * P * B + rec * B + q
           i == base + beat * Cells + (IF blk = 0 THEN 0 ELSE (beat \div blk) * gap) + u
           rg == GroupWrites(words, words[o], g)
<1>1. B \in Nat /\ UpDiv(D, Cells) = B /\ B * Cells = D /\ q \in 0 .. B - 1 /\ u \in 0 .. Cells - 1
    BY BeatsOfDepth
<1>2. Cells \in Nat \ {0}
    BY CaseAssumption
<1>3. /\ base \in Int /\ blk \in Nat /\ gap \in Int /\ T \in Nat \ {0} /\ P \in Nat \ {0}
      /\ blk # 0 => blk * Cells = D * P /\ blk * Cells + gap >= 0
    BY DEF Pitched, Fits, GroupCommands
<1>4. CellAt(w, D, rec, s) = i
    <2>1. w.base = base /\ w.blk = blk /\ w.gap = gap /\ w.beats = R * P * B
        BY <1>1 DEF From
    <2> HIDE DEF B, q, u
    <2> QED
        BY <1>1, <2>1 DEF CellAt, q, u
<1>5. rg \in ChainWrites(words)
    <2>1. p \in Nat /\ DOMAIN words = 1 .. Len(words)
        BY ListParts DEF Sound
    <2>2. Max({k \in 1 .. p : words[k].op = "OUT"}) = o
        BY <2>1, LastOut
    <2>3. p \in {k \in DOMAIN words : words[k].op = "GROUP"}
        BY <2>1
    <2> QED
        BY <2>2, <2>3 DEF ChainWrites
<1>6. TileDepth(words) = D
    <2>1. PICK k \in 1 .. Len(words) : words[k].op \in Loads /\ Deepest(words[k]) = D
        BY DEF Sound
    <2> QED
        BY <2>1, DepthOfPart
<1>7. blk # 0 => blk = P * B
    <2> DEFINE x == P * B
    <2>1. x \in Nat /\ x * Cells = P * (B * Cells)
        <3> HIDE DEF P, B
        <3> QED
            BY <1>1, <1>2, <1>3, TimesAssoc
    <2>2. D * P = P * D
        BY <1>3
    <2>3. ASSUME blk # 0 PROVE blk = x
        <3>1. blk * Cells = (x * Cells) + 0 /\ 0 \in 0 .. Cells - 1 /\ blk \in Int /\ x \in Int
            <4>1. blk * Cells = x * Cells
                <5> HIDE DEF x, blk, P, B
                <5> QED
                    BY <1>1, <1>3, <2>1, <2>2, <2>3
            <4>2. x * Cells \in Int
                <5> HIDE DEF x
                <5> QED
                    BY <1>2, <2>1
            <4>3. 0 \in 0 .. Cells - 1 /\ blk \in Int /\ x \in Int
                <5> HIDE DEF x, blk
                <5> QED
                    BY <1>2, <1>3, <2>1
            <4> HIDE DEF x, blk
            <4> QED
                BY <4>1, <4>2, <4>3
        <3> HIDE DEF x, blk
        <3> QED
            BY <1>2, <3>1, SameMultiple
    <2> QED
        BY <2>3
<1>8. beat \in Nat /\ beat < T * P * B
    <2> HIDE DEF B, q, T, P
    <2>1. T \in Nat /\ P \in Nat /\ R < T /\ rec \in 0 .. P - 1
        BY <1>3 DEF T, P
    <2> QED
        BY <1>1, <2>1, BeatWithin
<1> HIDE DEF beat
<1>9. /\ base <= i
      /\ blk = 0 => i < base + (T * P * B) * Cells
      /\ blk # 0 => i < base + ((T - 1) * (blk * Cells + gap) + blk * Cells)
    <2> HIDE DEF T, P, B, u, base, blk, gap
    <2>1. T \in Nat /\ P \in Nat
        BY <1>3
    <2>2. /\ T \in Nat /\ P \in Nat /\ B \in Nat /\ beat \in Nat /\ beat < T * P * B /\ u \in 0 .. Cells - 1
          /\ base \in Int /\ blk \in Nat /\ gap \in Int
          /\ (blk # 0 => blk = P * B /\ blk * Cells + gap >= 0)
        BY <1>1, <1>3, <1>7, <1>8, <2>1
    <2> QED
        BY ONLY <2>2, CellWithin
<1>10. CASE blk = 0
    <2> DEFINE a == T * D * P
               top == Cells * UpDiv(a, Cells)
    <2>1. Max({1, TileDepth(words)}) = D
        <3>1. Max({1, D}) \in {1, D} /\ Max({1, D}) >= 1 /\ Max({1, D}) >= D
            <4>1. 1 \in Int /\ D \in Int
                OBVIOUS
            <4> QED
                BY ONLY <4>1, MaxOfTwo
        <3> QED
            BY <1>6, <3>1
    <2>2. rg = <<base, base + top>>
        BY <1>10, <2>1 DEF GroupWrites
    <2>3. a \in Nat /\ a = (T * P * B) * Cells
        <3> HIDE DEF T, P, B
        <3>1. T * P \in Nat /\ (T * P) * B \in Nat /\ ((T * P) * B) * Cells = (T * P) * (B * Cells)
            BY <1>1, <1>2, <1>3, TimesAssoc
        <3>2. (T * P) * D = T * (P * D) /\ P * D = D * P /\ T * D * P = T * (D * P)
            BY <1>3, TimesAssoc
        <3>3. (T * P) * D \in Nat
            BY <3>1
        <3> QED
            BY <1>1, <3>1, <3>2, <3>3
    <2>4. UpDiv(a, Cells) \in Nat /\ a <= UpDiv(a, Cells) * Cells
        <3> HIDE DEF a
        <3> QED
            BY <1>2, <2>3, RoundedUp
    <2>5. top \in Nat /\ a <= top
        <3> HIDE DEF a
        <3> QED
            BY <1>2, <2>4
    <2>6. i < base + a
        BY <1>9, <1>10, <2>3
    <2>7. i \in Int
        <3> DEFINE y == beat * Cells
        <3>1. y \in Nat /\ u \in Nat
            BY <1>1, <1>2, <1>8
        <3> HIDE DEF y, u, base
        <3>2. base + y + 0 + u \in Int
            BY <1>3, <3>1
        <3> QED
            BY <1>10, <3>2 DEF y
    <2> HIDE DEF i, a, top, base, rg
    <2>8. base <= i /\ i < base + top
        BY <1>3, <1>9, <2>3, <2>5, <2>6, <2>7
    <2> QED
        BY <1>4, <1>5, <2>2, <2>8 DEF InSome
<1>11. CASE blk # 0
    <2>1. rg = <<base, base + ((T - 1) * (blk * Cells + gap) + blk * Cells)>>
        BY <1>11 DEF GroupWrites
    <2> HIDE DEF i, base, rg, T, blk, gap
    <2> QED
        BY <1>4, <1>5, <1>9, <1>11, <2>1 DEF InSome
<1> QED
    BY <1>10, <1>11

\* The row a node makes is written within what the tracker has for its part.
LEMMA RowCovered ==
    ASSUME AInv, gemm.path # "bench", NEW n \in Node, st[n] = "run", NEW i \in RowCells(n)
    PROVE  InSome(i, AccessAt(n).writes)
<1> DEFINE c == Cmd(n)
           D == gemm.nodes[n]
<1>1. IInv /\ WriterAt(n) /\ GroupAt(n)
    BY DEF AInv, At
<1>2. ~Halted(n) /\ Fits(c) /\ TileRuns(n) /\ tile[n].left \in Nat \ {0} /\ tile[n].P = c.P
    <2>1. ~Halted(n) /\ Fits(c) /\ TileRuns(n) /\ tile[n].M \in Nat /\ tile[n].left \in 1 .. tile[n].M
        BY <1>1, TileInRange
    <2> QED
        BY <2>1 DEF TileRuns
<1>3. PICK words : \E b \in Nat :
        /\ Sound(words, D) /\ pc[n] - b \in 1 .. Len(words)
        /\ AccessAt(n).reads = ChainReads(words) /\ AccessAt(n).writes = ChainWrites(words)
        /\ \A j \in 1 .. Len(words) : job.prog[n][b + j] = words[j]
    BY <1>1, <1>2, PartAtWork
<1>4. PICK b \in Nat :
        /\ Sound(words, D) /\ pc[n] - b \in 1 .. Len(words)
        /\ AccessAt(n).writes = ChainWrites(words)
        /\ \A j \in 1 .. Len(words) : job.prog[n][b + j] = words[j]
    BY <1>3
<1> DEFINE p == pc[n] - b
<1>5. pc[n] \in Nat /\ p \in 1 .. Len(words) /\ Len(words) \in Nat /\ b + p = pc[n]
    <2>1. pc[n] \in Nat
        BY <1>1, Programs
    <2>2. Len(words) \in Nat
        BY <1>4, ListParts DEF Sound
    <2> QED
        BY <1>4, <2>1, <2>2
<1>6. words[p] = c
    BY <1>4, <1>5 DEF Cmd
<1>7. c.op = "GROUP" /\ c \in GroupCommands /\ cg[n] \in Groups(c)
    <2>1. words[p].op # "TILE"
        BY <1>4, <1>5 DEF Sound
    <2> QED
        BY <1>2, <1>6, <2>1 DEF TileRuns, Fits
<1>8. D \in Nat \ {0} /\ D % Cells = 0
    <2>1. D \in Nat \ {0} /\ gemm \in Case
        BY <1>1, BeatsOf, Programs
    <2> QED
        BY <2>1, CaseAssumption DEF Node
<1> HIDE DEF p
<1>9. PICK o \in 1 .. p - 1 : Leads(words, o, p) /\ Pitched(words[o], words[p], D)
    BY <1>4, <1>5, <1>6, <1>7 DEF Sound, Led
<1>10. b + o \in 1 .. pc[n] - 1 /\ job.prog[n][b + o] = words[o]
    <2>1. o \in 1 .. Len(words)
        BY <1>5
    <2> QED
        BY <1>4, <1>5, <2>1
<1>11. Leads(job.prog[n], b + o, pc[n])
    <2>1. ASSUME NEW k \in (b + o) + 1 .. pc[n] - 1 PROVE job.prog[n][k].op \in Loads
        <3> DEFINE j == k - b
        <3>1. j \in o + 1 .. p - 1 /\ j \in 1 .. Len(words) /\ b + j = k
            BY <1>5
        <3> HIDE DEF j
        <3> QED
            BY <1>4, <1>9, <3>1 DEF Leads
    <2> QED
        BY <1>9, <1>10, <2>1 DEF Leads
<1>12. wr[n] = From(words[o], Made(n))
    BY <1>1, <1>2, <1>7, <1>10, <1>11 DEF WriterAt
<1> DEFINE R == c.T - Remaining(n)
<1>13. R \in Nat /\ R < c.T
    <2>1. cg[n].left \in Nat /\ cg[n].m \in Nat /\ c.T \in Nat
        BY <1>7 DEF Groups, GroupCommands
    <2>2. Remaining(n) <= c.T
        BY <1>1, <1>2, <1>7 DEF GroupAt
    <2>3. Remaining(n) \in Nat \ {0}
        BY <1>2, <2>1 DEF Remaining
    <2> QED
        BY <2>1, <2>2, <2>3
<1>14. Made(n) = R * words[p].P * UpDiv(D, Cells)
    BY <1>6 DEF Made, Beats
<1>15. PICK rec \in 0 .. words[p].P - 1, s \in 0 .. D - 1 : i = CellAt(wr[n], D, rec, s)
    BY <1>2, <1>6 DEF RowCells
<1> HIDE DEF R, D, c
<1>16. R < words[p].T
    BY <1>6, <1>13
<1>17. words[p].op = "GROUP"
    BY <1>6, <1>7
<1>18. wr[n] = From(words[o], R * words[p].P * UpDiv(D, Cells))
    BY <1>12, <1>14
<1>19. InSome(CellAt(wr[n], D, rec, s), ChainWrites(words))
    BY <1>4, <1>5, <1>8, <1>9, <1>13, <1>16, <1>17, <1>18, GroupWritesCover
<1> QED
    BY <1>4, <1>15, <1>19

\* What the loader of a node needs is within what the tracker has for its part.
LEMMA LoadCovered ==
    ASSUME AInv, gemm.path # "bench", NEW n \in Node, ld[n].busy, NEW x \in Needs(ld[n])
    PROVE  InSome(x, AccessAt(n).reads)
<1> DEFINE c == Cmd(n)
<1>1. IInv /\ LoaderAt(n)
    BY DEF AInv, At
<1>2. ~Halted(n) /\ Fits(c)
    BY <1>1, Programs DEF LoaderAt
<1>3. PICK words : \E b \in Nat :
        /\ Sound(words, gemm.nodes[n]) /\ pc[n] - b \in 1 .. Len(words)
        /\ AccessAt(n).reads = ChainReads(words) /\ AccessAt(n).writes = ChainWrites(words)
        /\ \A j \in 1 .. Len(words) : job.prog[n][b + j] = words[j]
    BY <1>1, <1>2, PartAtWork
<1>4. PICK b \in Nat :
        /\ Sound(words, gemm.nodes[n]) /\ pc[n] - b \in 1 .. Len(words)
        /\ AccessAt(n).reads = ChainReads(words)
        /\ \A j \in 1 .. Len(words) : job.prog[n][b + j] = words[j]
    BY <1>3
<1> DEFINE p == pc[n] - b
<1>5. p \in 1 .. Len(words) /\ b + p = pc[n]
    <2>1. pc[n] \in Nat
        BY <1>1, Programs
    <2> QED
        BY <1>4, <2>1
<1>6. words[p] = c
    BY <1>4, <1>5 DEF Cmd
<1> HIDE DEF p
<1>7. IsSequence(words) /\ (c.op \in Loads => LoadWell(c))
    BY <1>4, <1>5, <1>6 DEF Sound
<1>8. CASE c.op \in Loads /\ ld[n] = ArmOf(c)
    BY <1>4, <1>5, <1>6, <1>7, <1>8, LoadReads
<1>9. CASE c.op = "GROUP" /\ RowsFrom(c, ld[n])
    <2>1. c \in GroupCommands
        BY <1>2, <1>9 DEF Fits
    <2> QED
        BY <1>4, <1>5, <1>6, <1>7, <1>9, <2>1, GroupReads
<1> QED
    BY <1>1, <1>8, <1>9 DEF LoaderAt

\* What a part of a GEMM touches lies in the ranges the dependence tracker has for it,
\* whatever the depths, tiles, row slices and row blocks.
THEOREM AccessesAreCovered == Spec => []AccessesCovered
<1>1. AInv => AccessesCovered
    BY RowCovered, LoadCovered DEF AccessesCovered
<1> QED
    BY <1>1, WhereTheyAre, PTL
=============================================================================
