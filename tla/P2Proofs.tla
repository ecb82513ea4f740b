------------------------------ MODULE P2Proofs ------------------------------
(***************************************************************************)
(* Theorems about P2Quantile, for every quantile, every stream and every   *)
(* outcome of the interpolations.                                          *)
(***************************************************************************)
EXTENDS P2Quantile, SequenceTheorems, TLAPS

(***************************************************************************)
(* The parts of the invariant, over any markers.                           *)
(***************************************************************************)

\* Positions that span 0 .. last without sharing a place.
Apart(at, last) ==
    /\ at[0] = 0 /\ at[4] = last
    /\ at[0] < at[1] /\ at[1] < at[2] /\ at[2] < at[3] /\ at[3] < at[4]

Ascending(h) == h[0] <= h[1] /\ h[1] <= h[2] /\ h[2] <= h[3] /\ h[3] <= h[4]

LEMMA HeightsAreIntegers ==
    ASSUME NEW h \in [Markers -> Scores]
    PROVE  h[0] \in Int /\ h[1] \in Int /\ h[2] \in Int /\ h[3] \in Int /\ h[4] \in Int
<1>1. Scores \subseteq Int
    BY P2Assumption
<1>2. \A i \in Markers : h[i] \in Scores
    OBVIOUS
<1>3. 0 \in Markers /\ 1 \in Markers /\ 2 \in Markers /\ 3 \in Markers /\ 4 \in Markers
    BY DEF Markers
<1> QED BY <1>1, <1>2, <1>3

LEMMA AscendingIsSorted ==
    ASSUME NEW h \in [Markers -> Scores]
    PROVE  Ascending(h) <=> Sorted(h)
<1>2. ASSUME Ascending(h) PROVE Sorted(h)
    <2> SUFFICES ASSUME NEW i \in Markers, NEW j \in Markers, i <= j
                 PROVE  h[i] <= h[j]
        BY DEF Sorted
    <2>1. /\ h[0] \in Int /\ h[1] \in Int /\ h[2] \in Int /\ h[3] \in Int /\ h[4] \in Int
        BY HeightsAreIntegers
    <2>2. i \in {0, 1, 2, 3, 4} /\ j \in {0, 1, 2, 3, 4}
        BY DEF Markers
    <2> QED BY <1>2, <2>1, <2>2 DEF Ascending
<1>3. ASSUME Sorted(h) PROVE Ascending(h)
    BY <1>3 DEF Sorted, Ascending, Markers
<1> QED BY <1>2, <1>3

-----------------------------------------------------------------------------
(* Positions.                                                              *)

LEMMA CountedApart ==
    ASSUME n \in [Markers -> Nat], NEW last \in Nat, Apart(n, last), NEW k \in 0..3
    PROVE  Counted(k) \in [Markers -> Nat] /\ Apart(Counted(k), last + 1)
<1>1. Counted(k) \in [Markers -> Nat]
    BY DEF Counted, Markers
<1>2. \A i \in Markers : Counted(k)[i] = IF i > k THEN n[i] + 1 ELSE n[i]
    BY DEF Counted
<1>3. /\ n[0] \in Nat /\ n[1] \in Nat /\ n[2] \in Nat /\ n[3] \in Nat /\ n[4] \in Nat
    BY DEF Markers
<1>4. /\ Counted(k)[0] = n[0]
      /\ Counted(k)[1] = IF 1 > k THEN n[1] + 1 ELSE n[1]
      /\ Counted(k)[2] = IF 2 > k THEN n[2] + 1 ELSE n[2]
      /\ Counted(k)[3] = IF 3 > k THEN n[3] + 1 ELSE n[3]
      /\ Counted(k)[4] = n[4] + 1
    BY <1>2 DEF Markers
<1>5. Apart(Counted(k), last + 1)
    BY <1>3, <1>4 DEF Apart
<1> QED BY <1>1, <1>5

\* A step leaves room on both sides.
LEMMA StepHasRoom ==
    ASSUME NEW at \in [Markers -> Nat], NEW i \in Inner
    PROVE  /\ Step(at, i) \in {-1, 0, 1}
           /\ Step(at, i) = 1 => at[i + 1] - at[i] > 1
           /\ Step(at, i) = -1 => at[i - 1] - at[i] < -1
    BY DEF Step

LEMMA ShiftedApart ==
    ASSUME NEW at \in [Markers -> Nat], NEW last \in Nat, Apart(at, last), NEW i \in Inner
    PROVE  Shifted(at, i) \in [Markers -> Nat] /\ Apart(Shifted(at, i), last)
<1> DEFINE s == Step(at, i)
           f == Shifted(at, i)
<1>1. /\ s \in {-1, 0, 1}
      /\ s = 1 => at[i + 1] - at[i] > 1
      /\ s = -1 => at[i - 1] - at[i] < -1
    BY StepHasRoom
<1>2. f = [at EXCEPT ![i] = at[i] + s]
    BY DEF Shifted
<1> HIDE DEF s, f
<1>3. \A j \in Markers : f[j] = IF j = i THEN at[i] + s ELSE at[j]
    BY <1>2 DEF Inner, Markers
<1>4. /\ at[0] \in Nat /\ at[1] \in Nat /\ at[2] \in Nat /\ at[3] \in Nat /\ at[4] \in Nat
    BY DEF Markers
<1>5. i \in {1, 2, 3}
    BY DEF Inner
<1>6. at[i] + s \in Nat
    BY <1>1, <1>4, <1>5 DEF Apart
<1>7. f \in [Markers -> Nat]
    BY <1>2, <1>6
<1>8. /\ f[0] = at[0] /\ f[4] = at[4]
      /\ f[1] = IF i = 1 THEN at[1] + s ELSE at[1]
      /\ f[2] = IF i = 2 THEN at[2] + s ELSE at[2]
      /\ f[3] = IF i = 3 THEN at[3] + s ELSE at[3]
    BY <1>3, <1>5 DEF Markers
<1>9. Apart(f, last)
    <2>1. CASE i = 1 BY <2>1, <1>1, <1>4, <1>8 DEF Apart
    <2>2. CASE i = 2 BY <2>2, <1>1, <1>4, <1>8 DEF Apart
    <2>3. CASE i = 3 BY <2>3, <1>1, <1>4, <1>8 DEF Apart
    <2> QED BY <1>5, <2>1, <2>2, <2>3
<1> QED BY <1>7, <1>9 DEF f

-----------------------------------------------------------------------------
(* Heights.                                                                *)

LEMMA WidenedAscending ==
    ASSUME q \in [Markers -> Scores], Ascending(q), NEW x \in Scores
    PROVE  /\ Widened(x) \in [Markers -> Scores] /\ Ascending(Widened(x))
           /\ Widened(x)[0] = IF x < q[0] THEN x ELSE q[0]
           /\ Widened(x)[4] = IF x > q[4] THEN x ELSE q[4]
<1>1. Widened(x) \in [Markers -> Scores]
    BY DEF Widened, Markers
<1>2. /\ q[0] \in Int /\ q[1] \in Int /\ q[2] \in Int /\ q[3] \in Int /\ q[4] \in Int /\ x \in Int
    BY HeightsAreIntegers, P2Assumption
<1>3. /\ Widened(x)[0] = IF x < q[0] THEN x ELSE q[0]
      /\ Widened(x)[4] = IF x > q[4] THEN x ELSE q[4]
      /\ Widened(x)[1] = q[1] /\ Widened(x)[2] = q[2] /\ Widened(x)[3] = q[3]
    BY DEF Widened, Markers
<1> QED BY <1>1, <1>2, <1>3 DEF Ascending

LEMMA RaisedAscending ==
    ASSUME NEW h \in [Markers -> Scores], Ascending(h), NEW i \in Inner,
           NEW ds \in {-1, 0, 1}, NEW v \in Scores, Height(h, i, ds, v)
    PROVE  /\ Raised(h, i, v) \in [Markers -> Scores] /\ Ascending(Raised(h, i, v))
           /\ Raised(h, i, v)[0] = h[0] /\ Raised(h, i, v)[4] = h[4]
<1> DEFINE f == Raised(h, i, v)
<1>1. f \in [Markers -> Scores] /\ \A j \in Markers : f[j] = IF j = i THEN v ELSE h[j]
    BY DEF Raised, Inner, Markers
<1> HIDE DEF f
<1>2. /\ h[0] \in Int /\ h[1] \in Int /\ h[2] \in Int /\ h[3] \in Int /\ h[4] \in Int /\ v \in Int
    BY HeightsAreIntegers, P2Assumption
<1>3. i \in {1, 2, 3}
    BY DEF Inner
<1>4. h[i - 1] <= v /\ v <= h[i + 1]
    <2>1. CASE i = 1 BY <2>1, <1>2 DEF Height, Between, Ascending
    <2>2. CASE i = 2 BY <2>2, <1>2 DEF Height, Between, Ascending
    <2>3. CASE i = 3 BY <2>3, <1>2 DEF Height, Between, Ascending
    <2> QED BY <1>3, <2>1, <2>2, <2>3
<1>5. /\ f[0] = h[0] /\ f[4] = h[4]
      /\ f[1] = IF i = 1 THEN v ELSE h[1]
      /\ f[2] = IF i = 2 THEN v ELSE h[2]
      /\ f[3] = IF i = 3 THEN v ELSE h[3]
    BY <1>1, <1>3 DEF Markers
<1>6. Ascending(f)
    <2>1. CASE i = 1 BY <2>1, <1>2, <1>4, <1>5 DEF Ascending
    <2>2. CASE i = 2 BY <2>2, <1>2, <1>4, <1>5 DEF Ascending
    <2>3. CASE i = 3 BY <2>3, <1>2, <1>4, <1>5 DEF Ascending
    <2> QED BY <1>3, <2>1, <2>2, <2>3
<1> QED BY <1>1, <1>5, <1>6 DEF f

-----------------------------------------------------------------------------
(* Desired positions.                                                      *)

\* The desired positions of the inner markers divide those of the outer ones.
Proportioned(want) ==
    /\ want[0] = 0
    /\ 2 * want[1] = want[2]
    /\ 2 * want[3] = want[2] + want[4]
    /\ want[2] <= want[4]

\* How far a marker may be from where it is wanted.  The bounds differ from
\* marker to marker because the markers move one after the other.
Follows(at, want) ==
    /\ want[4] = Unit * at[4]
    /\ - Unit < want[1] - Unit * at[1] /\ want[1] - Unit * at[1] < 2 * Unit
    /\ -2 * Unit < want[2] - Unit * at[2] /\ want[2] - Unit * at[2] < 3 * Unit
    /\ -3 * Unit < want[3] - Unit * at[3] /\ want[3] - Unit * at[3] < Unit

LEMMA UnitType == Unit \in Nat /\ Unit > 0 /\ Unit = 2 * Den /\ Den \in Nat
    BY P2Assumption DEF Unit

LEMMA AdvancedType ==
    ASSUME p \in 1..(Den - 1), np \in [Markers -> Nat], Proportioned(np)
    PROVE  /\ Advanced \in [Markers -> Nat]
           /\ Proportioned(Advanced)
           /\ Advanced[1] = np[1] + p
           /\ Advanced[2] = np[2] + 2 * p
           /\ Advanced[3] = np[3] + Den + p
           /\ Advanced[4] = np[4] + Unit
<1>1. Den \in Nat /\ p \in Nat /\ p < Den
    BY P2Assumption
<1>2. /\ Increment(0) = 0 /\ Increment(1) = p /\ Increment(2) = 2 * p
      /\ Increment(3) = Den + p /\ Increment(4) = 2 * Den
    BY DEF Increment
<1>3. \A i \in Markers : Increment(i) \in Nat
    BY <1>1, <1>2 DEF Markers
<1>4. Advanced \in [Markers -> Nat] /\ \A i \in Markers : Advanced[i] = np[i] + Increment(i)
    BY <1>3 DEF Advanced
<1>5. /\ np[0] \in Nat /\ np[1] \in Nat /\ np[2] \in Nat /\ np[3] \in Nat /\ np[4] \in Nat
    BY DEF Markers
<1>6. /\ Advanced[0] = np[0]
      /\ Advanced[1] = np[1] + p
      /\ Advanced[2] = np[2] + 2 * p
      /\ Advanced[3] = np[3] + (Den + p)
      /\ Advanced[4] = np[4] + 2 * Den
    BY <1>2, <1>4, <1>5 DEF Markers
<1>7. Proportioned(Advanced)
    BY <1>1, <1>5, <1>6 DEF Proportioned
<1> QED BY <1>1, <1>4, <1>5, <1>6, <1>7 DEF Unit

\* Distances of neighbours a position apart, in units: the only place where
\* positions are multiplied.
LEMMA Adjacent ==
    ASSUME NEW U \in Nat, NEW a \in Nat, NEW b \in Nat, b - a = 1
    PROVE  U * b = U * a + U
    BY SMT

LEMMA CountedLag ==
    ASSUME NEW U \in Nat, NEW w \in Nat, NEW a \in Nat, NEW g \in Nat,
           NEW k \in 0..3, NEW i \in 1..3
    PROVE  (w + g) - U * (a + (IF i > k THEN 1 ELSE 0))
             = (w - U * a) + g - (IF i > k THEN U ELSE 0)
<1>1. CASE i > k
    <2>1. U * (a + 1) = U * a + U /\ U * a \in Int
        BY SMT
    <2> QED BY <1>1, <2>1
<1>2. CASE ~ (i > k)
    <2>1. U * (a + 0) = U * a /\ U * a \in Int
        BY SMT
    <2> QED BY <1>2, <2>1
<1> QED BY <1>1, <1>2

\* The first marker: d and e are where it and the second are wanted, once the
\* sample is counted.
LEMMA FirstFollows ==
    ASSUME NEW U \in Nat, U > 0, NEW g \in Int, 0 < g, 2 * g < U,
           NEW k \in 0..3, NEW old \in Int, - U < old, old < 2 * U,
           NEW next \in Int, next < 3 * U,
           NEW d \in Int, d = old + g - (IF 1 > k THEN U ELSE 0),
           NEW e \in Int, e = next + 2 * g - (IF 2 > k THEN U ELSE 0),
           NEW up \in BOOLEAN, ~ up => 2 * d <= e,
           NEW down \in BOOLEAN, 1 > k => down,
           NEW s \in Int,
           s = IF d >= U /\ up THEN 1 ELSE IF d <= - U /\ down THEN -1 ELSE 0
    PROVE  - U < d - U * s /\ d - U * s < 2 * U
<1>1. CASE s = 1
    BY <1>1
<1>2. CASE s = -1
    BY <1>2
<1>3. CASE s = 0
    BY <1>3
<1> QED BY <1>1, <1>2, <1>3

\* The second: e is where the third is wanted, f how far the first is now.
LEMMA SecondFollows ==
    ASSUME NEW U \in Nat, U > 0, NEW g \in Int, 0 < g, 2 * g < U,
           NEW k \in 0..3, NEW old \in Int, -2 * U < old, old < 3 * U,
           NEW d \in Int, d = old + 2 * g - (IF 2 > k THEN U ELSE 0),
           NEW e \in Int, e < 2 * U,
           NEW f \in Int, - U < f,
           NEW up \in BOOLEAN, ~ up => d <= e + U,
           NEW down \in BOOLEAN, ~ down => d >= f - U,
           NEW s \in Int,
           s = IF d >= U /\ up THEN 1 ELSE IF d <= - U /\ down THEN -1 ELSE 0
    PROVE  -2 * U < d - U * s /\ d - U * s < 3 * U
<1>1. CASE s = 1
    BY <1>1
<1>2. CASE s = -1
    BY <1>2
<1>3. CASE s = 0
    BY <1>3
<1> QED BY <1>1, <1>2, <1>3

\* The third: f is how far the second is now.
LEMMA ThirdFollows ==
    ASSUME NEW U \in Nat, U > 0, NEW g \in Int, 0 < g, g < U,
           NEW k \in 0..3, NEW old \in Int, -3 * U < old, old < U,
           NEW d \in Int, d = old + g - (IF 3 > k THEN U ELSE 0),
           NEW f \in Int, -2 * U < f,
           NEW up \in BOOLEAN, k = 3 => up,
           NEW down \in BOOLEAN, ~ down => d >= f - U,
           NEW s \in Int,
           s = IF d >= U /\ up THEN 1 ELSE IF d <= - U /\ down THEN -1 ELSE 0
    PROVE  -3 * U < d - U * s /\ d - U * s < U
<1>1. CASE s = 1
    BY <1>1
<1>2. CASE s = -1
    BY <1>2
<1>3. CASE s = 0
    BY <1>3
<1> QED BY <1>1, <1>2, <1>3

LEMMA CountedValues ==
    ASSUME n \in [Markers -> Nat], NEW k \in 0..3, NEW i \in Markers
    PROVE  Counted(k)[i] = n[i] + (IF i > k THEN 1 ELSE 0)
    BY DEF Counted

LEMMA ShiftedValues ==
    ASSUME NEW at \in [Markers -> Nat], NEW i \in Inner, NEW j \in Markers
    PROVE  Shifted(at, i)[j] = IF j = i THEN at[i] + Step(at, i) ELSE at[j]
    BY DEF Shifted, Inner, Markers

\* The whole move keeps every marker within its distance.
LEMMA MoveFollows ==
    ASSUME p \in 1..(Den - 1), np \in [Markers -> Nat], Proportioned(np),
           n \in [Markers -> Nat], NEW last \in Nat, Apart(n, last), Follows(n, np),
           NEW k \in 0..3
    PROVE  Follows(Shifted(Shifted(Shifted(Counted(k), 1), 2), 3), Advanced)
<1> DEFINE n1 == Counted(k)
           n2 == Shifted(n1, 1)
           n3 == Shifted(n2, 2)
           n4 == Shifted(n3, 3)
           A == Advanced
           U == Unit
<1>1. /\ n1 \in [Markers -> Nat] /\ Apart(n1, last + 1)
      /\ n2 \in [Markers -> Nat] /\ Apart(n2, last + 1)
      /\ n3 \in [Markers -> Nat] /\ Apart(n3, last + 1)
    <2>1. n1 \in [Markers -> Nat] /\ Apart(n1, last + 1)
        BY CountedApart
    <2>2. 1 \in Inner /\ 2 \in Inner /\ last + 1 \in Nat
        BY DEF Inner
    <2>3. n2 \in [Markers -> Nat] /\ Apart(n2, last + 1)
        BY <2>1, <2>2, ShiftedApart
    <2>4. n3 \in [Markers -> Nat] /\ Apart(n3, last + 1)
        BY <2>2, <2>3, ShiftedApart
    <2> QED BY <2>1, <2>3, <2>4
<1>2. /\ n1[1] = n[1] + (IF 1 > k THEN 1 ELSE 0)
      /\ n1[2] = n[2] + (IF 2 > k THEN 1 ELSE 0)
      /\ n1[3] = n[3] + (IF 3 > k THEN 1 ELSE 0)
      /\ n1[4] = n[4] + 1
      /\ n1[0] = n[0]
    BY CountedValues DEF Markers
<1>3. /\ n2[0] = n1[0] /\ n2[1] = n1[1] + Step(n1, 1)
      /\ n2[2] = n1[2] /\ n2[3] = n1[3] /\ n2[4] = n1[4]
    BY <1>1, ShiftedValues DEF Inner, Markers
<1>4. /\ n3[1] = n2[1] /\ n3[2] = n2[2] + Step(n2, 2)
      /\ n3[3] = n2[3] /\ n3[4] = n2[4]
    BY <1>1, ShiftedValues DEF Inner, Markers
<1>5. /\ n4[1] = n3[1] /\ n4[2] = n3[2]
      /\ n4[3] = n3[3] + Step(n3, 3) /\ n4[4] = n3[4]
    BY <1>1, ShiftedValues DEF Inner, Markers
<1>6. /\ U \in Nat /\ U > 0 /\ p \in Nat /\ 0 < p /\ 2 * p < U
      /\ Den + p \in Nat /\ 0 < Den + p /\ Den + p < U
    BY UnitType
<1>7. /\ A \in [Markers -> Nat] /\ Proportioned(A)
      /\ A[1] = np[1] + p /\ A[2] = np[2] + 2 * p
      /\ A[3] = np[3] + Den + p /\ A[4] = np[4] + U
    BY AdvancedType
<1>8. /\ n[0] \in Nat /\ n[1] \in Nat /\ n[2] \in Nat /\ n[3] \in Nat /\ n[4] \in Nat
      /\ np[1] \in Nat /\ np[2] \in Nat /\ np[3] \in Nat /\ np[4] \in Nat
      /\ A[1] \in Nat /\ A[2] \in Nat /\ A[3] \in Nat /\ A[4] \in Nat
    BY <1>7 DEF Markers
<1>9. /\ n1[1] \in Nat /\ n1[2] \in Nat /\ n1[3] \in Nat /\ n1[4] \in Nat
      /\ n2[1] \in Nat /\ n3[2] \in Nat
    BY <1>1 DEF Markers
<1>10. /\ Step(n1, 1) \in {-1, 0, 1} /\ Step(n2, 2) \in {-1, 0, 1} /\ Step(n3, 3) \in {-1, 0, 1}
    BY <1>1, StepHasRoom DEF Inner
<1> DEFINE L1 == np[1] - U * n[1]
           L2 == np[2] - U * n[2]
           L3 == np[3] - U * n[3]
           d1 == A[1] - U * n1[1]
           d2 == A[2] - U * n1[2]
           d3 == A[3] - U * n1[3]
           s1 == Step(n1, 1)
           s2 == Step(n2, 2)
           s3 == Step(n3, 3)
<1>11. /\ L1 \in Int /\ L2 \in Int /\ L3 \in Int
       /\ d1 \in Int /\ d2 \in Int /\ d3 \in Int
    BY <1>6, <1>8, <1>9
<1>12. /\ d1 = L1 + p - (IF 1 > k THEN U ELSE 0)
       /\ d2 = L2 + 2 * p - (IF 2 > k THEN U ELSE 0)
       /\ d3 = L3 + (Den + p) - (IF 3 > k THEN U ELSE 0)
    <2>1. Den \in Nat
        BY UnitType
    <2>2. A[3] = np[3] + (Den + p)
        BY <1>6, <1>7, <1>8, <2>1
    <2>3. d1 = L1 + p - (IF 1 > k THEN U ELSE 0)
        BY <1>2, <1>6, <1>7, <1>8, CountedLag
    <2>4. d2 = L2 + 2 * p - (IF 2 > k THEN U ELSE 0)
        <3>1. 2 * p \in Nat /\ 2 \in 1..3
            BY <1>6
        <3>2. d2 = (np[2] + 2 * p) - U * (n[2] + (IF 2 > k THEN 1 ELSE 0))
            BY <1>2, <1>7
        <3> QED BY <1>6, <1>8, <3>1, <3>2, CountedLag
    <2>5. d3 = L3 + (Den + p) - (IF 3 > k THEN U ELSE 0)
        BY <1>2, <1>6, <1>8, <2>2, CountedLag
    <2> QED BY <2>3, <2>4, <2>5
<1>13. /\ - U < L1 /\ L1 < 2 * U /\ -2 * U < L2 /\ L2 < 3 * U /\ -3 * U < L3 /\ L3 < U
    BY DEF Follows
<1>14. A[1] - U * n2[1] = d1 - U * s1 /\ - U < d1 - U * s1 /\ d1 - U * s1 < 2 * U
    <2> DEFINE up == n1[2] - n1[1] > 1
               down == n1[0] - n1[1] < -1
    <2>1. s1 = IF d1 >= U /\ up THEN 1 ELSE IF d1 <= - U /\ down THEN -1 ELSE 0
        BY DEF Step
    <2>2. 1 > k => down
        BY <1>2, <1>8 DEF Apart
    <2>3. ASSUME ~ up PROVE 2 * d1 <= d2
        <3>1. n1[2] - n1[1] = 1 /\ n1[2] >= 2
            BY <1>1, <1>9, <2>3 DEF Apart
        <3>2. U * n1[2] = U * n1[1] + U
            BY <1>6, <1>9, <3>1, Adjacent
        <3>3. U * n1[2] >= 2 * U
            BY <1>6, <1>9, <3>1
        <3>4. U * n1[1] \in Int /\ U * n1[2] \in Int
            BY <1>6, <1>9
        <3>5. 2 * A[1] = A[2]
            BY <1>7 DEF Proportioned
        <3> QED BY <1>6, <1>8, <3>2, <3>3, <3>4, <3>5
    <2>4. up \in BOOLEAN /\ down \in BOOLEAN /\ s1 \in Int
        BY <1>10
    <2>5. - U < d1 - U * s1 /\ d1 - U * s1 < 2 * U
        <3> HIDE DEF d1, d2, L1, L2, s1, up, down, U
        <3> QED BY <1>6, <1>11, <1>12, <1>13, <2>1, <2>2, <2>3, <2>4, FirstFollows
    <2>6. U * (n1[1] + s1) = U * n1[1] + U * s1 /\ U * n1[1] \in Int /\ U * s1 \in Int
        BY <1>6, <1>9, <1>10
    <2>7. A[1] - U * n2[1] = d1 - U * s1
        BY <1>3, <1>8, <2>6
    <2> QED BY <2>5, <2>7
<1>15. A[2] - U * n3[2] = d2 - U * s2 /\ -2 * U < d2 - U * s2 /\ d2 - U * s2 < 3 * U
    <2> DEFINE up == n2[3] - n2[2] > 1
               down == n2[1] - n2[2] < -1
               f == A[1] - U * n2[1]
    <2>1. s2 = IF d2 >= U /\ up THEN 1 ELSE IF d2 <= - U /\ down THEN -1 ELSE 0
        BY <1>3 DEF Step
    <2>2. ASSUME ~ up PROVE d2 <= d3 + U
        <3>1. n1[3] - n1[2] = 1
            BY <1>1, <1>3, <1>9, <2>2 DEF Apart
        <3>2. U * n1[3] = U * n1[2] + U /\ U * n1[2] \in Int
            BY <1>6, <1>9, <3>1, Adjacent
        <3>3. A[2] <= A[3]
            BY <1>7, <1>8 DEF Proportioned
        <3> QED BY <1>6, <1>8, <3>2, <3>3
    <2>3. ASSUME ~ down PROVE d2 >= f - U
        <3>1. n1[2] - n2[1] = 1
            BY <1>1, <1>3, <1>9, <2>3 DEF Apart
        <3>2. U * n1[2] = U * n2[1] + U /\ U * n2[1] \in Int
            BY <1>6, <1>9, <3>1, Adjacent
        <3>3. A[1] <= A[2]
            BY <1>7, <1>8 DEF Proportioned
        <3> QED BY <1>6, <1>8, <3>2, <3>3
    <2>4. up \in BOOLEAN /\ down \in BOOLEAN /\ s2 \in Int /\ f \in Int
        BY <1>6, <1>8, <1>9, <1>10
    <2>5. d3 < 2 * U
        <3> HIDE DEF d3, L3, U
        <3> QED BY <1>6, <1>11, <1>12, <1>13
    <2>6. - U < f
        <3> HIDE DEF d1, s1, U
        <3> QED BY <1>14
    <2>7. -2 * U < d2 - U * s2 /\ d2 - U * s2 < 3 * U
        <3> HIDE DEF d2, d3, f, L2, s2, up, down, U
        <3> QED BY <1>6, <1>11, <1>12, <1>13, <2>1, <2>2, <2>3, <2>4, <2>5, <2>6, SecondFollows
    <2>8. U * (n1[2] + s2) = U * n1[2] + U * s2 /\ U * n1[2] \in Int /\ U * s2 \in Int
        BY <1>6, <1>9, <1>10
    <2>9. A[2] - U * n3[2] = d2 - U * s2
        BY <1>3, <1>4, <1>8, <2>8
    <2> QED BY <2>7, <2>9
<1>16. A[3] - U * n4[3] = d3 - U * s3 /\ -3 * U < d3 - U * s3 /\ d3 - U * s3 < U
    <2> DEFINE up == n3[4] - n3[3] > 1
               down == n3[2] - n3[3] < -1
               f == A[2] - U * n3[2]
    <2>1. s3 = IF d3 >= U /\ up THEN 1 ELSE IF d3 <= - U /\ down THEN -1 ELSE 0
        BY <1>3, <1>4 DEF Step
    <2>2. k = 3 => up
        BY <1>2, <1>3, <1>4, <1>8 DEF Apart
    <2>3. ASSUME ~ down PROVE d3 >= f - U
        <3>1. n1[3] - n3[2] = 1
            BY <1>1, <1>3, <1>4, <1>9, <2>3 DEF Apart
        <3>2. U * n1[3] = U * n3[2] + U /\ U * n3[2] \in Int
            BY <1>6, <1>9, <3>1, Adjacent
        <3>3. A[2] <= A[3]
            BY <1>7, <1>8 DEF Proportioned
        <3> QED BY <1>6, <1>8, <3>2, <3>3
    <2>4. up \in BOOLEAN /\ down \in BOOLEAN /\ s3 \in Int /\ f \in Int
        BY <1>6, <1>8, <1>9, <1>10
    <2>5. -2 * U < f
        <3> HIDE DEF d2, s2, U
        <3> QED BY <1>15
    <2>6. -3 * U < d3 - U * s3 /\ d3 - U * s3 < U
        <3> HIDE DEF d3, f, L3, s3, up, down, U
        <3> QED BY <1>6, <1>11, <1>12, <1>13, <2>1, <2>2, <2>3, <2>4, <2>5, ThirdFollows
    <2>7. U * (n1[3] + s3) = U * n1[3] + U * s3 /\ U * n1[3] \in Int /\ U * s3 \in Int
        BY <1>6, <1>9, <1>10
    <2>8. A[3] - U * n4[3] = d3 - U * s3
        BY <1>3, <1>4, <1>5, <1>8, <2>7
    <2> QED BY <2>6, <2>8
<1>17. n4[1] = n2[1] /\ n4[2] = n3[2] /\ n4[4] = n[4] + 1
    BY <1>2, <1>3, <1>4, <1>5
<1>18. A[4] = U * n4[4]
    <2>1. U * (n[4] + 1) = U * n[4] + U
        BY <1>6, <1>8
    <2> QED BY <1>7, <1>17, <2>1 DEF Follows
<1> HIDE DEF n1, n2, n3, n4, A, U, d1, d2, d3, s1, s2, s3
<1>19. Follows(n4, A)
    BY <1>14, <1>15, <1>16, <1>17, <1>18 DEF Follows, U
<1> QED BY <1>19 DEF n1, n2, n3, n4, A

-----------------------------------------------------------------------------
(* The invariant of the estimator.                                         *)

\* While samples are collected: least and greatest are among them.
Collected(samples, least, greatest) ==
    /\ \A j \in 1..Len(samples) : least <= samples[j] /\ samples[j] <= greatest
    /\ Len(samples) > 0 =>
        /\ \E j \in 1..Len(samples) : samples[j] = least
        /\ \E j \in 1..Len(samples) : samples[j] = greatest

Placed(heights, at, want, last, least, greatest) ==
    /\ Apart(at, last)
    /\ Ascending(heights) /\ heights[0] = least /\ heights[4] = greatest
    /\ Proportioned(want) /\ Follows(at, want)

P2Inv ==
    /\ TypeOK
    /\ lo \in Int /\ hi \in Int
    /\ q = NoMarkers => Collected(init, lo, hi)
    /\ q # NoMarkers => Placed(q, n, np, count - 1, lo, hi)

LEMMA SetApart ==
    ASSUME NEW h \in [Markers -> Scores]
    PROVE  h # NoMarkers
<1>1. DOMAIN h = 0..4 /\ DOMAIN NoMarkers = {} /\ 0 \in 0..4
    BY DEF Markers, NoMarkers
<1> QED BY <1>1

LEMMA InitP2 == Init => P2Inv
<1> SUFFICES ASSUME Init PROVE P2Inv
    OBVIOUS
<1>1. q = NoMarkers /\ init = <<>> /\ count = 0 /\ Len(init) = 0 /\ lo = 0 /\ hi = 0
    BY DEF Init
<1>2. TypeOK
    BY <1>1, P2Assumption DEF Init, TypeOK
<1>3. Collected(init, lo, hi)
    BY <1>1 DEF Collected
<1> QED BY <1>1, <1>2, <1>3 DEF P2Inv

\* The least and the greatest follow an appended sample.
LEMMA CollectedGrows ==
    ASSUME NEW samples \in Seq(Scores), NEW least \in Int, NEW greatest \in Int,
           Collected(samples, least, greatest), NEW x \in Scores,
           NEW least2, NEW greatest2,
           least2 = IF Len(samples) = 0 \/ x < least THEN x ELSE least,
           greatest2 = IF Len(samples) = 0 \/ x > greatest THEN x ELSE greatest
    PROVE  least2 \in Int /\ greatest2 \in Int
           /\ Collected(Append(samples, x), least2, greatest2)
<1> DEFINE s == Append(samples, x)
           m == Len(samples)
<1>1. Scores \subseteq Int /\ x \in Int
    BY P2Assumption
<1>2. m \in Nat /\ Len(s) = m + 1 /\ s[m + 1] = x
      /\ \A j \in 1..m : s[j] = samples[j] /\ samples[j] \in Int
    <2>1. m \in Nat /\ \A j \in 1..m : samples[j] \in Scores
        BY ElementOfSeq, LenProperties
    <2>2. Len(s) = m + 1 /\ s[m + 1] = x /\ \A j \in 1..m : s[j] = samples[j]
        BY AppendProperties
    <2> HIDE DEF s, m
    <2> QED BY <1>1, <2>1, <2>2
<1> HIDE DEF s, m
<1>3. least2 \in Int /\ greatest2 \in Int
    BY <1>1
<1>4. \A j \in 1..m : least <= samples[j] /\ samples[j] <= greatest
    BY DEF Collected, m
<1>5. m > 0 => /\ \E j \in 1..m : samples[j] = least
               /\ \E j \in 1..m : samples[j] = greatest
    BY DEF Collected, m
<1>6. /\ least2 = IF m = 0 \/ x < least THEN x ELSE least
      /\ greatest2 = IF m = 0 \/ x > greatest THEN x ELSE greatest
    BY DEF m
<1>7. \A j \in 1..(m + 1) : least2 <= s[j] /\ s[j] <= greatest2
    BY <1>1, <1>2, <1>3, <1>4, <1>6
<1>8. \E j \in 1..(m + 1) : s[j] = least2
    <2>1. CASE least2 = x BY <2>1, <1>2
    <2>2. CASE least2 # x BY <2>2, <1>2, <1>5, <1>6
    <2> QED BY <2>1, <2>2
<1>9. \E j \in 1..(m + 1) : s[j] = greatest2
    <2>1. CASE greatest2 = x BY <2>1, <1>2
    <2>2. CASE greatest2 # x BY <2>2, <1>2, <1>5, <1>6
    <2> QED BY <2>1, <2>2
<1>10. Collected(s, least2, greatest2)
    BY <1>2, <1>7, <1>8, <1>9 DEF Collected
<1> QED BY <1>3, <1>10 DEF s

LEMMA CollectKeeps ==
    ASSUME P2Inv, NEW x \in Scores, count < MaxCount, count' = count + 1,
           q = NoMarkers, Collect(x), Witnessed(x), p' = p
    PROVE  P2Inv'
<1>1. init \in Seq(Scores) /\ Len(init) = count /\ Len(init) < 4 /\ count \in Nat
      /\ n = NoMarkers /\ np = NoMarkers
    BY DEF P2Inv, TypeOK, Collect
<1>2. init' = Append(init, x) /\ q' = NoMarkers /\ n' = NoMarkers /\ np' = NoMarkers
    BY <1>1 DEF Collect, markers
<1>3. init' \in Seq(Scores) /\ Len(init') = count + 1
    BY <1>1, <1>2
<1>4. TypeOK'
    BY <1>1, <1>2, <1>3, P2Assumption DEF P2Inv, TypeOK
<1>5. lo' \in Int /\ hi' \in Int /\ Collected(init', lo', hi')
    BY <1>1, <1>2, CollectedGrows DEF P2Inv, Witnessed
<1> QED BY <1>2, <1>4, <1>5 DEF P2Inv

\* Sorting five samples brings their least and greatest to the ends.
LEMMA SortedEnds ==
    ASSUME NEW s \in Seq(Scores), Len(s) = 5, NEW least \in Int, NEW greatest \in Int,
           Collected(s, least, greatest), NEW order \in Orders, Sorted(Arranged(s, order))
    PROVE  /\ Arranged(s, order) \in [Markers -> Scores]
           /\ Ascending(Arranged(s, order))
           /\ Arranged(s, order)[0] = least /\ Arranged(s, order)[4] = greatest
<1> DEFINE h == Arranged(s, order)
<1>1. /\ order \in [Markers -> 1..5]
      /\ \A j \in 1..5 : \E i \in Markers : order[i] = j
    BY DEF Orders, Bijection, Injection, Surjection, IsInjective
<1>2. \A j \in 1..5 : s[j] \in Scores
    BY ElementOfSeq
<1>3. h \in [Markers -> Scores] /\ \A i \in Markers : h[i] = s[order[i]]
    BY <1>1, <1>2 DEF Arranged
<1>4. Ascending(h)
    BY <1>3, AscendingIsSorted
<1> HIDE DEF h
<1>5. h[0] \in Int /\ h[4] \in Int /\ \A i \in Markers : h[i] \in Int /\ h[0] <= h[i] /\ h[i] <= h[4]
    <2>1. h[0] \in Int /\ h[1] \in Int /\ h[2] \in Int /\ h[3] \in Int /\ h[4] \in Int
        BY <1>3, HeightsAreIntegers
    <2>2. \A i \in Markers : i \in {0, 1, 2, 3, 4}
        BY DEF Markers
    <2> QED BY <1>4, <2>1, <2>2 DEF Ascending
<1>6. 0 \in Markers /\ 4 \in Markers
    BY DEF Markers
<1>7. least <= h[0] /\ h[4] <= greatest
    BY <1>1, <1>3, <1>6 DEF Collected
<1>8. \E i \in Markers : h[i] = least
    BY <1>1, <1>3 DEF Collected
<1>9. \E i \in Markers : h[i] = greatest
    BY <1>1, <1>3 DEF Collected
<1>10. h[0] = least /\ h[4] = greatest
    BY <1>5, <1>7, <1>8, <1>9
<1> QED BY <1>3, <1>4, <1>10 DEF h

LEMMA PlaceKeeps ==
    ASSUME P2Inv, NEW x \in Scores, count < MaxCount, count' = count + 1,
           q = NoMarkers, Place(x), Witnessed(x), p' = p
    PROVE  P2Inv'
<1>1. init \in Seq(Scores) /\ Len(init) = count /\ Len(init) = 4 /\ count \in Nat
    BY DEF P2Inv, TypeOK, Place
<1>2. Append(init, x) \in Seq(Scores) /\ Len(Append(init, x)) = 5
    <2>1. Len(Append(init, x)) = Len(init) + 1
        BY <1>1, AppendProperties
    <2> QED BY <1>1, <2>1, AppendProperties
<1>3. lo' \in Int /\ hi' \in Int /\ Collected(Append(init, x), lo', hi')
    BY <1>1, CollectedGrows DEF P2Inv, Witnessed
<1>4. q' \in [Markers -> Scores] /\ Ascending(q') /\ q'[0] = lo' /\ q'[4] = hi'
    <2>1. PICK order \in Orders : /\ Sorted(Arranged(Append(init, x), order))
                                  /\ q' = Arranged(Append(init, x), order)
        BY DEF Place, Sort
    <2> DEFINE s == Append(init, x)
               least == lo'
               greatest == hi'
    <2>2. s \in Seq(Scores) /\ Len(s) = 5 /\ least \in Int /\ greatest \in Int
          /\ Collected(s, least, greatest) /\ Sorted(Arranged(s, order))
        BY <1>2, <1>3, <2>1
    <2> HIDE DEF s, least, greatest
    <2>3. /\ Arranged(s, order) \in [Markers -> Scores]
          /\ Ascending(Arranged(s, order))
          /\ Arranged(s, order)[0] = least /\ Arranged(s, order)[4] = greatest
        BY <2>2, SortedEnds
    <2> QED BY <2>1, <2>3 DEF s, least, greatest
<1>5. n' = [i \in Markers |-> i] /\ n' \in [Markers -> Nat]
      /\ n'[0] = 0 /\ n'[1] = 1 /\ n'[2] = 2 /\ n'[3] = 3 /\ n'[4] = 4
    BY DEF Place, Markers
<1>6. p \in Nat /\ 0 < p /\ p < Den /\ Den \in Nat
    BY P2Assumption DEF P2Inv, TypeOK
<1>7. /\ np' \in [Markers -> Nat]
      /\ np'[0] = 0 /\ np'[1] = 4 * p /\ np'[2] = 8 * p /\ np'[3] = 4 * (Den + p)
      /\ np'[4] = 8 * Den
    <2>1. /\ Increment(0) = 0 /\ Increment(1) = p /\ Increment(2) = 2 * p
          /\ Increment(3) = Den + p /\ Increment(4) = 2 * Den
        BY DEF Increment
    <2>2. np' = [i \in Markers |-> 4 * Increment(i)]
        BY DEF Place
    <2>3. \A i \in Markers : 4 * Increment(i) \in Nat
        BY <1>6, <2>1 DEF Markers
    <2>4. np'[0] = 4 * 0 /\ np'[1] = 4 * p /\ np'[2] = 4 * (2 * p)
          /\ np'[3] = 4 * (Den + p) /\ np'[4] = 4 * (2 * Den)
        BY <2>1, <2>2 DEF Markers
    <2> QED BY <1>6, <2>2, <2>3, <2>4
<1>8. Proportioned(np') /\ Follows(n', np')
    BY <1>5, <1>6, <1>7 DEF Proportioned, Follows, Unit
<1>9. Apart(n', 4) /\ count' = 5
    BY <1>1, <1>5 DEF Apart
<1>10. q' # NoMarkers
    BY <1>4, SetApart
<1>11. Placed(q', n', np', count' - 1, lo', hi')
    BY <1>4, <1>8, <1>9 DEF Placed
<1>12. init' = <<>> /\ init' \in Seq(Scores) /\ Len(init') = 0
    BY DEF Place
<1>13. TypeOK'
    BY <1>1, <1>4, <1>5, <1>7, <1>9, <1>10, <1>12, P2Assumption DEF P2Inv, TypeOK
<1> QED BY <1>3, <1>10, <1>11, <1>13 DEF P2Inv

LEMMA MoveKeeps ==
    ASSUME P2Inv, NEW x \in Scores, count < MaxCount, count' = count + 1,
           Move(x), Witnessed(x), p' = p
    PROVE  P2Inv'
<1>1. /\ q # NoMarkers /\ q \in [Markers -> Scores] /\ n \in [Markers -> Nat]
      /\ np \in [Markers -> Nat] /\ init = <<>> /\ count \in Nat /\ count >= 5
      /\ p \in 1..(Den - 1) /\ Placed(q, n, np, count - 1, lo, hi)
    BY P2Assumption DEF P2Inv, TypeOK, Move
<1>2. /\ Apart(n, count - 1) /\ count - 1 \in Nat /\ Ascending(q)
      /\ q[0] = lo /\ q[4] = hi /\ Proportioned(np) /\ Follows(n, np)
    BY <1>1 DEF Placed
<1>3. PICK k \in 0..3, a \in Scores, b \in Scores, c \in Scores :
        LET n1 == Counted(k)
            n2 == Shifted(n1, 1)
            n3 == Shifted(n2, 2)
            q1 == Widened(x)
            q2 == Raised(q1, 1, a)
            q3 == Raised(q2, 2, b)
        IN  /\ Height(q1, 1, Step(n1, 1), a)
            /\ Height(q2, 2, Step(n2, 2), b)
            /\ Height(q3, 3, Step(n3, 3), c)
            /\ q' = Raised(q3, 3, c)
            /\ n' = Shifted(n3, 3)
    BY DEF Move
<1> DEFINE n1 == Counted(k)
           n2 == Shifted(n1, 1)
           n3 == Shifted(n2, 2)
           q1 == Widened(x)
           q2 == Raised(q1, 1, a)
           q3 == Raised(q2, 2, b)
<1>4. /\ Height(q1, 1, Step(n1, 1), a)
      /\ Height(q2, 2, Step(n2, 2), b)
      /\ Height(q3, 3, Step(n3, 3), c)
      /\ q' = Raised(q3, 3, c)
      /\ n' = Shifted(n3, 3)
    BY <1>3
<1>5. 1 \in Inner /\ 2 \in Inner /\ 3 \in Inner
    BY DEF Inner
<1>6. n1 \in [Markers -> Nat] /\ Apart(n1, count)
    <2>1. (count - 1) + 1 = count
        BY <1>1
    <2> QED BY <1>1, <1>2, <2>1, CountedApart
<1>7. n2 \in [Markers -> Nat] /\ Apart(n2, count)
    BY <1>1, <1>5, <1>6, ShiftedApart
<1>8. n3 \in [Markers -> Nat] /\ Apart(n3, count)
    BY <1>1, <1>5, <1>7, ShiftedApart
<1>9. n' \in [Markers -> Nat] /\ Apart(n', count)
    BY <1>1, <1>4, <1>5, <1>8, ShiftedApart
<1>10. /\ Step(n1, 1) \in {-1, 0, 1} /\ Step(n2, 2) \in {-1, 0, 1} /\ Step(n3, 3) \in {-1, 0, 1}
    BY <1>5, <1>6, <1>7, <1>8, StepHasRoom
<1>11. /\ q1 \in [Markers -> Scores] /\ Ascending(q1)
       /\ q1[0] = IF x < q[0] THEN x ELSE q[0]
       /\ q1[4] = IF x > q[4] THEN x ELSE q[4]
    BY <1>1, <1>2, WidenedAscending
<1> HIDE DEF n1, n2, n3, q1
<1>12. q2 \in [Markers -> Scores] /\ Ascending(q2) /\ q2[0] = q1[0] /\ q2[4] = q1[4]
    BY <1>4, <1>5, <1>10, <1>11, RaisedAscending
<1> HIDE DEF q2
<1>13. q3 \in [Markers -> Scores] /\ Ascending(q3) /\ q3[0] = q1[0] /\ q3[4] = q1[4]
    BY <1>4, <1>5, <1>10, <1>12, RaisedAscending
<1> HIDE DEF q3
<1>14. q' \in [Markers -> Scores] /\ Ascending(q') /\ q'[0] = q1[0] /\ q'[4] = q1[4]
    BY <1>4, <1>5, <1>10, <1>13, RaisedAscending
<1>15. q'[0] = lo' /\ q'[4] = hi' /\ lo' \in Int /\ hi' \in Int
    <2>1. lo \in Int /\ hi \in Int /\ x \in Int
        BY P2Assumption DEF P2Inv
    <2>2. /\ lo' = IF x < lo THEN x ELSE lo
          /\ hi' = IF x > hi THEN x ELSE hi
        BY <1>1 DEF Witnessed
    <2> QED BY <1>2, <1>11, <1>14, <2>1, <2>2
<1>16. np' = Advanced /\ init' = init
    BY DEF Move
<1>17. np' \in [Markers -> Nat] /\ Proportioned(np')
    BY <1>1, <1>2, <1>16, AdvancedType
<1>18. Follows(n', np')
    <2>1. Follows(Shifted(Shifted(Shifted(Counted(k), 1), 2), 3), Advanced)
        BY <1>1, <1>2, MoveFollows
    <2> QED BY <1>4, <1>16, <2>1 DEF n1, n2, n3
<1>19. q' # NoMarkers
    BY <1>14, SetApart
<1>20. count' - 1 = count
    BY <1>1
<1>21. Placed(q', n', np', count' - 1, lo', hi')
    BY <1>9, <1>14, <1>15, <1>17, <1>18, <1>20 DEF Placed
<1>22. TypeOK'
    BY <1>1, <1>9, <1>14, <1>16, <1>17, <1>19, P2Assumption DEF P2Inv, TypeOK
<1> QED BY <1>15, <1>19, <1>21, <1>22 DEF P2Inv

LEMMA P2Invariant == Spec => []P2Inv
<1>1. P2Inv /\ [Next]_vars => P2Inv'
    <2> SUFFICES ASSUME P2Inv, [Next]_vars PROVE P2Inv'
        OBVIOUS
    <2>1. CASE UNCHANGED vars
        BY <2>1 DEF vars, markers, P2Inv, TypeOK, Placed, Collected
    <2>2. ASSUME NEW x \in Scores, Update(x) PROVE P2Inv'
        <3>1. count < MaxCount /\ count' = count + 1 /\ Witnessed(x) /\ p' = p
            BY <2>2 DEF Update
        <3>2. CASE q = NoMarkers /\ Collect(x) BY <3>1, <3>2, CollectKeeps
        <3>3. CASE q = NoMarkers /\ Place(x) BY <3>1, <3>3, PlaceKeeps
        <3>4. CASE Move(x) BY <3>1, <3>4, MoveKeeps
        <3> QED BY <2>2, <3>2, <3>3, <3>4 DEF Update
    <2> QED BY <2>1, <2>2 DEF Next
<1> QED BY <1>1, InitP2, PTL DEF Spec

-----------------------------------------------------------------------------

\* The estimator's variables have their types, for every quantile and stream
\* (stats.py:154-177).
THEOREM TypeCorrect == Spec => []TypeOK
<1>1. P2Inv => TypeOK
    BY DEF P2Inv
<1> QED BY <1>1, P2Invariant, PTL

\* No division of _parabolic() or _linear() is by zero: the five positions are
\* distinct, ascend and span all samples (stats.py:196-221).
THEOREM MarkersStayApart == Spec => []MarkersApart
<1>1. P2Inv => MarkersApart
    <2> SUFFICES ASSUME P2Inv, q # NoMarkers, NEW i \in 0..3
                 PROVE  n[0] = 0 /\ n[4] = count - 1 /\ n[i] < n[i + 1]
        BY DEF MarkersApart
    <2>1. Apart(n, count - 1)
        BY DEF P2Inv, Placed
    <2>2. i \in {0, 1, 2, 3}
        OBVIOUS
    <2> QED BY <2>1, <2>2 DEF Apart
<1> QED BY <1>1, P2Invariant, PTL

\* The heights ascend from the least to the greatest sample, whatever the
\* interpolations return (stats.py:181-209).
THEOREM HeightsStayOrdered == Spec => []HeightsOrdered
<1>1. P2Inv => HeightsOrdered
    <2> SUFFICES ASSUME P2Inv, q # NoMarkers
                 PROVE  Sorted(q) /\ q[0] = lo /\ q[4] = hi
        BY DEF HeightsOrdered
    <2>1. q \in [Markers -> Scores] /\ Ascending(q) /\ q[0] = lo /\ q[4] = hi
        BY DEF P2Inv, TypeOK, Placed
    <2> QED BY <2>1, AscendingIsSorted
<1> QED BY <1>1, P2Invariant, PTL

\* No marker is ever three positions from where the quantile wants it, for any
\* quantile and any stream (stats.py:198-210).
THEOREM MarkersKeepUp == Spec => []MarkersFollow
<1>1. P2Inv => MarkersFollow
    <2> SUFFICES ASSUME P2Inv, q # NoMarkers, NEW i \in Markers
                 PROVE  np[i] - Unit * n[i] \in (- 3 * Unit + 1)..(3 * Unit - 1)
        BY DEF MarkersFollow
    <2>1. Follows(n, np) /\ Proportioned(np) /\ Apart(n, count - 1)
        BY DEF P2Inv, Placed
    <2>2. Unit \in Nat /\ Unit > 0
        BY UnitType
    <2>3. n \in [Markers -> Nat] /\ np \in [Markers -> Nat]
        BY DEF P2Inv, TypeOK
    <2>4. n[i] \in Nat /\ np[i] \in Nat
        BY <2>3
    <2>5. np[i] - Unit * n[i] \in Int
        BY <2>2, <2>4
    <2>6. - 3 * Unit < np[i] - Unit * n[i] /\ np[i] - Unit * n[i] < 3 * Unit
        <3>1. CASE i = 0
            <4>1. Unit * n[0] = 0 /\ np[0] = 0
                BY <2>1, <2>2 DEF Apart, Proportioned
            <4> QED BY <3>1, <4>1, <2>2
        <3>2. CASE i = 1 BY <3>2, <2>1, <2>2, <2>5 DEF Follows
        <3>3. CASE i = 2 BY <3>3, <2>1, <2>2, <2>5 DEF Follows
        <3>4. CASE i = 3 BY <3>4, <2>1, <2>2, <2>5 DEF Follows
        <3>5. CASE i = 4
            <4>1. np[4] = Unit * n[4]
                BY <2>1 DEF Follows
            <4>2. np[i] - Unit * n[i] = 0
                BY <3>5, <4>1, <2>4, <2>5
            <4> QED BY <4>2, <2>2
        <3> QED BY <3>1, <3>2, <3>3, <3>4, <3>5 DEF Markers
    <2> QED BY <2>2, <2>5, <2>6
<1> QED BY <1>1, P2Invariant, PTL

-----------------------------------------------------------------------------
(* While a sample moves the markers.                                       *)

\* The positions inner marker i meets in the loop of update(), for a sample in
\* cell k.
Met(k, i) ==
    CASE i = 1 -> Counted(k)
      [] i = 2 -> Shifted(Counted(k), 1)
      [] i = 3 -> Shifted(Shifted(Counted(k), 1), 2)

\* Every sample falls into one cell.
OneCell ==
    q # NoMarkers =>
        \A x \in Scores : \E k \in 0..3 :
            InCell(x, k) /\ \A j \in 0..3 : InCell(x, j) => j = k

\* In the middle of an update too, what _parabolic() divides by is positive, and
\* what _linear() divides by has the sign of the step and is two or more: an
\* exact linear estimate lies halfway to its neighbour, or nearer.
DivisorsMet ==
    q # NoMarkers =>
        \A k \in 0..3, i \in Inner :
            LET at == Met(k, i)
                ds == Step(at, i)
            IN  /\ at[i + 1] - at[i] > 0 /\ at[i] - at[i - 1] > 0
                /\ at[i + 1] - at[i - 1] > 1
                /\ ds # 0 => ds * (at[i + ds] - at[i]) >= 2

LEMMA ApartDivides ==
    ASSUME NEW at \in [Markers -> Nat], NEW last \in Nat, Apart(at, last), NEW i \in Inner
    PROVE  /\ at[i + 1] - at[i] > 0 /\ at[i] - at[i - 1] > 0
           /\ at[i + 1] - at[i - 1] > 1
           /\ Step(at, i) # 0 => Step(at, i) * (at[i + Step(at, i)] - at[i]) >= 2
<1>1. i \in {1, 2, 3}
    BY DEF Inner
<1>2. /\ at[0] \in Nat /\ at[1] \in Nat /\ at[2] \in Nat /\ at[3] \in Nat /\ at[4] \in Nat
    BY DEF Markers
<1>3. at[i + 1] - at[i] > 0 /\ at[i] - at[i - 1] > 0 /\ at[i + 1] - at[i - 1] > 1
    BY <1>1, <1>2 DEF Apart
<1>4. at[i + 1] \in Nat /\ at[i] \in Nat /\ at[i - 1] \in Nat
    BY <1>1, <1>2
<1>5. CASE Step(at, i) = 1
    <2>1. at[i + 1] - at[i] > 1
        BY <1>5, StepHasRoom
    <2> QED BY <1>3, <1>4, <1>5, <2>1
<1>6. CASE Step(at, i) = -1
    <2>1. at[i - 1] - at[i] < -1
        BY <1>6, StepHasRoom
    <2>2. i + -1 = i - 1
        BY <1>1
    <2> QED BY <1>3, <1>4, <1>6, <2>1, <2>2
<1> QED BY <1>3, <1>5, <1>6, StepHasRoom

LEMMA MetApart ==
    ASSUME n \in [Markers -> Nat], NEW last \in Nat, Apart(n, last),
           NEW k \in 0..3, NEW i \in Inner
    PROVE  Met(k, i) \in [Markers -> Nat] /\ Apart(Met(k, i), last + 1)
<1> DEFINE n1 == Counted(k)
           n2 == Shifted(n1, 1)
           n3 == Shifted(n2, 2)
<1>1. n1 \in [Markers -> Nat] /\ Apart(n1, last + 1)
    BY CountedApart
<1>2. 1 \in Inner /\ 2 \in Inner /\ last + 1 \in Nat
    BY DEF Inner
<1> HIDE DEF n1
<1>3. n2 \in [Markers -> Nat] /\ Apart(n2, last + 1)
    BY <1>1, <1>2, ShiftedApart
<1> HIDE DEF n2
<1>4. n3 \in [Markers -> Nat] /\ Apart(n3, last + 1)
    BY <1>2, <1>3, ShiftedApart
<1> HIDE DEF n3
<1>5. i \in {1, 2, 3}
    BY DEF Inner
<1>6. CASE i = 1
    BY <1>1, <1>6 DEF Met, n1
<1>7. CASE i = 2
    BY <1>3, <1>7 DEF Met, n1, n2
<1>8. CASE i = 3
    BY <1>4, <1>8 DEF Met, n1, n2, n3
<1> QED BY <1>5, <1>6, <1>7, <1>8

\* No step of the loop over the inner markers divides by zero or by a number of
\* the wrong sign, although each marker that moves changes what the next one
\* divides by (stats.py:198-221).
THEOREM DivisorsStayPositive == Spec => []DivisorsMet
<1>1. P2Inv => DivisorsMet
    <2> SUFFICES ASSUME P2Inv, q # NoMarkers, NEW k \in 0..3, NEW i \in Inner
                 PROVE  LET at == Met(k, i)
                            ds == Step(at, i)
                        IN  /\ at[i + 1] - at[i] > 0 /\ at[i] - at[i - 1] > 0
                            /\ at[i + 1] - at[i - 1] > 1
                            /\ ds # 0 => ds * (at[i + ds] - at[i]) >= 2
        BY DEF DivisorsMet
    <2>1. n \in [Markers -> Nat] /\ Apart(n, count - 1) /\ count - 1 \in Nat
        BY DEF P2Inv, TypeOK, Placed
    <2>2. Met(k, i) \in [Markers -> Nat] /\ Apart(Met(k, i), (count - 1) + 1) /\ (count - 1) + 1 \in Nat
        BY <2>1, MetApart
    <2> QED BY <2>2, ApartDivides
<1> QED BY <1>1, P2Invariant, PTL

\* The chain of comparisons of update() finds exactly one cell for every sample,
\* whatever the interpolations made of the heights (stats.py:181-194).
THEOREM SamplesHaveOneCell == Spec => []OneCell
<1>1. P2Inv => OneCell
    <2> SUFFICES ASSUME P2Inv, q # NoMarkers, NEW x \in Scores
                 PROVE  \E k \in 0..3 :
                            InCell(x, k) /\ \A j \in 0..3 : InCell(x, j) => j = k
        BY DEF OneCell
    <2>1. q \in [Markers -> Scores] /\ Ascending(q)
        BY DEF P2Inv, TypeOK, Placed
    <2>2. q[1] \in Int /\ q[2] \in Int /\ q[3] \in Int /\ x \in Int
        BY <2>1, HeightsAreIntegers, P2Assumption
    <2>3. q[1] <= q[2] /\ q[2] <= q[3]
        BY <2>1 DEF Ascending
    <2>4. /\ InCell(x, 0) <=> x < q[1]
          /\ InCell(x, 1) <=> q[1] <= x /\ x < q[2]
          /\ InCell(x, 2) <=> q[2] <= x /\ x < q[3]
          /\ InCell(x, 3) <=> q[3] <= x
        BY DEF InCell
    <2>5. CASE x < q[1]
        BY <2>2, <2>3, <2>4, <2>5
    <2>6. CASE q[1] <= x /\ x < q[2]
        BY <2>2, <2>3, <2>4, <2>6
    <2>7. CASE q[2] <= x /\ x < q[3]
        BY <2>2, <2>3, <2>4, <2>7
    <2>8. CASE q[3] <= x
        BY <2>2, <2>3, <2>4, <2>8
    <2> QED BY <2>2, <2>5, <2>6, <2>7, <2>8
<1> QED BY <1>1, P2Invariant, PTL
=============================================================================
