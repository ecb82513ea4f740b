------------------------------ MODULE P2Quantile ------------------------------
(***************************************************************************)
(* stats.py: P2Quantile, the estimator behind the cutoff of the adaptive   *)
(* detector: five markers follow a quantile of a stream, each with a       *)
(* position (how many samples lie below it, roughly) and a height.         *)
(*                                                                         *)
(* Positions, desired positions and the order of the steps are exact; a    *)
(* desired position counts units of 1 / Unit.  Heights are abstracted to   *)
(* their order: the parabolic estimate may be any height, and is kept only *)
(* strictly between its neighbours, as in the code; the linear one may be  *)
(* any height between the two it interpolates.                             *)
(***************************************************************************)
EXTENDS Integers, Sequences, Functions

CONSTANTS
    Scores,     \* what the stream is made of, and the heights between
    Den,        \* quantiles are multiples of 1 / Den
    Quantiles,  \* those the constructor is called with, times Den
    MaxCount    \* bound: samples

ASSUME P2Assumption ==
    /\ Scores \subseteq Int /\ Scores # {}
    /\ Den \in Nat \ {0}
    /\ Quantiles \subseteq 1..(Den - 1)
    /\ MaxCount \in Nat

VARIABLES
    p,      \* times Den
    count,
    init,   \* _init, the samples before the markers are set
    q,      \* _q, heights; the empty function while init collects
    n,      \* _n, positions
    np      \* _np, desired positions, in units of 1 / Unit

\* History: the least and the greatest sample so far.
VARIABLES lo, hi

markers == <<q, n, np>>
vars == <<p, count, init, markers, lo, hi>>

Markers == 0..4
Inner == 1..3
Unit == 2 * Den
NoMarkers == [i \in {} |-> 0]

\* _dn: what a sample adds to the desired positions.
Increment(i) == CASE i = 0 -> 0
                  [] i = 1 -> p
                  [] i = 2 -> 2 * p
                  [] i = 3 -> Den + p
                  [] i = 4 -> 2 * Den

Sorted(f) == \A i, j \in Markers : i <= j => f[i] <= f[j]

Init ==
    /\ p \in Quantiles
    /\ count = 0
    /\ init = <<>>
    /\ q = NoMarkers /\ n = NoMarkers /\ np = NoMarkers
    /\ lo = 0 /\ hi = 0

Witnessed(x) ==
    /\ lo' = IF count = 0 \/ x < lo THEN x ELSE lo
    /\ hi' = IF count = 0 \/ x > hi THEN x ELSE hi

-----------------------------------------------------------------------------
(* The first five samples are kept; the fifth sets the markers.            *)

Collect(x) ==
    /\ Len(init) < 4
    /\ init' = Append(init, x)
    /\ UNCHANGED markers

Orders == Bijection(Markers, 1..5)

Arranged(samples, order) == [i \in Markers |-> samples[order[i]]]

\* The heights are the five samples in ascending order.
Sort(samples) ==
    \E order \in Orders :
        /\ Sorted(Arranged(samples, order))
        /\ q' = Arranged(samples, order)

\* Slip: the desired positions of the published algorithm, which count from 1.
PlacedFromOne(x) ==
    /\ Len(init) = 4
    /\ Sort(Append(init, x))
    /\ n' = [i \in Markers |-> i]
    /\ np' = [i \in Markers |-> Unit + 4 * Increment(i)]
    /\ init' = <<>>

\* Slip: the samples are kept after the markers are set.
PlacedKeeping(x) ==
    /\ Len(init) = 4
    /\ Sort(Append(init, x))
    /\ n' = [i \in Markers |-> i]
    /\ np' = [i \in Markers |-> 4 * Increment(i)]
    /\ init' = Append(init, x)

Place(x) ==
    /\ Len(init) = 4
    /\ Sort(Append(init, x))
    /\ n' = [i \in Markers |-> i]
    /\ np' = [i \in Markers |-> 4 * Increment(i)]
    /\ init' = <<>>

-----------------------------------------------------------------------------
(* Every later sample moves the markers.                                   *)

\* The outer heights are those of the extreme samples.
Widened(x) == [i \in Markers |-> CASE i = 0 /\ x < q[0] -> x
                                   [] i = 4 /\ x > q[4] -> x
                                   [] OTHER -> q[i]]

\* The cell x falls into: the marker below it, 0 and 3 taking what lies outside.
InCell(x, k) ==
    /\ k \in 0..3
    /\ k > 0 => q[k] <= x
    /\ k < 3 => x < q[k + 1]

\* Positions above the cell have one more sample below them.
Counted(k) == [i \in Markers |-> IF i > k THEN n[i] + 1 ELSE n[i]]

Advanced == [i \in Markers |-> np[i] + Increment(i)]

\* Slip: a marker moves onto its neighbour.
StepOnto(at, i) ==
    LET d == Advanced[i] - Unit * at[i]
    IN  IF d >= Unit /\ at[i + 1] - at[i] >= 1 THEN 1
        ELSE IF d <= - Unit /\ at[i - 1] - at[i] < -1 THEN -1
        ELSE 0

\* Where inner marker i goes: one position towards the desired one, if it is a
\* whole position away and there is room.
Step(at, i) ==
    LET d == Advanced[i] - Unit * at[i]
    IN  IF d >= Unit /\ at[i + 1] - at[i] > 1 THEN 1
        ELSE IF d <= - Unit /\ at[i - 1] - at[i] < -1 THEN -1
        ELSE 0

Shifted(at, i) == [at EXCEPT ![i] = @ + Step(at, i)]

Between(h, a, b) == (a <= h /\ h <= b) \/ (b <= h /\ h <= a)

\* Slip: the parabolic estimate is kept wherever it lies.
AnyHeight(heights, i, ds, h) == ds = 0 => h = heights[i]

\* The height inner marker i may take when it moves by ds: a parabolic
\* estimate inside its neighbours, or else a linear one.
Height(heights, i, ds, h) ==
    IF ds = 0 THEN h = heights[i]
    ELSE \/ heights[i - 1] < h /\ h < heights[i + 1]
         \/ Between(h, heights[i], heights[i + ds])

Raised(heights, i, h) == [heights EXCEPT ![i] = h]

Move(x) ==
    /\ q # NoMarkers
    /\ \E k \in 0..3 :
        /\ InCell(x, k)
        /\ LET n1 == Counted(k)
               n2 == Shifted(n1, 1)
               n3 == Shifted(n2, 2)
               q1 == Widened(x)
           IN  \E a, b, c \in Scores :
                LET q2 == Raised(q1, 1, a)
                    q3 == Raised(q2, 2, b)
                IN  /\ Height(q1, 1, Step(n1, 1), a)
                    /\ Height(q2, 2, Step(n2, 2), b)
                    /\ Height(q3, 3, Step(n3, 3), c)
                    /\ q' = Raised(q3, 3, c)
                    /\ n' = Shifted(n3, 3)
    /\ np' = Advanced
    /\ UNCHANGED init

Update(x) ==
    /\ count < MaxCount
    /\ count' = count + 1
    /\ IF q = NoMarkers THEN Collect(x) \/ Place(x) ELSE Move(x)
    /\ Witnessed(x)
    /\ UNCHANGED p

Next == \E x \in Scores : Update(x)

Spec == Init /\ [][Next]_vars

-----------------------------------------------------------------------------

TypeOK ==
    /\ p \in Quantiles
    /\ count \in 0..MaxCount
    /\ init \in Seq(Scores) /\ Len(init) <= 4
    /\ q = NoMarkers => n = NoMarkers /\ np = NoMarkers /\ Len(init) = count
    /\ q # NoMarkers =>
        /\ q \in [Markers -> Scores]
        /\ n \in [Markers -> Nat]
        /\ np \in [Markers -> Nat]
        /\ init = <<>> /\ count >= 5

\* No two markers ever share a position, and they span all samples: the
\* divisors of both estimates are never zero, and their signs those the
\* interpolation relies on (stats.py:196-221).
MarkersApart ==
    q # NoMarkers =>
        /\ n[0] = 0 /\ n[4] = count - 1
        /\ \A i \in 0..3 : n[i] < n[i + 1]

\* Whatever the moves, the heights stay in order between the least and the
\* greatest sample, so that every sample has one cell (stats.py:181-194).
HeightsOrdered ==
    q # NoMarkers => Sorted(q) /\ q[0] = lo /\ q[4] = hi

\* A marker held up by its neighbours is never three positions from where the
\* quantile wants it, however lopsided the stream (stats.py:198-210).
MarkersFollow ==
    q # NoMarkers =>
        \A i \in Markers : np[i] - Unit * n[i] \in (- 3 * Unit + 1)..(3 * Unit - 1)
=============================================================================
