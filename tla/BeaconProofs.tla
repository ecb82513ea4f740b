---------------------------- MODULE BeaconProofs ----------------------------
(***************************************************************************)
(* The invariants of BeaconDetector, for every set of destinations, every  *)
(* length of the histories, every cap and every mute.                      *)
(*                                                                         *)
(* What is remembered and forgotten does not depend on the test of the     *)
(* intervals; what is reported does.  The test adds up a fold over the     *)
(* positions of a history: that the fold is the sum it should be is shown  *)
(* for equal squares, from the least set of positions it might get wrong.  *)
(***************************************************************************)
EXTENDS Beacon, FiniteSetTheorems, SequenceTheorems, WellFoundedInduction, TLAPS

Ascending(h) == \A i, j \in 1 .. Len(h) : i < j => h[i] < h[j]

\* h holds the latest of the times all: all of them, or as many as it can.
Holds(h, all) ==
    /\ \A i \in 1 .. Len(h) : h[i] \in all
    /\ \A t \in all : \/ \E i \in 1 .. Len(h) : h[i] = t
                      \/ Len(h) = History /\ t < h[1]

\* The contacts of a destination since it was last forgotten.
Since(times, first) == {t \in times : t >= first}

\* The same for every destination, with the clock ahead of all contacts.
HistoriesHold ==
    /\ \A ip \in Ips : since[ip] <= now /\ \A t \in contacts[ip] : t <= now
    /\ \A ip \in Ips : hist[ip] # <<>> =>
           Ascending(hist[ip]) /\ Holds(hist[ip], Since(contacts[ip], since[ip]))

\* A mute is what is left of it since the last report.
MuteIsQuiet == \A ip \in Ips : cooldown[ip] = CooldownWindows - quiet[ip]

HistoryInv == TypeOK /\ HistoriesHold

-----------------------------------------------------------------------------
(* Deques.                                                                 *)

LEMMA PushedProperties ==
    ASSUME NEW S, NEW h \in Seq(S), NEW ts \in S, Len(h) <= History
    PROVE  /\ Pushed(h, ts) \in Seq(S)
           /\ Pushed(h, ts) # <<>>
           /\ Len(Pushed(h, ts)) \in Nat \ {0}
           /\ Len(Pushed(h, ts)) <= History
           /\ Pushed(h, ts)[Len(Pushed(h, ts))] = ts
<1>0. Len(h) \in Nat /\ History \in Nat /\ History >= 3
  BY LenProperties, BeaconAssumption
<1>1. CASE Len(h) < History
  <2>1. Pushed(h, ts) = Append(h, ts)
    BY <1>1 DEF Pushed
  <2>2. QED
    BY <1>0, <1>1, <2>1, AppendProperties
<1>2. CASE ~ Len(h) < History
  <2>1. Pushed(h, ts) = Append(Tail(h), ts) /\ Len(h) = History
    BY <1>0, <1>2 DEF Pushed
  <2>2. h # <<>>
    BY <1>0, <2>1, EmptySeq
  <2>3. Tail(h) \in Seq(S) /\ Len(Tail(h)) = History - 1
    BY <2>1, <2>2, HeadTailProperties
  <2>4. /\ Append(Tail(h), ts) \in Seq(S) /\ Append(Tail(h), ts) # <<>>
        /\ Len(Append(Tail(h), ts)) = Len(Tail(h)) + 1
        /\ Append(Tail(h), ts)[Len(Tail(h)) + 1] = ts
    BY <2>3, AppendProperties
  <2>5. QED
    BY <1>0, <2>1, <2>3, <2>4
<1>3. QED
  BY <1>1, <1>2

\* What is in a deque after a push: the elements it had, or all but the oldest.
LEMMA PushedElements ==
    ASSUME NEW S, NEW h \in Seq(S), NEW ts \in S, Len(h) <= History
    PROVE  \/ /\ Len(h) < History /\ Len(Pushed(h, ts)) = Len(h) + 1
              /\ \A i \in 1 .. Len(h) : Pushed(h, ts)[i] = h[i]
           \/ /\ Len(h) = History /\ Len(Pushed(h, ts)) = History
              /\ \A i \in 1 .. History - 1 : Pushed(h, ts)[i] = h[i + 1]
<1>0. Len(h) \in Nat /\ History \in Nat /\ History >= 3
  BY LenProperties, BeaconAssumption
<1>1. CASE Len(h) < History
  <2>1. Pushed(h, ts) = Append(h, ts)
    BY <1>1 DEF Pushed
  <2>2. QED
    BY <1>1, <2>1, AppendProperties
<1>2. CASE ~ Len(h) < History
  <2>1. Pushed(h, ts) = Append(Tail(h), ts) /\ Len(h) = History
    BY <1>0, <1>2 DEF Pushed
  <2>2. h # <<>>
    BY <1>0, <2>1, EmptySeq
  <2>3. /\ Tail(h) \in Seq(S) /\ Len(Tail(h)) = History - 1
        /\ \A i \in 1 .. Len(Tail(h)) : Tail(h)[i] = h[i + 1]
    BY <2>1, <2>2, HeadTailProperties
  <2>4. /\ Len(Append(Tail(h), ts)) = Len(Tail(h)) + 1
        /\ \A i \in 1 .. Len(Tail(h)) : Append(Tail(h), ts)[i] = Tail(h)[i]
    BY <2>3, AppendProperties
  <2>5. QED
    BY <1>0, <2>1, <2>3, <2>4
<1>3. QED
  BY <1>1, <1>2

\* A deque that holds the latest times holds the latest after a push.
LEMMA PushedHolds ==
    ASSUME NEW all \in SUBSET Nat, NEW h \in Seq(Nat), NEW ts \in Nat, Len(h) <= History,
           Ascending(h), Holds(h, all), \A t \in all : t < ts
    PROVE  Ascending(Pushed(h, ts)) /\ Holds(Pushed(h, ts), all \union {ts})
<1> DEFINE p == Pushed(h, ts)
<1>0. /\ Len(h) \in Nat /\ History \in Nat /\ History >= 3
      /\ \A i \in 1 .. Len(h) : h[i] \in all /\ h[i] \in Nat
  BY LenProperties, ElementOfSeq, BeaconAssumption DEF Holds
<1>1. Len(p) \in Nat \ {0} /\ p[Len(p)] = ts
  BY PushedProperties
<1>2. CASE Len(h) < History /\ Len(p) = Len(h) + 1 /\ \A i \in 1 .. Len(h) : p[i] = h[i]
  <2> HIDE DEF p
  <2>1. Ascending(p)
    BY <1>0, <1>1, <1>2 DEF Ascending
  <2>2. \A i \in 1 .. Len(p) : p[i] \in all \union {ts}
    BY <1>0, <1>1, <1>2
  <2>3. ASSUME NEW t \in all \union {ts}
        PROVE  \E i \in 1 .. Len(p) : p[i] = t
    <3>1. CASE t = ts
      BY <1>1, <3>1
    <3>2. CASE t \in all
      <4>1. PICK i \in 1 .. Len(h) : h[i] = t
        BY <1>0, <1>2, <3>2 DEF Holds
      <4>2. i \in 1 .. Len(p) /\ p[i] = t
        BY <1>0, <1>2, <4>1
      <4>3. QED
        BY <4>2
    <3>3. QED
      BY <3>1, <3>2
  <2>4. QED
    BY <2>1, <2>2, <2>3 DEF Holds, p
<1>3. CASE Len(h) = History /\ Len(p) = History /\ \A i \in 1 .. History - 1 : p[i] = h[i + 1]
  <2> HIDE DEF p
  <2>1. Ascending(p)
    BY <1>0, <1>1, <1>3 DEF Ascending
  <2>2. \A i \in 1 .. Len(p) : p[i] \in all \union {ts}
    BY <1>0, <1>1, <1>3
  <2>3. p[1] = h[2] /\ h[1] < h[2]
    BY <1>0, <1>3 DEF Ascending
  <2>4. ASSUME NEW t \in all \union {ts}
        PROVE  \/ \E i \in 1 .. Len(p) : p[i] = t
               \/ Len(p) = History /\ t < p[1]
    <3>1. CASE t = ts
      BY <1>1, <3>1
    <3>2. CASE t \in all /\ t < h[1]
      BY <1>0, <1>3, <2>3, <3>2
    <3>3. ASSUME NEW i \in 1 .. Len(h), h[i] = t
          PROVE  \/ \E k \in 1 .. Len(p) : p[k] = t
                 \/ Len(p) = History /\ t < p[1]
      <4>1. CASE i = 1
        BY <1>3, <2>3, <3>3, <4>1
      <4>2. CASE i # 1
        <5>1. i - 1 \in 1 .. History - 1 /\ i - 1 \in 1 .. Len(p) /\ (i - 1) + 1 = i
          BY <1>0, <1>3, <4>2
        <5>2. p[i - 1] = t
          BY <1>3, <3>3, <5>1
        <5>3. QED
          BY <5>1, <5>2
      <4>3. QED
        BY <4>1, <4>2
    <3>4. QED
      BY <3>1, <3>2, <3>3 DEF Holds
  <2>5. QED
    BY <2>1, <2>2, <2>4 DEF Holds, p
<1>4. QED
  BY <1>2, <1>3, PushedElements

-----------------------------------------------------------------------------
(* Counting.                                                               *)

\* An ascending stretch has as many members as positions.
LEMMA StretchCardinality ==
    ASSUME NEW h, NEW m \in Nat, NEW k \in Nat, m <= k,
           \A i \in m + 1 .. k : h[i] \in Nat,
           \A i, j \in m + 1 .. k : i < j => h[i] < h[j]
    PROVE  /\ IsFiniteSet({h[i] : i \in m + 1 .. k})
           /\ Cardinality({h[i] : i \in m + 1 .. k}) = k - m
<1> DEFINE T == {h[i] : i \in m + 1 .. k}
           f == [x \in 1 .. k - m |-> h[m + x]]
<1>1. k - m \in Nat
  OBVIOUS
<1>2. f \in [1 .. k - m -> T]
  OBVIOUS
<1>3. \A x, y \in 1 .. k - m : x # y => f[x] # f[y]
  <2> SUFFICES ASSUME NEW x \in 1 .. k - m, NEW y \in 1 .. k - m, x < y
               PROVE  f[x] # f[y]
    OBVIOUS
  <2>1. m + x \in m + 1 .. k /\ m + y \in m + 1 .. k /\ m + x < m + y
    OBVIOUS
  <2>2. h[m + x] < h[m + y] /\ h[m + x] \in Nat /\ h[m + y] \in Nat
    BY <2>1
  <2>3. QED
    BY <2>2
<1>4. \A t \in T : \E x \in 1 .. k - m : f[x] = t
  <2> SUFFICES ASSUME NEW i \in m + 1 .. k
               PROVE  \E x \in 1 .. k - m : f[x] = h[i]
    OBVIOUS
  <2>1. i - m \in 1 .. k - m /\ f[i - m] = h[i]
    OBVIOUS
  <2>2. QED
    BY <2>1
<1>5. ExistsBijection(1 .. k - m, T)
  <2>1. f \in Bijection(1 .. k - m, T)
    <3> HIDE DEF T, f
    <3> QED
      BY <1>2, <1>3, <1>4 DEF Bijection, Injection, Surjection, IsInjective
  <2>2. QED
    BY <2>1 DEF ExistsBijection
<1>6. IsFiniteSet(T)
  <2> HIDE DEF T, f
  <2> QED
    BY <1>1, <1>5, FS_NatBijection
<1>7. Cardinality(T) = k - m
  <2> HIDE DEF T, f
  <2> QED
    BY <1>1, <1>5, FS_CountingElements
<1>8. QED
  BY <1>6, <1>7

\* A deque that holds the latest of a set of times is the last History of it.
LEMMA HeldIsRecent ==
    ASSUME NEW all \in SUBSET Times, NEW h \in Seq(Nat), h # <<>>, Len(h) <= History,
           Ascending(h), Holds(h, all)
    PROVE  {h[i] : i \in 1 .. Len(h)}
             = {t \in all : Cardinality({u \in all : u > t}) < History}
<1>0. /\ Len(h) \in Nat \ {0} /\ History \in Nat
      /\ \A i \in 1 .. Len(h) : h[i] \in all /\ h[i] \in Nat
      /\ all \subseteq Nat /\ IsFiniteSet(all)
  <2>1. IsFiniteSet(1 .. Horizon)
    BY BeaconAssumption, FS_Interval
  <2>2. IsFiniteSet(all)
    BY <2>1, FS_Subset DEF Times
  <2>3. QED
    BY <2>2, EmptySeq, ElementOfSeq, BeaconAssumption DEF Holds, Times
<1>1. ASSUME NEW i \in 1 .. Len(h)
      PROVE  Cardinality({u \in all : u > h[i]}) < History
  <2>1. {u \in all : u > h[i]} = {h[j] : j \in i + 1 .. Len(h)}
    <3>1. ASSUME NEW j \in i + 1 .. Len(h)
          PROVE  h[j] \in all /\ h[j] > h[i]
      BY <1>0, <3>1 DEF Ascending
    <3>2. ASSUME NEW u \in all, u > h[i]
          PROVE  \E j \in i + 1 .. Len(h) : h[j] = u
      <4>1. ~ u < h[1]
        BY <1>0, <3>2 DEF Ascending
      <4>2. PICK j \in 1 .. Len(h) : h[j] = u
        BY <4>1 DEF Holds
      <4>3. j \in i + 1 .. Len(h)
        BY <1>0, <3>2, <4>2 DEF Ascending
      <4>4. QED
        BY <4>2, <4>3
    <3>3. QED
      BY <3>1, <3>2
  <2>2. Cardinality({h[j] : j \in i + 1 .. Len(h)}) = Len(h) - i
    <3>1. /\ i \in Nat /\ Len(h) \in Nat /\ i <= Len(h)
          /\ \A j \in i + 1 .. Len(h) : h[j] \in Nat
          /\ \A j, k \in i + 1 .. Len(h) : j < k => h[j] < h[k]
      BY <1>0 DEF Ascending
    <3>2. QED
      BY <3>1, StretchCardinality
  <2>3. Cardinality({u \in all : u > h[i]}) = Len(h) - i
    BY <2>1, <2>2
  <2>4. Len(h) - i < History
    BY <1>0
  <2>5. QED
    BY <2>3, <2>4
<1>2. ASSUME NEW t \in all, ~ \E i \in 1 .. Len(h) : h[i] = t
      PROVE  ~ Cardinality({u \in all : u > t}) < History
  <2> DEFINE held == {h[j] : j \in 0 + 1 .. Len(h)}
             above == {u \in all : u > t}
  <2>1. Len(h) = History /\ t < h[1]
    BY <1>2 DEF Holds
  <2>2. ASSUME NEW j \in 0 + 1 .. Len(h)
        PROVE  h[j] \in above
    <3>1. h[1] <= h[j] /\ h[1] \in Nat /\ h[j] \in Nat /\ h[j] \in all /\ t \in Nat
      BY <1>0 DEF Ascending
    <3>2. QED
      BY <2>1, <3>1
  <2>3. Cardinality(held) = History
    <3>1. /\ 0 \in Nat /\ Len(h) \in Nat /\ 0 <= Len(h)
          /\ \A j \in 0 + 1 .. Len(h) : h[j] \in Nat
          /\ \A j, k \in 0 + 1 .. Len(h) : j < k => h[j] < h[k]
      BY <1>0 DEF Ascending
    <3>2. Cardinality(held) = Len(h) - 0
      BY <3>1, StretchCardinality
    <3>3. QED
      BY <1>0, <2>1, <3>2
  <2>4. held \in SUBSET above
    BY <2>2
  <2>5. above \in SUBSET all
    OBVIOUS
  <2> HIDE DEF held, above
  <2>6. IsFiniteSet(above) /\ Cardinality(held) <= Cardinality(above)
        /\ Cardinality(above) \in Nat
    BY <1>0, <2>4, <2>5, FS_Subset, FS_CardinalityType
  <2>7. ~ Cardinality(above) < History
    BY <1>0, <2>3, <2>6
  <2>8. QED
    BY <2>7 DEF above
<1>3. QED
  BY <1>0, <1>1, <1>2
-----------------------------------------------------------------------------
(* Type correctness.                                                       *)

LEMMA TypeInit == Init => TypeOK
BY BeaconAssumption DEF Init, TypeOK, Times

\* The parts of a window.
LEMMA GrownType ==
    ASSUME TypeOK, NEW ips \in SUBSET Ips, NEW ts \in Times
    PROVE  /\ Grown(ips, ts) \in [Ips -> Seq(Times)]
           /\ \A ip \in Ips : Len(Grown(ips, ts)[ip]) <= History
<1>1. ASSUME NEW ip \in Ips
      PROVE  /\ Pushed(hist[ip], ts) \in Seq(Times) /\ Len(Pushed(hist[ip], ts)) <= History
             /\ hist[ip] \in Seq(Times) /\ Len(hist[ip]) <= History
  BY PushedProperties DEF TypeOK
<1>2. QED
  BY <1>1 DEF Grown

LEMMA CountedDownType ==
    ASSUME TypeOK, NEW ip \in Ips
    PROVE  /\ CountedDown[ip] \in 0 .. CooldownWindows
           /\ CountedDown[ip] = IF cooldown[ip] > 0 THEN cooldown[ip] - 1 ELSE 0
BY BeaconAssumption DEF TypeOK, CountedDown, Decremented

\* A window, one destination at a time: what is kept of its history, its mute,
\* its contacts.
LEMMA WindowFacts ==
    ASSUME TypeOK, NEW ips \in SUBSET Ips, NEW ts \in Times, ts > now, Window(ips, ts)
    PROVE  /\ \E K \in Kept(Grown(ips, ts)) :
                  hist' = [ip \in Ips |-> IF ip \in K THEN Grown(ips, ts)[ip] ELSE <<>>]
           /\ fired' \subseteq ips
           /\ \A ip \in fired' : CountedDown[ip] = 0
           /\ cooldown' = [ip \in Ips |-> IF ip \in fired' THEN CooldownWindows
                                                          ELSE CountedDown[ip]]
           /\ quiet' = [ip \in Ips |-> IF ip \in fired' THEN 0
                                       ELSE Capped(quiet[ip], CooldownWindows)]
           /\ now' = ts
           /\ contacts' = [ip \in Ips |-> IF ip \in ips THEN contacts[ip] \union {ts}
                                                        ELSE contacts[ip]]
           /\ since' = [ip \in Ips |-> IF ip \in ips /\ hist[ip] = <<>> THEN ts
                                                                        ELSE since[ip]]
BY DEF Window, Reported

LEMMA WindowType ==
    ASSUME TypeOK, NEW ips \in SUBSET Ips, NEW ts \in Times, ts > now, Window(ips, ts)
    PROVE  TypeOK'
<1>1. hist' \in [Ips -> Seq(Times)] /\ \A ip \in Ips : Len(hist'[ip]) <= History
  <2>1. PICK K \in Kept(Grown(ips, ts)) :
          hist' = [ip \in Ips |-> IF ip \in K THEN Grown(ips, ts)[ip] ELSE <<>>]
    BY WindowFacts
  <2>2. <<>> \in Seq(Times) /\ Len(<<>>) <= History
    BY EmptySeq, BeaconAssumption
  <2>3. QED
    BY <2>1, <2>2, GrownType
<1>2. cooldown' \in [Ips -> 0 .. CooldownWindows] /\ quiet' \in [Ips -> 0 .. CooldownWindows]
  <2>1. ASSUME NEW ip \in Ips
        PROVE  /\ CountedDown[ip] \in 0 .. CooldownWindows
               /\ Capped(quiet[ip], CooldownWindows) \in 0 .. CooldownWindows
               /\ CooldownWindows \in 0 .. CooldownWindows /\ 0 \in 0 .. CooldownWindows
    BY BeaconAssumption, CountedDownType DEF TypeOK, Capped
  <2>2. /\ cooldown' = [ip \in Ips |-> IF ip \in fired' THEN CooldownWindows
                                                    ELSE CountedDown[ip]]
        /\ quiet' = [ip \in Ips |-> IF ip \in fired' THEN 0
                                    ELSE Capped(quiet[ip], CooldownWindows)]
    BY WindowFacts
  <2>3. QED
    BY <2>1, <2>2
<1>3. /\ contacts' \in [Ips -> SUBSET Times]
      /\ since' \in [Ips -> 0 .. Horizon]
      /\ now' \in 0 .. Horizon
  <2>1. ts \in 0 .. Horizon
    BY BeaconAssumption DEF Times
  <2>2. \A ip \in Ips : contacts[ip] \in SUBSET Times /\ since[ip] \in 0 .. Horizon
    BY DEF TypeOK
  <2>3. /\ now' = ts
        /\ contacts' = [ip \in Ips |-> IF ip \in ips THEN contacts[ip] \union {ts}
                                                   ELSE contacts[ip]]
        /\ since' = [ip \in Ips |-> IF ip \in ips /\ hist[ip] = <<>> THEN ts
                                                                   ELSE since[ip]]
    BY WindowFacts
  <2>4. QED
    BY <2>1, <2>2, <2>3
<1>4. fired' \subseteq Ips
  BY WindowFacts
<1>5. QED
  BY <1>1, <1>2, <1>3, <1>4 DEF TypeOK

\* A step is a window later than the last, or nothing.
LEMMA NextIsWindow ==
    ASSUME TypeOK, Next
    PROVE  \E ips \in SUBSET Ips, ts \in Times : ts > now /\ Window(ips, ts)
<1>1. PICK ips \in SUBSET Ips, ts \in now + 1 .. now + MaxGap : ts <= Horizon /\ Window(ips, ts)
  BY DEF Next
<1>2. ts \in Times /\ ts > now
  BY BeaconAssumption, <1>1 DEF TypeOK, Times
<1>3. QED
  BY <1>1, <1>2

LEMMA TypeStep ==
    ASSUME TypeOK, [Next]_vars
    PROVE  TypeOK'
<1>1. CASE UNCHANGED vars
  BY <1>1 DEF TypeOK, vars
<1>2. CASE Next
  BY <1>2, NextIsWindow, WindowType
<1>3. QED
  BY <1>1, <1>2

\* Every history stays within its deque and every mute within its length
\* (behavioral.py:228-257).
THEOREM TypeCorrect == Spec => []TypeOK
BY TypeInit, TypeStep, PTL DEF Spec

-----------------------------------------------------------------------------
(* The reports.                                                            *)

LEMMA MuteStep ==
    ASSUME TypeOK, MuteIsQuiet, [Next]_vars
    PROVE  MuteIsQuiet' /\ (~ UNCHANGED vars => \A ip \in fired' : quiet[ip] + 1 >= CooldownWindows)
<1>1. CASE UNCHANGED vars
  BY <1>1 DEF MuteIsQuiet, vars
<1>2. ASSUME NEW ips \in SUBSET Ips, NEW ts \in Times, ts > now, Window(ips, ts)
      PROVE  MuteIsQuiet' /\ \A ip \in fired' : quiet[ip] + 1 >= CooldownWindows
  <2>1. ASSUME NEW ip \in Ips
        PROVE  /\ cooldown'[ip] = CooldownWindows - quiet'[ip]
               /\ ip \in fired' => quiet[ip] + 1 >= CooldownWindows
    <3>1. /\ cooldown[ip] = CooldownWindows - quiet[ip]
          /\ quiet[ip] \in 0 .. CooldownWindows /\ CooldownWindows \in Nat
      BY BeaconAssumption DEF MuteIsQuiet, TypeOK
    <3>2. CountedDown[ip] = IF cooldown[ip] > 0 THEN cooldown[ip] - 1 ELSE 0
      BY CountedDownType
    <3>3. CASE ip \in fired'
      <4>1. cooldown'[ip] = CooldownWindows /\ quiet'[ip] = 0 /\ CountedDown[ip] = 0
        BY <1>2, <3>3, WindowFacts
      <4>2. QED
        BY <3>1, <3>2, <4>1
    <3>4. CASE ip \notin fired'
      <4>1. /\ cooldown' = [a \in Ips |-> IF a \in fired' THEN CooldownWindows
                                                       ELSE CountedDown[a]]
            /\ quiet' = [a \in Ips |-> IF a \in fired' THEN 0
                                       ELSE Capped(quiet[a], CooldownWindows)]
        BY <1>2, WindowFacts
      <4>2. cooldown'[ip] = CountedDown[ip] /\ quiet'[ip] = Capped(quiet[ip], CooldownWindows)
        BY <3>4, <4>1
      <4>3. QED
        BY <3>1, <3>2, <3>4, <4>2 DEF Capped
    <3>5. QED
      BY <3>3, <3>4
  <2>2. fired' \subseteq Ips
    BY <1>2, WindowFacts
  <2>3. QED
    BY <2>1, <2>2 DEF MuteIsQuiet
<1>3. QED
  BY <1>1, <1>2, NextIsWindow

LEMMA MuteInit == Init => MuteIsQuiet
BY BeaconAssumption DEF Init, MuteIsQuiet

\* From one report of a destination to the next are at least CooldownWindows
\* windows, whether it was forgotten in between or not
\* (behavioral.py:251-254, 271).
THEOREM ReportsStaySpaced == Spec => ReportsAreSpaced
<1>1. TypeOK /\ MuteIsQuiet /\ [Next]_vars
        => [\A ip \in fired' : quiet[ip] + 1 >= CooldownWindows]_vars
  BY MuteStep
<1>2. TypeOK /\ MuteIsQuiet /\ [Next]_vars => TypeOK' /\ MuteIsQuiet'
  BY MuteStep, TypeStep
<1>3. QED
  BY <1>1, <1>2, TypeInit, MuteInit, PTL DEF Spec, ReportsAreSpaced

-----------------------------------------------------------------------------
(* The histories.                                                          *)

LEMMA HistoryInit == Init => HistoriesHold
BY BeaconAssumption DEF Init, HistoriesHold

\* One destination over one window.
LEMMA HistoryWindow ==
    ASSUME HistoryInv, NEW ips \in SUBSET Ips, NEW ts \in Times, ts > now,
           NEW ip \in Ips, Grown(ips, ts)[ip] # <<>>,
           NEW first, first = (IF ip \in ips /\ hist[ip] = <<>> THEN ts ELSE since[ip]),
           NEW times, times = (IF ip \in ips THEN contacts[ip] \union {ts} ELSE contacts[ip])
    PROVE  /\ Ascending(Grown(ips, ts)[ip])
           /\ Holds(Grown(ips, ts)[ip], Since(times, first))
<1>0. /\ hist[ip] \in Seq(Times) /\ hist[ip] \in Seq(Nat) /\ Len(hist[ip]) <= History
      /\ contacts[ip] \in SUBSET Nat /\ contacts[ip] \in SUBSET Times
      /\ since[ip] \in Nat /\ ts \in Nat /\ now \in Nat
      /\ since[ip] <= now /\ \A t \in contacts[ip] : t <= now
  <2>1. Times \subseteq Nat
    BY DEF Times
  <2>2. hist[ip] \in Seq(Times) /\ Len(hist[ip]) <= History /\ contacts[ip] \in SUBSET Times
    BY DEF HistoryInv, TypeOK
  <2>3. hist[ip] \in Seq(Nat)
    BY <2>1, <2>2, SeqMonotonic
  <2>4. since[ip] \in Nat /\ now \in Nat
    BY BeaconAssumption DEF HistoryInv, TypeOK
  <2>5. since[ip] <= now /\ \A t \in contacts[ip] : t <= now
    BY DEF HistoryInv, HistoriesHold
  <2>6. QED
    BY <2>1, <2>2, <2>3, <2>4, <2>5
<1>1. CASE ip \notin ips
  <2>1. Grown(ips, ts)[ip] = hist[ip]
    BY <1>1 DEF Grown
  <2>2. QED
    BY <1>1, <2>1 DEF HistoryInv, HistoriesHold
<1>2. CASE ip \in ips /\ hist[ip] = <<>>
  <2>1. Grown(ips, ts)[ip] = Pushed(hist[ip], ts) /\ first = ts /\ times = contacts[ip] \union {ts}
    BY <1>2 DEF Grown
  <2>2. Len(Pushed(hist[ip], ts)) = 1 /\ Pushed(hist[ip], ts)[1] = ts
    <3>1. Len(hist[ip]) = 0 /\ Len(hist[ip]) # History
      BY <1>2, EmptySeq, BeaconAssumption
    <3>2. Len(Pushed(hist[ip], ts)) = 0 + 1
      BY <1>0, <3>1, PushedElements
    <3>3. Pushed(hist[ip], ts)[Len(Pushed(hist[ip], ts))] = ts
      BY <1>0, PushedProperties
    <3>4. QED
      BY <3>2, <3>3
  <2>3. Since(times, first) = {ts}
    BY <1>0, <2>1 DEF Since
  <2>4. ASSUME NEW h, Len(h) = 1, h[1] = ts
        PROVE  Ascending(h) /\ Holds(h, {ts})
    BY <2>4 DEF Ascending, Holds
  <2>5. QED
    BY <2>1, <2>2, <2>3, <2>4
<1>3. CASE ip \in ips /\ hist[ip] # <<>>
  <2> DEFINE all == Since(contacts[ip], since[ip])
  <2>1. Grown(ips, ts)[ip] = Pushed(hist[ip], ts)
    BY <1>3 DEF Grown
  <2>2. Since(times, first) = all \union {ts}
    BY <1>0, <1>3 DEF Since
  <2>3. all \in SUBSET Nat /\ \A t \in all : t < ts
    BY <1>0 DEF Since
  <2>4. Ascending(hist[ip]) /\ Holds(hist[ip], all)
    BY <1>3 DEF HistoryInv, HistoriesHold
  <2> HIDE DEF all
  <2>5. Ascending(Pushed(hist[ip], ts)) /\ Holds(Pushed(hist[ip], ts), all \union {ts})
    BY <1>0, <2>3, <2>4, PushedHolds
  <2>6. QED
    BY <2>1, <2>2, <2>5
<1>4. QED
  BY <1>1, <1>2, <1>3

LEMMA HistoryStep ==
    ASSUME HistoryInv, [Next]_vars
    PROVE  HistoryInv'
<1>t. TypeOK /\ TypeOK'
  BY TypeStep DEF HistoryInv
<1>1. CASE UNCHANGED vars
  BY <1>1, <1>t DEF HistoryInv, HistoriesHold, vars
<1>2. ASSUME NEW ips \in SUBSET Ips, NEW ts \in Times, ts > now, Window(ips, ts)
      PROVE  HistoriesHold'
  <2>1. PICK K \in Kept(Grown(ips, ts)) :
          hist' = [ip \in Ips |-> IF ip \in K THEN Grown(ips, ts)[ip] ELSE <<>>]
    BY <1>2, <1>t, WindowFacts
  <2>2. /\ now' = ts
        /\ contacts' = [ip \in Ips |-> IF ip \in ips THEN contacts[ip] \union {ts}
                                                   ELSE contacts[ip]]
        /\ since' = [ip \in Ips |-> IF ip \in ips /\ hist[ip] = <<>> THEN ts
                                                                   ELSE since[ip]]
    BY <1>2, <1>t, WindowFacts
  <2>3. ASSUME NEW ip \in Ips
        PROVE  since'[ip] <= now' /\ \A t \in contacts'[ip] : t <= now'
    <3>1. /\ since[ip] <= now /\ \A t \in contacts[ip] : t <= now
          /\ since[ip] \in Nat /\ now \in Nat /\ ts \in Nat /\ contacts[ip] \subseteq Nat
      BY <1>t, BeaconAssumption DEF HistoryInv, HistoriesHold, TypeOK, Times
    <3>2. /\ contacts'[ip] = (IF ip \in ips THEN contacts[ip] \union {ts} ELSE contacts[ip])
          /\ since'[ip] = (IF ip \in ips /\ hist[ip] = <<>> THEN ts ELSE since[ip])
      BY <2>2
    <3>3. \A t \in contacts'[ip] : t = ts \/ t \in contacts[ip]
      BY <3>2
    <3>4. since'[ip] = ts \/ since'[ip] = since[ip]
      BY <3>2
    <3>5. QED
      BY <1>2, <2>2, <3>1, <3>3, <3>4
  <2>4. ASSUME NEW ip \in Ips, hist'[ip] # <<>>
        PROVE  Ascending(hist'[ip]) /\ Holds(hist'[ip], Since(contacts'[ip], since'[ip]))
    <3>1. hist'[ip] = Grown(ips, ts)[ip]
      BY <2>1, <2>4
    <3>2. /\ contacts'[ip] = (IF ip \in ips THEN contacts[ip] \union {ts} ELSE contacts[ip])
          /\ since'[ip] = (IF ip \in ips /\ hist[ip] = <<>> THEN ts ELSE since[ip])
      BY <2>2
    <3>3. Grown(ips, ts)[ip] # <<>>
      BY <2>4, <3>1
    <3>4. Ascending(Grown(ips, ts)[ip]) /\ Holds(Grown(ips, ts)[ip], Since(contacts'[ip], since'[ip]))
      BY <1>2, <3>2, <3>3, HistoryWindow
    <3>5. QED
      BY <3>1, <3>4
  <2>5. QED
    BY <2>3, <2>4 DEF HistoriesHold
<1>3. QED
  BY <1>1, <1>2, <1>t, NextIsWindow DEF HistoryInv

\* The history of every remembered destination is its latest contacts, without
\* a gap and in order (behavioral.py:256-264).
THEOREM HistoriesAreRecent == Spec => []HistoryIsRecentContacts
<1>1. HistoryInv => HistoryIsRecentContacts
  <2> SUFFICES ASSUME HistoryInv, NEW ip \in Tracked(hist)
               PROVE  /\ {hist[ip][i] : i \in 1 .. Len(hist[ip])} = Recent(ip)
                      /\ \A i \in 1 .. Len(hist[ip]) - 1 : Interval(hist[ip], i) > 0
    BY DEF HistoryIsRecentContacts
  <2> DEFINE all == Since(contacts[ip], since[ip])
  <2>1. /\ ip \in Ips /\ hist[ip] # <<>> /\ hist[ip] \in Seq(Times)
        /\ Len(hist[ip]) <= History /\ all \in SUBSET Times
    BY DEF HistoryInv, TypeOK, Tracked, Since
  <2>2. hist[ip] \in Seq(Nat)
    <3>1. Times \subseteq Nat
      BY DEF Times
    <3>2. QED
      BY <2>1, <3>1, SeqMonotonic
  <2>3. Ascending(hist[ip]) /\ Holds(hist[ip], all)
    BY <2>1 DEF HistoryInv, HistoriesHold
  <2>4. Recent(ip) = {t \in all : Cardinality({u \in all : u > t}) < History}
    BY DEF Recent, Since
  <2> HIDE DEF all
  <2>5. {hist[ip][i] : i \in 1 .. Len(hist[ip])} = Recent(ip)
    BY <2>1, <2>2, <2>3, <2>4, HeldIsRecent
  <2>6. \A i \in 1 .. Len(hist[ip]) - 1 : Interval(hist[ip], i) > 0
    <3>1. \A i \in 1 .. Len(hist[ip]) : hist[ip][i] \in Nat
      BY <2>2, ElementOfSeq
    <3>2. Len(hist[ip]) \in Nat
      BY <2>2, LenProperties
    <3>3. QED
      BY <2>3, <3>1, <3>2 DEF Ascending, Interval
  <2>7. QED
    BY <2>5, <2>6
<1>2. Init => HistoryInv
  BY TypeInit, HistoryInit DEF HistoryInv
<1>3. QED
  BY <1>1, <1>2, HistoryStep, PTL DEF Spec

-----------------------------------------------------------------------------
(* What is forgotten.                                                      *)

\* The last time of a history is the latest contact of its destination.
LastIsLatest ==
    \A ip \in Ips : hist[ip] # <<>> => \A t \in contacts[ip] : t <= Last(hist[ip])

ForgetInv == HistoryInv /\ LastIsLatest /\ ForgottenAreLeastRecent

\* Remembered destinations that were active as late as the times of a set.
AsActive(h, times) == {o \in Tracked(h) : \A t \in times : Last(h[o]) >= t}

\* A contact adds to its history, at the end; the others stay as they were.
LEMMA GrownLast ==
    ASSUME HistoryInv, NEW ips \in SUBSET Ips, NEW ts \in Times, ts > now, NEW ip \in Ips
    PROVE  /\ ip \in ips => Grown(ips, ts)[ip] # <<>> /\ Last(Grown(ips, ts)[ip]) = ts
           /\ ip \notin ips => Grown(ips, ts)[ip] = hist[ip]
           /\ hist[ip] # <<>> =>
                 /\ Last(hist[ip]) \in Nat /\ Last(hist[ip]) <= now
                 /\ Grown(ips, ts)[ip] # <<>>
                 /\ Last(Grown(ips, ts)[ip]) \in Nat
                 /\ Last(Grown(ips, ts)[ip]) >= Last(hist[ip])
<1>0. /\ hist[ip] \in Seq(Times) /\ Len(hist[ip]) <= History
      /\ now \in Nat /\ ts \in Nat /\ Times \subseteq Nat
  BY BeaconAssumption DEF HistoryInv, TypeOK, Times
<1>1. ASSUME ip \in ips
      PROVE  Grown(ips, ts)[ip] # <<>> /\ Last(Grown(ips, ts)[ip]) = ts
  <2>1. Grown(ips, ts)[ip] = Pushed(hist[ip], ts)
    BY <1>1 DEF Grown
  <2>2. Pushed(hist[ip], ts) # <<>> /\ Pushed(hist[ip], ts)[Len(Pushed(hist[ip], ts))] = ts
    <3>1. hist[ip] \in Seq(Times) /\ Len(hist[ip]) <= History
      BY <1>0
    <3>2. Pushed(hist[ip], ts) # <<>>
      BY <3>1, PushedProperties
    <3>3. Pushed(hist[ip], ts)[Len(Pushed(hist[ip], ts))] = ts
      BY <3>1, PushedProperties
    <3>4. QED
      BY <3>2, <3>3
  <2>3. Last(Pushed(hist[ip], ts)) = ts
    BY <2>2 DEF Last
  <2>4. QED
    BY <2>1, <2>2, <2>3
<1>2. ip \notin ips => Grown(ips, ts)[ip] = hist[ip]
  BY DEF Grown
<1>3. ASSUME hist[ip] # <<>>
      PROVE  Last(hist[ip]) \in Nat /\ Last(hist[ip]) <= now
  <2>1. Len(hist[ip]) \in 1 .. Len(hist[ip])
    BY <1>0, <1>3, EmptySeq
  <2>2. hist[ip][Len(hist[ip])] \in Times
    BY <1>0, <2>1, ElementOfSeq
  <2>3. hist[ip][Len(hist[ip])] \in contacts[ip]
    BY <1>3, <2>1 DEF HistoryInv, HistoriesHold, Holds, Since
  <2>4. hist[ip][Len(hist[ip])] <= now
    BY <2>3 DEF HistoryInv, HistoriesHold
  <2>5. QED
    BY <1>0, <2>2, <2>4 DEF Last
<1>4. ASSUME hist[ip] # <<>>
      PROVE  /\ Grown(ips, ts)[ip] # <<>>
             /\ Last(Grown(ips, ts)[ip]) \in Nat
             /\ Last(Grown(ips, ts)[ip]) >= Last(hist[ip])
  BY <1>0, <1>1, <1>2, <1>3, <1>4
<1>5. QED
  BY <1>1, <1>2, <1>3, <1>4

\* The eviction keeps as many destinations as active as those of any set that
\* holds MaxTracked of them.
LEMMA KeptAreActive ==
    ASSUME NEW h, \A ip \in Tracked(h) : Last(h[ip]) \in Nat,
           NEW K \in Kept(h), NEW times \in SUBSET Nat,
           NEW A \in SUBSET AsActive(h, times), Cardinality(A) >= MaxTracked
    PROVE  Cardinality({k \in K : \A t \in times : Last(h[k]) >= t}) >= MaxTracked
<1> DEFINE late == {k \in K : \A t \in times : Last(h[k]) >= t}
<1>0. /\ IsFiniteSet(Ips) /\ MaxTracked \in Nat \ {0}
      /\ K \in SUBSET Tracked(h) /\ Tracked(h) \in SUBSET Ips /\ K \in SUBSET Ips
      /\ A \in SUBSET Ips /\ late \in SUBSET K /\ late \in SUBSET Ips
      /\ Cardinality(K) <= MaxTracked
      /\ K # Tracked(h) => Cardinality(K) = MaxTracked
      /\ \A k \in K, d \in Tracked(h) \ K : Last(h[d]) <= Last(h[k])
  BY BeaconAssumption DEF Kept, Tracked, AsActive
<1>1. /\ IsFiniteSet(K) /\ IsFiniteSet(A) /\ IsFiniteSet(late)
      /\ Cardinality(K) \in Nat /\ Cardinality(A) \in Nat /\ Cardinality(late) \in Nat
  <2> HIDE DEF late
  <2>1. QED
    BY <1>0, FS_Subset, FS_CardinalityType
<1>2. CASE K = Tracked(h)
  <2>1. A \in SUBSET late
    BY <1>2 DEF AsActive
  <2> HIDE DEF late
  <2>2. Cardinality(A) <= Cardinality(late)
    BY <1>1, <2>1, FS_Subset
  <2>3. Cardinality(late) >= MaxTracked
    BY <1>0, <1>1, <2>2
  <2>4. QED
    BY <2>3 DEF late
<1>3. CASE K # Tracked(h) /\ late = K
  BY <1>0, <1>3
<1>4. CASE K # Tracked(h) /\ late # K
  <2>1. PICK k \in K, t \in times : ~ (Last(h[k]) >= t)
    BY <1>4
  <2>2. A \in SUBSET (K \ {k})
    <3>1. SUFFICES ASSUME NEW a \in A
                   PROVE  a \in K /\ a # k
      OBVIOUS
    <3>2. a \in Tracked(h) /\ Last(h[a]) >= t /\ Last(h[a]) \in Nat /\ Last(h[k]) \in Nat /\ t \in Nat
      BY <1>0 DEF AsActive
    <3>3. a # k
      BY <2>1, <3>2
    <3>4. a \in K
      BY <1>0, <2>1, <3>2
    <3>5. QED
      BY <3>3, <3>4
  <2>3. IsFiniteSet(K \ {k}) /\ Cardinality(K \ {k}) = Cardinality(K) - 1
    BY <1>1, FS_RemoveElement
  <2>4. Cardinality(A) <= Cardinality(K \ {k})
    BY <2>2, <2>3, FS_Subset
  <2>5. FALSE
    BY <1>0, <1>1, <2>3, <2>4
  <2>6. QED
    BY <2>5
<1>5. QED
  BY <1>2, <1>3, <1>4

LEMMA ForgetWindow ==
    ASSUME ForgetInv, NEW ips \in SUBSET Ips, NEW ts \in Times, ts > now, Window(ips, ts)
    PROVE  LastIsLatest' /\ ForgottenAreLeastRecent'
<1> DEFINE g == Grown(ips, ts)
<1>1. PICK K \in Kept(g) : hist' = [ip \in Ips |-> IF ip \in K THEN g[ip] ELSE <<>>]
  BY WindowFacts DEF ForgetInv, HistoryInv
<1>2. contacts' = [ip \in Ips |-> IF ip \in ips THEN contacts[ip] \union {ts} ELSE contacts[ip]]
  BY WindowFacts DEF ForgetInv, HistoryInv
<1>3. /\ K \in SUBSET Ips /\ K \in SUBSET Tracked(g) /\ MaxTracked \in Nat \ {0}
      /\ Cardinality(K) <= MaxTracked
      /\ K # Tracked(g) => Cardinality(K) = MaxTracked
      /\ \A k \in K, d \in Tracked(g) \ K : Last(g[d]) <= Last(g[k])
  BY BeaconAssumption DEF Kept, Tracked
<1>4. \A ip \in Ips : /\ ip \in ips => g[ip] # <<>> /\ Last(g[ip]) = ts
                      /\ ip \notin ips => g[ip] = hist[ip]
                      /\ hist[ip] # <<>> =>
                            /\ Last(hist[ip]) \in Nat /\ Last(hist[ip]) <= now
                            /\ g[ip] # <<>> /\ Last(g[ip]) \in Nat
                            /\ Last(g[ip]) >= Last(hist[ip])
  BY GrownLast DEF ForgetInv
<1>5. /\ now \in Nat /\ ts \in Nat
      /\ \A ip \in Ips : contacts[ip] \in SUBSET Nat /\ contacts'[ip] \in SUBSET Nat
      /\ \A ip \in Ips : \A t \in contacts[ip] : t <= now
  <2>1. now \in Nat /\ ts \in Nat /\ \A ip \in Ips : contacts[ip] \in SUBSET Nat
    BY BeaconAssumption DEF ForgetInv, HistoryInv, TypeOK, Times
  <2>2. \A ip \in Ips : \A t \in contacts[ip] : t <= now
    BY DEF ForgetInv, HistoryInv, HistoriesHold
  <2>3. QED
    BY <1>2, <2>1, <2>2
<1> HIDE DEF g
<1>6. \A ip \in Tracked(g) : Last(g[ip]) \in Nat /\ \A t \in contacts'[ip] : t <= Last(g[ip])
  <2> SUFFICES ASSUME NEW ip \in Ips, g[ip] # <<>>
               PROVE  Last(g[ip]) \in Nat /\ \A t \in contacts'[ip] : t <= Last(g[ip])
    BY DEF Tracked
  <2>1. CASE ip \in ips
    BY <1>2, <1>4, <1>5, <2>1
  <2>2. CASE ip \notin ips
    <3>1. contacts'[ip] = contacts[ip] /\ g[ip] = hist[ip]
      BY <1>2, <1>4, <2>2
    <3>2. QED
      BY <1>4, <3>1 DEF ForgetInv, LastIsLatest
  <2>3. QED
    BY <2>1, <2>2
<1>7. \A ip \in K : hist'[ip] = g[ip] /\ hist'[ip] # <<>>
  BY <1>1, <1>3 DEF Tracked
<1>8. Tracked(hist') = K
  BY <1>1, <1>3, <1>7 DEF Tracked
<1>9. LastIsLatest'
  <2>1. ASSUME NEW ip \in Ips, hist'[ip] # <<>>
        PROVE  \A t \in contacts'[ip] : t <= Last(hist'[ip])
    <3>1. ip \in K
      BY <1>8, <2>1 DEF Tracked
    <3>2. QED
      BY <1>3, <1>6, <1>7, <3>1
  <2>2. QED
    BY <2>1 DEF LastIsLatest
<1>10. ASSUME NEW ip \in Ips \ K, contacts'[ip] # {}
       PROVE  Cardinality({o \in K : \A t \in contacts'[ip] : Last(g[o]) >= t}) >= MaxTracked
  <2>1. CASE ip \in Tracked(g)
    <3>1. Cardinality(K) = MaxTracked
      BY <1>3, <1>10, <2>1
    <3>2. \A o \in K : \A t \in contacts'[ip] : Last(g[o]) >= t
      <4>1. ASSUME NEW o \in K, NEW t \in contacts'[ip]
            PROVE  Last(g[o]) >= t
        <5>1. Last(g[ip]) <= Last(g[o]) /\ o \in Tracked(g)
          BY <1>3, <1>10, <2>1
        <5>2. Last(g[ip]) \in Nat /\ t <= Last(g[ip]) /\ Last(g[o]) \in Nat /\ t \in Nat
          BY <1>5, <1>6, <2>1, <5>1
        <5>3. QED
          BY <5>1, <5>2
      <4>2. QED
        BY <4>1
    <3>3. {o \in K : \A t \in contacts'[ip] : Last(g[o]) >= t} = K
      BY <3>2
    <3>4. QED
      BY <1>3, <3>1, <3>3
  <2>2. CASE ip \notin Tracked(g)
    <3>1. ip \notin ips /\ hist[ip] = <<>> /\ contacts'[ip] = contacts[ip]
      BY <1>2, <1>4, <2>2 DEF Tracked
    <3>2. ip \in Ips \ Tracked(hist) /\ contacts[ip] # {}
      BY <1>10, <3>1 DEF Tracked
    <3> DEFINE A == {o \in Tracked(hist) : \A t \in contacts[ip] : Last(hist[o]) >= t}
    <3>3. Cardinality(A) >= MaxTracked
      BY <3>2 DEF ForgetInv, ForgottenAreLeastRecent
    <3>4. A \in SUBSET AsActive(g, contacts[ip])
      <4> SUFFICES ASSUME NEW o \in Ips, hist[o] # <<>>, NEW t \in contacts[ip], Last(hist[o]) >= t
                   PROVE  g[o] # <<>> /\ Last(g[o]) >= t
        <5>1. ASSUME NEW o \in A
              PROVE  o \in Ips /\ hist[o] # <<>> /\ \A t \in contacts[ip] : Last(hist[o]) >= t
          BY DEF Tracked
        <5>2. contacts[ip] # {}
          BY <3>2
        <5>3. QED
          BY <5>1, <5>2 DEF AsActive, Tracked
      <4>1. Last(g[o]) >= Last(hist[o]) /\ Last(g[o]) \in Nat /\ Last(hist[o]) \in Nat /\ g[o] # <<>>
        BY <1>4
      <4>2. t \in Nat
        BY <1>5
      <4>3. QED
        BY <4>1, <4>2
    <3>5. contacts[ip] \in SUBSET Nat /\ \A a \in Tracked(g) : Last(g[a]) \in Nat
      BY <1>5, <1>6
    <3> HIDE DEF A
    <3>6. Cardinality({k \in K : \A t \in contacts[ip] : Last(g[k]) >= t}) >= MaxTracked
      BY <3>3, <3>4, <3>5, KeptAreActive
    <3>7. QED
      BY <3>1, <3>6
  <2>3. QED
    BY <2>1, <2>2
<1>11. ASSUME NEW ip \in Ips \ Tracked(hist'), contacts'[ip] # {}
       PROVE  Cardinality({o \in Tracked(hist') : \A t \in contacts'[ip] : Last(hist'[o]) >= t})
                >= MaxTracked
  <2>1. {o \in Tracked(hist') : \A t \in contacts'[ip] : Last(hist'[o]) >= t}
          = {o \in K : \A t \in contacts'[ip] : Last(g[o]) >= t}
    BY <1>7, <1>8
  <2>2. ip \in Ips \ K
    BY <1>8
  <2>3. QED
    BY <1>10, <1>11, <2>1, <2>2
<1>12. Cardinality(Tracked(hist')) <= MaxTracked
  BY <1>3, <1>8
<1>13. ForgottenAreLeastRecent'
  BY <1>11, <1>12 DEF ForgottenAreLeastRecent, Tracked
<1>14. QED
  BY <1>9, <1>13

LEMMA ForgetInit == Init => ForgetInv
<1> SUFFICES ASSUME Init
             PROVE  ForgetInv
  OBVIOUS
<1>1. Tracked(hist) = {}
  BY DEF Init, Tracked
<1>2. Cardinality(Tracked(hist)) <= MaxTracked
  BY <1>1, FS_EmptySet, BeaconAssumption
<1>3. HistoryInv
  BY TypeInit, HistoryInit DEF HistoryInv
<1>4. \A ip \in Ips : contacts[ip] = {}
  BY DEF Init
<1>5. QED
  BY <1>2, <1>3, <1>4 DEF ForgetInv, LastIsLatest, ForgottenAreLeastRecent

LEMMA ForgetStep ==
    ASSUME ForgetInv, [Next]_vars
    PROVE  ForgetInv'
<1>h. HistoryInv'
  BY HistoryStep DEF ForgetInv
<1>1. CASE UNCHANGED vars
  BY <1>1, <1>h DEF ForgetInv, LastIsLatest, ForgottenAreLeastRecent, Tracked, vars
<1>2. CASE Next
  <2>1. TypeOK
    BY DEF ForgetInv, HistoryInv
  <2>2. QED
    BY <1>2, <1>h, <2>1, NextIsWindow, ForgetWindow DEF ForgetInv
<1>3. QED
  BY <1>1, <1>2

\* At most MaxTracked destinations are remembered, and whatever was contacted
\* and is forgotten was contacted no later than MaxTracked others that are
\* (behavioral.py:311-316).
THEOREM LeastRecentAreForgotten == Spec => []ForgottenAreLeastRecent
<1>1. ForgetInv => ForgottenAreLeastRecent
  BY DEF ForgetInv
<1>2. QED
  BY <1>1, ForgetInit, ForgetStep, PTL DEF Spec

-----------------------------------------------------------------------------
(* Steady destinations.                                                    *)

\* The squares of the intervals of a history added up one position at a time.
Adds(h, sum, S) ==
    sum = [s \in SUBSET S |->
             IF s = {} THEN 0
             ELSE LET x == CHOOSE x \in s : TRUE
                  IN  Interval(h, x) * Interval(h, x) + sum[s \ {x}]]

Squares(h, S) == MapThenSumSet(LAMBDA i : Interval(h, i) * Interval(h, i), S)

LEMMA SumIsFold ==
    ASSUME NEW h, NEW S
    PROVE  Squares(h, S) = (CHOOSE sum : Adds(h, sum, S))[S]
BY DEF Squares, MapThenSumSet, MapThenFoldSet, Adds

\* There is one such sum when the squares are equal: of the sets it got wrong,
\* none would be the least.
LEMMA AddsEqual ==
    ASSUME NEW h, NEW S, IsFiniteSet(S), NEW c \in Nat,
           \A i \in S : Interval(h, i) * Interval(h, i) = c,
           NEW sum, Adds(h, sum, S)
    PROVE  \A s \in SUBSET S : sum[s] = Cardinality(s) * c
<1> DEFINE Wrong == {s \in SUBSET S : sum[s] # Cardinality(s) * c}
           R == StrictSubsetOrdering(S)
<1>1. SUFFICES ASSUME Wrong # {}
               PROVE  FALSE
  OBVIOUS
<1>2. PICK s \in Wrong : \A t \in Wrong : <<t, s>> \notin R
  <2>1. IsWellFoundedOn(R, SUBSET S)
    BY FS_StrictSubsetOrderingWellFounded, FS_FiniteSubsetsOfFinite
  <2>2. Wrong \subseteq SUBSET S
    OBVIOUS
  <2> HIDE DEF Wrong, R
  <2>3. QED
    BY <1>1, <2>1, <2>2, WFMin
<1>3. s \in SUBSET S /\ IsFiniteSet(s)
  BY FS_Subset
<1>4. CASE s = {}
  <2>1. sum[s] = 0
    BY <1>4 DEF Adds
  <2>2. Cardinality(s) = 0
    BY <1>4, FS_EmptySet
  <2>3. QED
    BY <2>1, <2>2
<1>5. CASE s # {}
  <2> DEFINE x == CHOOSE x \in s : TRUE
             t == s \ {x}
  <2>1. x \in s /\ x \in S
    BY <1>3, <1>5
  <2>2. sum[s] = Interval(h, x) * Interval(h, x) + sum[t]
    BY <1>3, <1>5 DEF Adds
  <2>3. t \in SUBSET S /\ <<t, s>> \in R
    BY <1>3, <2>1 DEF StrictSubsetOrdering
  <2>4. sum[t] = Cardinality(t) * c
    BY <1>2, <2>3
  <2>5. Cardinality(s) \in Nat /\ Cardinality(t) = Cardinality(s) - 1
    BY <1>3, <2>1, FS_RemoveElement, FS_CardinalityType
  <2>6. Interval(h, x) * Interval(h, x) = c
    BY <2>1
  <2> HIDE DEF x, t
  <2>7. sum[s] = c + (Cardinality(s) - 1) * c
    BY <2>2, <2>4, <2>5, <2>6
  <2>8. ASSUME NEW k \in Nat
        PROVE  c + (k - 1) * c = k * c
    OBVIOUS
  <2>9. sum[s] = Cardinality(s) * c
    BY <2>5, <2>7, <2>8
  <2>10. QED
    BY <2>9
<1>6. QED
  BY <1>4, <1>5

\* The sum of equal squares is their number times one of them.
LEMMA SumOfEqual ==
    ASSUME NEW h, NEW S, IsFiniteSet(S), NEW c \in Nat,
           \A i \in S : Interval(h, i) * Interval(h, i) = c
    PROVE  Squares(h, S) = Cardinality(S) * c
<1> DEFINE g == [s \in SUBSET S |-> Cardinality(s) * c]
<1>1. ASSUME NEW s \in SUBSET S
      PROVE  g[s] = IF s = {} THEN 0
                    ELSE LET x == CHOOSE x \in s : TRUE
                         IN  Interval(h, x) * Interval(h, x) + g[s \ {x}]
  <2>1. CASE s = {}
    BY <2>1, FS_EmptySet
  <2>2. CASE s # {}
    <3> DEFINE x == CHOOSE x \in s : TRUE
    <3>1. x \in s /\ x \in S
      BY <2>2
    <3>2. IsFiniteSet(s) /\ Cardinality(s) \in Nat /\ Cardinality(s \ {x}) = Cardinality(s) - 1
      BY <3>1, FS_Subset, FS_RemoveElement, FS_CardinalityType
    <3>3. Interval(h, x) * Interval(h, x) = c
      BY <3>1
    <3>4. g[s] = Cardinality(s) * c /\ g[s \ {x}] = Cardinality(s \ {x}) * c
      OBVIOUS
    <3> HIDE DEF x, g
    <3>5. ASSUME NEW k \in Nat
          PROVE  k * c = c + (k - 1) * c
      OBVIOUS
    <3>6. g[s] = Interval(h, x) * Interval(h, x) + g[s \ {x}]
      BY <3>2, <3>3, <3>4, <3>5
    <3>7. QED
      BY <2>2, <3>6 DEF x
  <2>3. QED
    BY <2>1, <2>2
<1>2. Adds(h, g, S)
  <2>1. g = [s \in SUBSET S |-> g[s]]
    OBVIOUS
  <2> HIDE DEF g
  <2>2. QED
    BY <1>1, <2>1 DEF Adds
<1> HIDE DEF g
<1>3. Adds(h, CHOOSE sum : Adds(h, sum, S), S)
  BY <1>2
<1>4. S \in SUBSET S
  OBVIOUS
<1>5. (CHOOSE sum : Adds(h, sum, S))[S] = Cardinality(S) * c
  BY <1>3, <1>4, AddsEqual
<1>6. QED
  BY <1>5, SumIsFold

\* Products of a positive number are ordered as their other factors.
LEMMA ProductOrder ==
    ASSUME NEW d \in Nat, d > 0, NEW a \in Nat, NEW b \in Nat
    PROVE  /\ d * a \in Nat /\ d * 0 = 0
           /\ d * (a + 1) = d * a + d
           /\ a < b => d * a < d * b
           /\ a <= b => d * a <= d * b
OBVIOUS

\* The times of h are the k up to ts that are d apart.
Even(h, ts, d, k) == {h[i] : i \in 1 .. Len(h)} = {ts - d * i : i \in 0 .. k - 1}

\* A history whose times are d apart, in whatever order that is said, has them
\* d apart in order: nothing lies between two that follow each other.
LEMMA StepsEqual ==
    ASSUME NEW h \in Seq(Nat), Ascending(h), NEW ts \in Nat, NEW d \in Nat,
           NEW k \in Nat, k >= 2, Len(h) = k,
           Even(h, ts, d, k)
    PROVE  /\ d > 0
           /\ \A i \in 1 .. k - 1 : Interval(h, i) = d
           /\ Last(h) - h[1] = d * (k - 1)
<1>0. \A i \in 1 .. k : h[i] \in Nat
  BY ElementOfSeq
<1>1. \A i \in 1 .. k : \E a \in 0 .. k - 1 : h[i] = ts - d * a
  BY DEF Even
<1>2. \A a \in 0 .. k - 1 : \E i \in 1 .. k : h[i] = ts - d * a
  BY DEF Even
<1>3. d > 0
  <2>1. SUFFICES ASSUME d = 0
                 PROVE  FALSE
    OBVIOUS
  <2>2. ASSUME NEW a \in 0 .. k - 1
        PROVE  ts - d * a = ts
    BY <2>1
  <2>3. 1 \in 1 .. k /\ 2 \in 1 .. k
    OBVIOUS
  <2>4. h[1] = ts /\ h[2] = ts
    BY <1>1, <2>2, <2>3
  <2>5. h[1] < h[2]
    BY <2>3 DEF Ascending
  <2>6. QED
    BY <2>4, <2>5
<1>4. ASSUME NEW i \in 1 .. k - 1
      PROVE  Interval(h, i) = d
  <2>1. i \in 1 .. k /\ i + 1 \in 1 .. k /\ h[i] < h[i + 1]
    BY DEF Ascending
  <2>2. PICK a \in 0 .. k - 1 : h[i] = ts - d * a
    BY <1>1, <2>1
  <2>3. PICK b \in 0 .. k - 1 : h[i + 1] = ts - d * b
    BY <1>1, <2>1
  <2>4. a \in Nat /\ b \in Nat /\ d * a \in Nat /\ d * b \in Nat
    BY <1>3, ProductOrder
  <2>5. b < a
    <3>1. SUFFICES ASSUME a <= b
                   PROVE  FALSE
      BY <2>4
    <3>2. d * a <= d * b
      BY <1>3, <2>4, <3>1, ProductOrder
    <3>3. QED
      BY <2>1, <2>2, <2>3, <2>4, <3>2
  <2>6. a = b + 1
    <3>1. SUFFICES ASSUME b + 1 < a
                   PROVE  FALSE
      BY <2>4, <2>5
    <3>2. b + 1 \in 0 .. k - 1 /\ b + 1 \in Nat
      BY <2>4, <3>1
    <3>3. PICK j \in 1 .. k : h[j] = ts - d * (b + 1)
      BY <1>2, <3>2
    <3>4. d * (b + 1) < d * a /\ d * b < d * (b + 1) /\ d * (b + 1) \in Nat
      <4>1. b < b + 1
        BY <2>4
      <4>2. QED
        BY <1>3, <2>4, <3>1, <3>2, <4>1, ProductOrder
    <3>5. h[i] < h[j] /\ h[j] < h[i + 1]
      <4>1. ASSUME NEW A \in Nat, NEW B \in Nat, NEW C \in Nat, B < C, C < A
            PROVE  ts - A < ts - C /\ ts - C < ts - B
        BY <4>1
      <4>2. QED
        BY <2>2, <2>3, <2>4, <3>3, <3>4, <4>1
    <3>6. ~ (j <= i) /\ ~ (j >= i + 1)
      <4>1. j <= i => h[j] <= h[i]
        BY <1>0, <2>1 DEF Ascending
      <4>2. j >= i + 1 => h[i + 1] <= h[j]
        BY <1>0, <2>1 DEF Ascending
      <4>3. h[i] \in Nat /\ h[j] \in Nat /\ h[i + 1] \in Nat
        BY <1>0, <2>1
      <4>4. QED
        BY <3>5, <4>1, <4>2, <4>3
    <3>7. QED
      BY <3>6
  <2>7. d * a = d * b + d
    BY <1>3, <2>4, <2>6, ProductOrder
  <2>8. h[i + 1] - h[i] = d
    BY <2>2, <2>3, <2>4, <2>7
  <2>9. QED
    BY <2>8 DEF Interval
<1>5. h[k] = ts
  <2>1. 0 \in 0 .. k - 1 /\ k \in 1 .. k
    OBVIOUS
  <2>2. PICK j \in 1 .. k : h[j] = ts - d * 0
    BY <1>2, <2>1
  <2>3. PICK a \in 0 .. k - 1 : h[k] = ts - d * a
    BY <1>1, <2>1
  <2>4. d * a \in Nat /\ d * 0 = 0
    BY <1>3, ProductOrder
  <2>5. h[j] <= h[k] /\ h[j] \in Nat /\ h[k] \in Nat
    BY <1>0, <2>1 DEF Ascending
  <2>6. QED
    BY <2>2, <2>3, <2>4, <2>5
<1>6. h[1] = ts - d * (k - 1)
  <2>1. k - 1 \in 0 .. k - 1 /\ 1 \in 1 .. k /\ k - 1 \in Nat
    OBVIOUS
  <2>2. PICK j \in 1 .. k : h[j] = ts - d * (k - 1)
    BY <1>2, <2>1
  <2>3. PICK a \in 0 .. k - 1 : h[1] = ts - d * a
    BY <1>1, <2>1
  <2>4. d * a \in Nat /\ d * (k - 1) \in Nat /\ d * a <= d * (k - 1)
    <3>1. a \in Nat /\ a <= k - 1
      OBVIOUS
    <3>2. QED
      BY <1>3, <2>1, <3>1, ProductOrder
  <2>5. h[1] <= h[j] /\ h[1] \in Nat /\ h[j] \in Nat
    BY <1>0, <2>1 DEF Ascending
  <2>6. QED
    BY <2>2, <2>3, <2>4, <2>5
<1>7. Last(h) - h[1] = d * (k - 1)
  <2>1. d * (k - 1) \in Nat
    <3>1. k - 1 \in Nat
      OBVIOUS
    <3>2. QED
      BY <1>3, <3>1, ProductOrder
  <2>2. QED
    BY <1>5, <1>6, <2>1 DEF Last
<1>8. QED
  BY <1>3, <1>4, <1>7

\* The test of the intervals, on equal ones.
LEMMA EqualSpread ==
    ASSUME NEW n \in Nat, NEW d \in Nat, NEW num \in Nat, NEW den \in Nat
    PROVE  (n * (n * (d * d)) - (d * n) * (d * n)) * den <= num * (d * n) * (d * n)
<1>1. n * (n * (d * d)) = (d * n) * (d * n)
  OBVIOUS
<1>2. n * (n * (d * d)) \in Nat /\ (d * n) * (d * n) \in Nat
  OBVIOUS
<1>3. ASSUME NEW x \in Nat, NEW y \in Nat, x = y
      PROVE  (x - y) * den = 0
  BY <1>3
<1>4. (n * (n * (d * d)) - (d * n) * (d * n)) * den = 0
  BY <1>1, <1>2, <1>3
<1>5. num * (d * n) * (d * n) \in Nat
  OBVIOUS
<1>6. QED
  BY <1>4, <1>5

LEMMA SteadyIsPeriodic ==
    ASSUME NEW h \in Seq(Nat), NEW k \in Nat, k >= 3, Len(h) = k,
           NEW d \in MinPeriod .. MaxPeriod, d > 0,
           \A i \in 1 .. k - 1 : Interval(h, i) = d,
           Last(h) - h[1] = d * (k - 1)
    PROVE  Periodic(h)
<1> DEFINE n == k - 1
<1>1. /\ n \in Nat /\ d \in Nat /\ MinPeriod \in Nat /\ MaxPeriod \in Nat
      /\ CvNum \in Nat /\ CvDen \in Nat /\ MinPeriod <= d /\ d <= MaxPeriod
  BY BeaconAssumption
<1>2. IsFiniteSet(1 .. n) /\ Cardinality(1 .. n) = n
  BY <1>1, FS_Interval
<1>3. \A i \in 1 .. n : Interval(h, i) * Interval(h, i) = d * d
  OBVIOUS
<1>4. d * d \in Nat
  BY <1>1
<1> HIDE DEF n
<1>5. Squares(h, 1 .. n) = Cardinality(1 .. n) * (d * d)
  BY <1>2, <1>3, <1>4, SumOfEqual
<1>6. MinPeriod * n <= d * n /\ d * n <= MaxPeriod * n
  BY <1>1
<1>7. (n * (n * (d * d)) - (d * n) * (d * n)) * CvDen <= CvNum * (d * n) * (d * n)
  BY <1>1, EqualSpread
<1>8. Len(h) - 1 = n /\ Last(h) - h[1] = d * n
  BY DEF n
<1>9. QED
  BY <1>2, <1>5, <1>6, <1>7, <1>8, Zenon DEF Periodic, Squares

LEMMA EvenIsDue ==
    ASSUME NEW h \in Seq(Nat), Ascending(h), NEW ts \in Nat,
           NEW d \in MinPeriod .. MaxPeriod, NEW k \in Nat, k >= MinEvents, Len(h) = k,
           Even(h, ts, d, k)
    PROVE  Due(h)
<1>1. k >= 3 /\ k >= 2 /\ d \in Nat
  BY BeaconAssumption
<1>2. /\ d > 0
      /\ \A i \in 1 .. k - 1 : Interval(h, i) = d
      /\ Last(h) - h[1] = d * (k - 1)
  BY <1>1, StepsEqual
<1>3. Periodic(h)
  BY <1>1, <1>2, SteadyIsPeriodic
<1>4. QED
  BY <1>3 DEF Due

\* An ascending history has as many times as positions.
LEMMA AscendingCardinality ==
    ASSUME NEW h \in Seq(Nat), Ascending(h)
    PROVE  Cardinality({h[i] : i \in 1 .. Len(h)}) = Len(h)
<1>1. /\ 0 \in Nat /\ Len(h) \in Nat /\ 0 <= Len(h)
      /\ \A i \in 0 + 1 .. Len(h) : h[i] \in Nat
      /\ \A i, j \in 0 + 1 .. Len(h) : i < j => h[i] < h[j]
  BY ElementOfSeq DEF Ascending
<1>2. Cardinality({h[i] : i \in 0 + 1 .. Len(h)}) = Len(h) - 0
  BY <1>1, StretchCardinality
<1>3. {h[i] : i \in 0 + 1 .. Len(h)} = {h[i] : i \in 1 .. Len(h)}
  OBVIOUS
<1>4. Len(h) - 0 = Len(h)
  BY <1>1
<1>5. QED
  BY <1>2, <1>3, <1>4, Zenon

\* The last of a set of times, as many as a deque holds.
Latest(all) == {t \in all : Cardinality({u \in all : u > t}) < History}

\* A history of contacts at one period is due for a report.
LEMMA SteadyIsDue ==
    ASSUME NEW all \in SUBSET Times, NEW h \in Seq(Nat), h # <<>>, Len(h) <= History,
           Ascending(h), Holds(h, all), NEW ts \in Nat,
           NEW k, k = Cardinality(Latest(all)), k >= MinEvents,
           NEW d \in MinPeriod .. MaxPeriod,
           Latest(all) = {ts - d * i : i \in 0 .. k - 1}
    PROVE  Due(h)
<1>1. {h[i] : i \in 1 .. Len(h)} = Latest(all)
  BY HeldIsRecent DEF Latest
<1>2. Cardinality({h[i] : i \in 1 .. Len(h)}) = Len(h)
  BY AscendingCardinality
<1>3. Len(h) = k /\ k \in Nat
  BY <1>1, <1>2, LenProperties
<1>4. Even(h, ts, d, k)
  BY <1>1 DEF Even
<1>5. QED
  BY <1>3, <1>4, EvenIsDue

SteadyInv == HistoryInv /\ MuteIsQuiet /\ SteadyIsReported

LEMMA SteadyWindow ==
    ASSUME HistoryInv, MuteIsQuiet', TypeOK', NEW ips \in SUBSET Ips, NEW ts \in Times,
           ts > now, Window(ips, ts), NEW ip \in Ips, ts \in contacts'[ip],
           NEW all, all = Since(contacts'[ip], since'[ip]),
           Cardinality(Latest(all)) >= MinEvents,
           NEW d \in MinPeriod .. MaxPeriod,
           Latest(all) = {ts - d * i : i \in 0 .. Cardinality(Latest(all)) - 1}
    PROVE  ip \in fired' \/ quiet'[ip] < CooldownWindows
<1> DEFINE g == Grown(ips, ts)[ip]
<1>0. TypeOK /\ ts \in Nat /\ Times \subseteq Nat
  BY DEF HistoryInv, Times
<1>1. /\ contacts'[ip] = (IF ip \in ips THEN contacts[ip] \union {ts} ELSE contacts[ip])
      /\ since'[ip] = (IF ip \in ips /\ hist[ip] = <<>> THEN ts ELSE since[ip])
  BY DEF Window
<1>2. ip \in ips
  <2>1. now \in Nat /\ \A t \in contacts[ip] : t <= now /\ t \in Nat
    BY BeaconAssumption DEF HistoryInv, HistoriesHold, TypeOK, Times
  <2>2. ts \notin contacts[ip]
    BY <1>0, <2>1
  <2>3. QED
    BY <1>1, <2>2
<1>3. g # <<>> /\ g \in Seq(Nat) /\ Len(g) <= History
  <2>1. hist[ip] \in Seq(Times) /\ Len(hist[ip]) <= History
    BY <1>0 DEF TypeOK
  <2>2. Pushed(hist[ip], ts) # <<>>
    BY <2>1, PushedProperties
  <2>3. g = Pushed(hist[ip], ts)
    BY <1>2 DEF Grown
  <2>4. g \in Seq(Times) /\ Len(g) <= History
    BY <1>0, GrownType
  <2>5. g \in Seq(Nat)
    BY <1>0, <2>4, SeqMonotonic
  <2> HIDE DEF g
  <2>6. QED
    BY <2>2, <2>3, <2>4, <2>5
<1>4. Ascending(g) /\ Holds(g, all)
  BY <1>1, <1>3, HistoryWindow
<1>5. all \in SUBSET Times
  BY DEF TypeOK, Since
<1> HIDE DEF g
<1>6. Due(g)
  BY <1>0, <1>3, <1>4, <1>5, SteadyIsDue
<1>7. fired' = Reported(ips, Grown(ips, ts))
  BY DEF Window
<1>8. CASE CountedDown[ip] = 0
  BY <1>2, <1>6, <1>7, <1>8 DEF Reported, g
<1>9. CASE CountedDown[ip] # 0
  <2>1. ip \notin fired'
    BY <1>7, <1>9 DEF Reported
  <2>2. cooldown'[ip] = CountedDown[ip]
    <3>1. cooldown' = [a \in Ips |-> IF a \in fired' THEN CooldownWindows
                                                     ELSE CountedDown[a]]
      BY <1>0, WindowFacts
    <3>2. QED
      BY <2>1, <3>1
  <2>3. CountedDown[ip] \in 0 .. CooldownWindows
    BY <1>0, CountedDownType
  <2>4. cooldown'[ip] = CooldownWindows - quiet'[ip]
    BY DEF MuteIsQuiet
  <2>5. quiet'[ip] \in Nat /\ CooldownWindows \in Nat
    BY BeaconAssumption DEF TypeOK
  <2>6. QED
    BY <1>9, <2>2, <2>3, <2>4, <2>5
<1>10. QED
  BY <1>8, <1>9

LEMMA SteadyStep ==
    ASSUME SteadyInv, [Next]_vars
    PROVE  SteadyInv'
<1>1. HistoryInv /\ TypeOK /\ HistoryInv' /\ MuteIsQuiet' /\ TypeOK'
  BY HistoryStep, MuteStep DEF SteadyInv, HistoryInv
<1>2. CASE UNCHANGED vars
  <2>1. /\ contacts' = contacts /\ since' = since /\ now' = now
        /\ quiet' = quiet /\ fired' = fired
    BY <1>2 DEF vars
  <2>2. \A ip : Recent(ip)' = Recent(ip)
    BY <2>1 DEF Recent
  <2>3. SteadyIsReported'
    BY <2>1, <2>2 DEF SteadyInv, SteadyIsReported, SteadyBy
  <2>4. QED
    BY <1>1, <2>3 DEF SteadyInv
<1>3. ASSUME NEW ips \in SUBSET Ips, NEW ts \in Times, ts > now, Window(ips, ts)
      PROVE  SteadyIsReported'
  <2>1. now' = ts
    BY <1>1, <1>3, WindowFacts
  <2>2. SUFFICES ASSUME NEW ip \in Ips, now' \in contacts'[ip],
                        Cardinality(Recent(ip)') >= MinEvents,
                        NEW d \in MinPeriod .. MaxPeriod, SteadyBy(ip, d)'
                 PROVE  ip \in fired' \/ quiet'[ip] < CooldownWindows
    BY DEF SteadyIsReported
  <2> DEFINE all == Since(contacts'[ip], since'[ip])
  <2>3. Recent(ip)' = Latest(all)
    BY DEF Recent, Latest, Since
  <2>4. Latest(all) = {ts - d * i : i \in 0 .. Cardinality(Latest(all)) - 1}
    BY <2>1, <2>2, <2>3 DEF SteadyBy
  <2>5. Cardinality(Latest(all)) >= MinEvents /\ ts \in contacts'[ip]
    BY <2>1, <2>2, <2>3
  <2> HIDE DEF all
  <2>6. QED
    BY <1>1, <1>3, <2>4, <2>5, SteadyWindow DEF all
<1>4. QED
  BY <1>1, <1>2, <1>3, NextIsWindow DEF SteadyInv

LEMMA SteadyInit == Init => SteadyInv
<1>1. Init => HistoryInv /\ MuteIsQuiet
  BY TypeInit, HistoryInit, MuteInit DEF HistoryInv
<1>2. Init => SteadyIsReported
  BY DEF Init, SteadyIsReported
<1>3. QED
  BY <1>1, <1>2 DEF SteadyInv

\* Whatever came before, a destination whose remembered contacts are min_events
\* or more and at one period in range is reported at its last contact, or mute
\* since it was reported before (behavioral.py:213-216, 277-309): neither the
\* eviction nor a mute hides it, and the test of the intervals, of which the
\* sum of the squares is one, accepts every even spacing.
THEOREM SteadyStaysReported == Spec => []SteadyIsReported
<1>1. SteadyInv => SteadyIsReported
  BY DEF SteadyInv
<1>2. QED
  BY <1>1, SteadyInit, SteadyStep, PTL DEF Spec

\* A report is of a destination of the window whose remembered contacts, to
\* this one, are min_events or more and span what as many periods in range
\* span (behavioral.py:277-309): contacts it forgot or never had make none.
ReportsAreOfContacts ==
    [][\A ip \in fired' :
           LET recent == Recent(ip)'
               n == Cardinality(recent) - 1
           IN  /\ n + 1 >= MinEvents
               /\ \E first \in recent :
                      /\ \A t \in recent : first <= t /\ t <= now'
                      /\ MinPeriod * n <= now' - first /\ now' - first <= MaxPeriod * n]_vars

LEMMA ReportWindow ==
    ASSUME HistoryInv, NEW ips \in SUBSET Ips, NEW ts \in Times, ts > now,
           Window(ips, ts), NEW ip \in fired',
           NEW all, all = Since(contacts'[ip], since'[ip]), all \in SUBSET Times,
           NEW n, n = Cardinality(Latest(all)) - 1
    PROVE  /\ n + 1 >= MinEvents
           /\ \E first \in Latest(all) :
                  /\ \A t \in Latest(all) : first <= t /\ t <= ts
                  /\ MinPeriod * n <= ts - first /\ ts - first <= MaxPeriod * n
<1> DEFINE g == Grown(ips, ts)[ip]
<1>0. TypeOK /\ ts \in Nat /\ Times \subseteq Nat
  BY DEF HistoryInv, Times
<1>1. ip \in ips /\ ip \in Ips /\ Due(g)
  BY DEF Window, Reported
<1>2. hist[ip] \in Seq(Times) /\ Len(hist[ip]) <= History
  BY <1>0, <1>1 DEF TypeOK
<1>3. g = Pushed(hist[ip], ts)
  BY <1>1 DEF Grown
<1>4. g # <<>> /\ Len(g) <= History /\ g \in Seq(Times)
  BY <1>2, <1>3, PushedProperties
<1>5. Last(g) = ts
  BY <1>2, <1>3, PushedProperties DEF Last
<1>6. /\ contacts'[ip] = (IF ip \in ips THEN contacts[ip] \union {ts} ELSE contacts[ip])
      /\ since'[ip] = (IF ip \in ips /\ hist[ip] = <<>> THEN ts ELSE since[ip])
  BY <1>1 DEF Window
<1>7. Ascending(g) /\ Holds(g, all)
  BY <1>1, <1>4, <1>6, HistoryWindow
<1> HIDE DEF g
<1>8. g \in Seq(Nat)
  BY <1>0, <1>4, SeqMonotonic
<1>9. {g[i] : i \in 1 .. Len(g)} = Latest(all)
  BY <1>4, <1>7, <1>8, HeldIsRecent DEF Latest
<1>10. Cardinality({g[i] : i \in 1 .. Len(g)}) = Len(g)
  BY <1>7, <1>8, AscendingCardinality
<1>11. Len(g) - 1 = n /\ Len(g) \in Nat \ {0}
  BY <1>4, <1>8, <1>9, <1>10, EmptySeq, LenProperties
<1>12. n + 1 >= MinEvents
  BY <1>1, <1>11, BeaconAssumption DEF Due
<1>13. MinPeriod * n <= ts - g[1] /\ ts - g[1] <= MaxPeriod * n
  BY <1>1, <1>5, <1>11 DEF Due, Periodic
<1>14. \A i \in 1 .. Len(g) : g[1] <= g[i] /\ g[i] <= ts
  <2>1. \A i \in 1 .. Len(g) : g[i] \in Nat
    BY <1>8, ElementOfSeq
  <2>2. g[Len(g)] = ts
    BY <1>5 DEF Last
  <2>3. QED
    BY <1>7, <1>11, <2>1, <2>2 DEF Ascending
<1>15. g[1] \in Latest(all) /\ \A t \in Latest(all) : g[1] <= t /\ t <= ts
  <2>1. 1 \in 1 .. Len(g)
    BY <1>11
  <2>2. QED
    BY <1>9, <1>14, <2>1
<1>16. QED
  BY <1>12, <1>13, <1>15

\* What BeaconDetector reports is periodic in the contacts there were, however
\* often the destination was forgotten or mute before (behavioral.py:277-309).
THEOREM ReportsStayOfContacts == Spec => ReportsAreOfContacts
<1> DEFINE A == \A ip \in fired' :
                  LET recent == Recent(ip)'
                      n == Cardinality(recent) - 1
                  IN  /\ n + 1 >= MinEvents
                      /\ \E first \in recent :
                             /\ \A t \in recent : first <= t /\ t <= now'
                             /\ MinPeriod * n <= now' - first /\ now' - first <= MaxPeriod * n
<1>1. HistoryInv /\ [Next]_vars => [A]_vars
  <2> SUFFICES ASSUME HistoryInv, Next, NEW ip \in fired',
                      NEW recent, recent = Recent(ip)', NEW n, n = Cardinality(recent) - 1
               PROVE  /\ n + 1 >= MinEvents
                      /\ \E first \in recent :
                             /\ \A t \in recent : first <= t /\ t <= now'
                             /\ MinPeriod * n <= now' - first /\ now' - first <= MaxPeriod * n
    OBVIOUS
  <2>1. TypeOK /\ TypeOK'
    BY TypeStep DEF HistoryInv
  <2>2. PICK ips \in SUBSET Ips, ts \in Times : ts > now /\ Window(ips, ts)
    BY <2>1, NextIsWindow
  <2>3. now' = ts
    BY <2>1, <2>2, WindowFacts
  <2> DEFINE all == Since(contacts'[ip], since'[ip])
  <2>4. recent = Latest(all)
    BY DEF Recent, Latest, Since
  <2>5. all \in SUBSET Times
    BY <2>1 DEF TypeOK, Since
  <2> HIDE DEF all
  <2>6. QED
    BY <2>2, <2>3, <2>4, <2>5, ReportWindow DEF all
<1>2. Init => HistoryInv
  BY TypeInit, HistoryInit DEF HistoryInv
<1>3. QED
  BY <1>1, <1>2, HistoryStep, PTL DEF Spec, ReportsAreOfContacts
=============================================================================
