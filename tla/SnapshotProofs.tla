---------------------------- MODULE SnapshotProofs ----------------------------
(***************************************************************************)
(* Theorems about DetectorSnapshot, for every set of buckets, bucketings   *)
(* and rates, every interval and every sequence of saves, damages, stops,  *)
(* crashes and starts.                                                     *)
(***************************************************************************)
EXTENDS DetectorSnapshot, TLAPS

\* A process that is down has no memory, and no save of its own has failed.
Forgotten ==
    status = "down" =>
        /\ known = {} /\ base = [k \in Keys |-> Fresh] /\ cutoff = FreshCutoff
        /\ sinceSave = 0 /\ failed = 0

\* What was never learned, or never saved, counts nothing.
Unlearned ==
    \A k \in Keys : /\ k \notin known => base[k].n = 0
                    /\ k \notin row.known => row.n[k] = 0

Undamaged == ~ damaged => row.damage = Intact

SInv ==
    /\ TypeOK /\ OwnSamples /\ SeedsAreAll /\ OnlyDamageKills
    /\ Forgotten /\ Unlearned /\ Undamaged

LEMMA FreshType == Fresh \in Stats /\ FreshCutoff \in Cutoffs /\ Fresh.n = 0 /\ Fresh.buf = 0
                   /\ FreshCutoff.whole = TRUE
BY SnapshotAssumption DEF Fresh, FreshCutoff, Stats, Cutoffs

LEMMA InitSnapshot == Init => SInv
<1> SUFFICES ASSUME Init PROVE SInv
    OBVIOUS
<1>1. NoRow \in Snapshots /\ NoRow.bucketing = NoBucketing /\ NoRow.damage = Intact
      /\ NoRow.cutoff = FreshCutoff /\ NoRow.known = {} /\ NoRow.n = [k \in Keys |-> 0]
    BY FreshType DEF NoRow, Snapshots
<1>2. TypeOK
    <2>1. status \in {"down", "up", "dead"} /\ bucketing \in Bucketings /\ rate \in Rates
        BY DEF Init
    <2>2. known \subseteq Keys /\ base \in [Keys -> Stats] /\ cutoff \in Cutoffs
        BY FreshType DEF Init
    <2>3. sinceSave \in 0..(Interval - 1) /\ failed \in 0..MaxFailed /\ damaged \in BOOLEAN
        <3>1. Interval \in Nat \ {0} /\ MaxFailed \in Nat
            BY SnapshotAssumption
        <3>2. sinceSave = 0 /\ failed = 0
            BY DEF Init
        <3>3. damaged \in BOOLEAN
            BY DEF Init
        <3> QED BY <3>1, <3>2, <3>3
    <2>4. row \in Snapshots /\ given \in [Bucketings -> [Keys -> Nat]]
        BY <1>1 DEF Init
    <2> QED BY <2>1, <2>2, <2>3, <2>4 DEF TypeOK
<1>3. OwnSamples /\ Unlearned
    BY <1>1, FreshType DEF Init, OwnSamples, Unlearned
<1>4. SeedsAreAll
    BY FreshType DEF Init, SeedsAreAll
<1>5. OnlyDamageKills /\ Forgotten /\ Undamaged
    BY <1>1, FreshType DEF Init, OnlyDamageKills, Forgotten, Undamaged
<1> QED BY <1>2, <1>3, <1>4, <1>5 DEF SInv

-----------------------------------------------------------------------------
(* A window.                                                               *)

LEMMA LearnedType ==
    ASSUME NEW s \in Stats
    PROVE  /\ Learned(s) \in Stats /\ Learned(s).n = s.n + 1
           /\ (s.buf # Streaming => s.buf = s.n) =>
                  (Learned(s).buf # Streaming => Learned(s).buf = Learned(s).n)
<1>1. s.n \in Nat /\ s.buf \in (0..(InitSize - 1)) \cup {Streaming}
    BY DEF Stats
<1>2. InitSize \in Nat /\ InitSize > 1 /\ Streaming = -1
    BY SnapshotAssumption DEF Streaming
<1>3. Learned(s).n = s.n + 1
      /\ Learned(s).buf = IF s.buf = Streaming \/ s.buf + 1 >= InitSize THEN Streaming ELSE s.buf + 1
    BY DEF Learned
<1>4. Learned(s).buf \in (0..(InitSize - 1)) \cup {Streaming}
    BY <1>1, <1>2, <1>3
<1>5. Learned(s) \in Stats
    BY <1>1, <1>3, <1>4 DEF Learned, Stats
<1>6. ASSUME s.buf # Streaming => s.buf = s.n, Learned(s).buf # Streaming
      PROVE  Learned(s).buf = Learned(s).n
    BY <1>1, <1>2, <1>3, <1>6
<1> QED BY <1>3, <1>5, <1>6

LEMMA ScoredType ==
    ASSUME NEW c \in Cutoffs, rate \in Rates
    PROVE  Scored(c) \in Cutoffs /\ (c.whole => Scored(c).whole)
<1>1. c.init \in 0..(Placing - 1) /\ c.rate \in Rates \cup {NoRate} /\ c.whole \in BOOLEAN
      /\ Placing \in Nat \ {0}
    BY SnapshotAssumption DEF Cutoffs
<1>2. CASE c.rate # NoRate BY <1>2 DEF Scored
<1>3. CASE c.rate = NoRate /\ c.init + 1 >= Placing
    BY <1>1, <1>3 DEF Scored, Cutoffs
<1>4. CASE c.rate = NoRate /\ ~ c.init + 1 >= Placing
    <2>1. Scored(c) = [c EXCEPT !.init = @ + 1]
        BY <1>4 DEF Scored
    <2>2. c.init + 1 \in 0..(Placing - 1)
        BY <1>1, <1>4
    <2> QED BY <1>1, <2>1, <2>2 DEF Cutoffs
<1> QED BY <1>2, <1>3, <1>4

LEMMA SerializedType ==
    ASSUME NEW keys \in SUBSET Keys, NEW stats \in [Keys -> Stats], NEW c \in Cutoffs,
           bucketing \in Bucketings
    PROVE  /\ Serialized(keys, stats, c) \in Snapshots
           /\ Serialized(keys, stats, c).bucketing = bucketing
           /\ Serialized(keys, stats, c).known = keys
           /\ Serialized(keys, stats, c).cutoff = c
           /\ Serialized(keys, stats, c).damage = Intact
           /\ Serialized(keys, stats, c).n = [k \in Keys |-> stats[k].n]
<1>1. \A k \in Keys : stats[k].n \in Nat
    BY DEF Stats
<1> QED BY <1>1 DEF Serialized, Snapshots

\* What a window does to the memory, whether or not a save is due.
LEMMA WindowLearns ==
    ASSUME SInv, NEW b \in Buckets, NEW held \in BOOLEAN, Window(b, held)
    PROVE  /\ known' \subseteq Keys /\ base' \in [Keys -> Stats] /\ cutoff' \in Cutoffs
           /\ given' \in [Bucketings -> [Keys -> Nat]]
           /\ \A k \in Keys : base'[k].n \in {base[k].n, base[k].n + 1}
           /\ \A k \in Keys : base'[k].n <= given'[bucketing][k]
           /\ \A m \in Bucketings, k \in Keys : given[m][k] <= given'[m][k]
           /\ \A k \in Keys : k \notin known' => base'[k].n = 0
           /\ \A k \in Keys : base'[k].buf # Streaming => base'[k].buf = base'[k].n
           /\ cutoff.whole => cutoff'.whole
<1>1. /\ base \in [Keys -> Stats] /\ cutoff \in Cutoffs /\ known \subseteq Keys
      /\ given \in [Bucketings -> [Keys -> Nat]] /\ bucketing \in Bucketings /\ rate \in Rates
      /\ status = "up"
    BY DEF SInv, TypeOK, Window
<1>2. b \in Keys /\ Global \in Keys /\ Learners(b, held) \subseteq {b, Global}
      /\ Learners(b, held) \subseteq Keys
    BY DEF Keys, Learners
<1>3. base' = [k \in Keys |-> IF k \in Learners(b, held) THEN Learned(base[k]) ELSE base[k]]
    BY DEF Window
<1>4. \A k \in Keys : base[k] \in Stats /\ base[k].n \in Nat
    BY <1>1 DEF Stats
<1>5. \A k \in Keys : base'[k] = IF k \in Learners(b, held) THEN Learned(base[k]) ELSE base[k]
    BY <1>3
<1>6. base' \in [Keys -> Stats]
    BY <1>3, <1>4, LearnedType
<1>7. \A k \in Keys : base'[k].n = IF k \in Learners(b, held) THEN base[k].n + 1 ELSE base[k].n
    BY <1>4, <1>5, LearnedType
<1>8. given' = [given EXCEPT ![bucketing] =
                    [k \in Keys |-> IF k \in {b, Global} THEN @[k] + 1 ELSE @[k]]]
    BY DEF Window
<1>9. \A k \in Keys : given[bucketing][k] \in Nat
    BY <1>1
<1>10. given' \in [Bucketings -> [Keys -> Nat]]
    <2>1. [k \in Keys |-> IF k \in {b, Global} THEN given[bucketing][k] + 1
                          ELSE given[bucketing][k]] \in [Keys -> Nat]
        BY <1>9
    <2> QED BY <1>1, <1>8, <2>1
<1>11. \A k \in Keys : given'[bucketing][k] =
            IF k \in {b, Global} THEN given[bucketing][k] + 1 ELSE given[bucketing][k]
    BY <1>1, <1>8
<1>12. \A k \in Keys : base[k].n <= given[bucketing][k]
    BY <1>1 DEF SInv, OwnSamples
<1>13. \A k \in Keys : base'[k].n <= given'[bucketing][k]
    BY <1>2, <1>4, <1>7, <1>9, <1>11, <1>12
<1>14. ASSUME NEW m \in Bucketings, NEW k \in Keys PROVE given[m][k] <= given'[m][k]
    <2>1. given[m][k] \in Nat
        BY <1>1
    <2>2. CASE m = bucketing BY <1>11, <2>1, <2>2
    <2>3. CASE m # bucketing
        <3>1. given'[m] = given[m]
            BY <1>1, <1>8, <2>3
        <3> QED BY <2>1, <3>1
    <2> QED BY <2>2, <2>3
<1>15. known' = known \cup {b, Global}
    BY DEF Window
<1>16. \A k \in Keys : k \notin known' => base'[k].n = 0
    BY <1>2, <1>5, <1>15 DEF SInv, Unlearned
<1>17. \A k \in Keys : base'[k].buf # Streaming => base'[k].buf = base'[k].n
    BY <1>4, <1>5, LearnedType DEF SInv, SeedsAreAll
<1>18. cutoff' \in Cutoffs /\ (cutoff.whole => cutoff'.whole)
    BY <1>1, ScoredType DEF Window
<1> QED BY <1>1, <1>2, <1>4, <1>6, <1>7, <1>10, <1>13, <1>14, <1>15, <1>16, <1>17, <1>18

\* The counter of the windows since the last save, and the failures.
LEMMA WindowSaves ==
    ASSUME SInv, NEW b \in Buckets, NEW held \in BOOLEAN, Window(b, held)
    PROVE  \/ /\ row' = Serialized(known', base', cutoff')
              /\ sinceSave' = 0 /\ failed' = 0
           \/ /\ row' = row /\ failed' \in {failed, failed + 1} /\ failed' \in 0..MaxFailed
              /\ sinceSave' \in 0..(Interval - 1)
              /\ \/ failed' = failed /\ sinceSave' = sinceSave + 1
                 \/ failed' = failed + 1 /\ sinceSave' = 0 /\ sinceSave + 1 = Interval
<1>1. Interval \in Nat \ {0} /\ MaxFailed \in Nat /\ sinceSave \in 0..(Interval - 1)
      /\ failed \in 0..MaxFailed
    BY SnapshotAssumption DEF SInv, TypeOK
<1>2. CASE SaveDue
    <2>1. sinceSave' = 0 /\ sinceSave + 1 = Interval
        BY <1>1, <1>2 DEF Window, SaveDue
    <2>2. Save(Serialized(known', base', cutoff'))
        BY <1>2 DEF Window
    <2> QED BY <1>1, <2>1, <2>2 DEF Save
<1>3. CASE ~ SaveDue
    <2>1. sinceSave' = sinceSave + 1 /\ row' = row /\ failed' = failed
        BY <1>3 DEF Window
    <2>2. sinceSave + 1 < Interval
        BY <1>1, <1>3 DEF SaveDue
    <2> QED BY <1>1, <2>1, <2>2
<1> QED BY <1>2, <1>3

LEMMA WindowKeeps ==
    ASSUME SInv, NEW b \in Buckets, NEW held \in BOOLEAN, Window(b, held)
    PROVE  SInv'
<1>1. /\ status = "up" /\ status' = status /\ bucketing' = bucketing /\ rate' = rate
      /\ damaged' = damaged
    BY DEF Window, process
<1>2. /\ bucketing \in Bucketings /\ rate \in Rates /\ row \in Snapshots
      /\ Interval \in Nat \ {0} /\ MaxFailed \in Nat /\ damaged \in BOOLEAN
    BY SnapshotAssumption DEF SInv, TypeOK
<1> DEFINE saved == Serialized(known', base', cutoff')
<1>3. /\ known' \subseteq Keys /\ base' \in [Keys -> Stats] /\ cutoff' \in Cutoffs
      /\ given' \in [Bucketings -> [Keys -> Nat]]
      /\ \A k \in Keys : base'[k].n <= given'[bucketing][k]
      /\ \A m \in Bucketings, k \in Keys : given[m][k] <= given'[m][k]
      /\ \A k \in Keys : k \notin known' => base'[k].n = 0
      /\ \A k \in Keys : base'[k].buf # Streaming => base'[k].buf = base'[k].n
      /\ cutoff.whole => cutoff'.whole
    BY WindowLearns
<1>4. /\ saved \in Snapshots /\ saved.bucketing = bucketing
      /\ saved.known = known' /\ saved.cutoff = cutoff' /\ saved.damage = Intact
      /\ \A k \in Keys : saved.n[k] = base'[k].n
    <2>1. known' \in SUBSET Keys
        BY <1>3
    <2> HIDE DEF saved
    <2>2. saved = Serialized(known', base', cutoff')
        BY DEF saved
    <2>3. base' \in [Keys -> Stats] /\ cutoff' \in Cutoffs /\ bucketing \in Bucketings
        BY <1>2, <1>3
    <2>4. /\ saved \in Snapshots /\ saved.bucketing = bucketing
          /\ saved.known = known' /\ saved.cutoff = cutoff' /\ saved.damage = Intact
          /\ saved.n = [k \in Keys |-> base'[k].n]
        BY <2>1, <2>2, <2>3, SerializedType
    <2> QED BY <2>4
<1>5. /\ row' = saved \/ row' = row
      /\ sinceSave' \in 0..(Interval - 1) /\ failed' \in 0..MaxFailed
    <2>1. 0 \in 0..(Interval - 1) /\ 0 \in 0..MaxFailed
        BY <1>2
    <2> QED BY <2>1, WindowSaves
<1> HIDE DEF saved
<1>6. row' \in Snapshots
    BY <1>2, <1>4, <1>5
<1>7. TypeOK'
    <2>1. status' \in {"down", "up", "dead"}
        BY <1>1
    <2> QED BY <1>1, <1>2, <1>3, <1>5, <1>6, <2>1 DEF TypeOK
<1>8. OwnSamples'
    <2> SUFFICES ASSUME NEW k \in Keys
                 PROVE  /\ base'[k].n <= given'[bucketing][k]
                        /\ row'.bucketing # NoBucketing => row'.n[k] <= given'[row'.bucketing][k]
        BY <1>1 DEF OwnSamples
    <2>1. base'[k].n <= given'[bucketing][k]
        BY <1>3
    <2>2. CASE row' = saved BY <1>3, <1>4, <2>1, <2>2
    <2>3. ASSUME row' = row, row.bucketing # NoBucketing
          PROVE  row.n[k] <= given'[row.bucketing][k]
        <3>1. row.bucketing \in Bucketings /\ row.n[k] \in Nat
            BY <1>2, <2>3 DEF Snapshots
        <3>2. row.n[k] <= given[row.bucketing][k]
            BY <2>3 DEF SInv, OwnSamples
        <3>3. given[row.bucketing][k] <= given'[row.bucketing][k]
            BY <1>3, <3>1
        <3>4. given[row.bucketing][k] \in Nat /\ given'[row.bucketing][k] \in Nat
            BY <1>3, <3>1 DEF SInv, TypeOK
        <3> QED BY <3>1, <3>2, <3>3, <3>4
    <2> QED BY <1>5, <2>1, <2>2, <2>3
<1>9. SeedsAreAll'
    BY <1>3 DEF SeedsAreAll
<1>10. OnlyDamageKills'
    BY <1>1, <1>3, <1>4, <1>5 DEF SInv, OnlyDamageKills
<1>11. Forgotten'
    BY <1>1 DEF Forgotten
<1>12. Unlearned'
    BY <1>3, <1>4, <1>5 DEF SInv, Unlearned
<1>13. Undamaged'
    BY <1>1, <1>4, <1>5 DEF SInv, Undamaged
<1> QED BY <1>7, <1>8, <1>9, <1>10, <1>11, <1>12, <1>13 DEF SInv

-----------------------------------------------------------------------------
(* The other actions.                                                      *)

LEMMA DiesKeeps ==
    ASSUME SInv, NEW b \in Buckets, Dies(b)
    PROVE  SInv'
<1>1. /\ status' = "dead" /\ damaged /\ known' = known \cup {b, Global}
    BY DEF Dies, SInv, OnlyDamageKills
<1>2. UNCHANGED <<bucketing, rate, base, cutoff, sinceSave, row, given, failed, damaged>>
      /\ status = "up"
    BY DEF Dies
<1>3. TypeOK'
    BY <1>1, <1>2 DEF SInv, TypeOK, Keys
<1>4. OwnSamples'
    BY <1>1, <1>2 DEF SInv, OwnSamples
<1>5. SeedsAreAll' /\ OnlyDamageKills' /\ Forgotten' /\ Unlearned' /\ Undamaged'
    BY <1>1, <1>2 DEF SInv, SeedsAreAll, OnlyDamageKills, Forgotten, Unlearned, Undamaged
<1> QED BY <1>3, <1>4, <1>5 DEF SInv

\* A process that ends leaves its row as it was, or saves what it knows.
LEMMA DownKeeps ==
    ASSUME SInv, Down, failed' = 0, row' = Serialized(known, base, cutoff) \/ row' = row
    PROVE  SInv'
<1>1. /\ status # "down" /\ status' = "down" /\ sinceSave' = 0
      /\ known' = {} /\ base' = [k \in Keys |-> Fresh] /\ cutoff' = FreshCutoff
      /\ UNCHANGED <<bucketing, rate, given, damaged>>
    BY DEF Down, Empty
<1>2. /\ bucketing \in Bucketings /\ rate \in Rates /\ row \in Snapshots
      /\ known \subseteq Keys /\ base \in [Keys -> Stats] /\ cutoff \in Cutoffs
      /\ given \in [Bucketings -> [Keys -> Nat]] /\ damaged \in BOOLEAN
      /\ Interval \in Nat \ {0} /\ MaxFailed \in Nat
    BY SnapshotAssumption DEF SInv, TypeOK
<1> DEFINE saved == Serialized(known, base, cutoff)
<1>3. /\ saved \in Snapshots /\ saved.bucketing = bucketing
      /\ saved.known = known /\ saved.cutoff = cutoff /\ saved.damage = Intact
      /\ \A k \in Keys : saved.n[k] = base[k].n
    <2>1. known \in SUBSET Keys
        BY <1>2
    <2> HIDE DEF saved
    <2>2. saved = Serialized(known, base, cutoff)
        BY DEF saved
    <2>3. base \in [Keys -> Stats] /\ cutoff \in Cutoffs /\ bucketing \in Bucketings
        BY <1>2
    <2>4. /\ saved \in Snapshots /\ saved.bucketing = bucketing
          /\ saved.known = known /\ saved.cutoff = cutoff /\ saved.damage = Intact
          /\ saved.n = [k \in Keys |-> base[k].n]
        BY <2>1, <2>2, <2>3, SerializedType
    <2> QED BY <2>4
<1>4. row' = saved \/ row' = row
    OBVIOUS
<1> HIDE DEF saved
<1>5. TypeOK'
    <2>1. status' \in {"down", "up", "dead"} /\ row' \in Snapshots
        BY <1>1, <1>2, <1>3, <1>4
    <2>2. known' \subseteq Keys /\ base' \in [Keys -> Stats] /\ cutoff' \in Cutoffs
        BY <1>1, FreshType
    <2>3. sinceSave' \in 0..(Interval - 1) /\ failed' \in 0..MaxFailed
        BY <1>1, <1>2
    <2> QED BY <1>1, <1>2, <2>1, <2>2, <2>3 DEF TypeOK
<1>6. OwnSamples'
    BY <1>1, <1>2, <1>3, <1>4 DEF SInv, OwnSamples
<1>7. SeedsAreAll'
    BY <1>1, FreshType DEF SeedsAreAll
<1>8. OnlyDamageKills' /\ Undamaged'
    BY <1>1, <1>3, <1>4, FreshType DEF SInv, OnlyDamageKills, Undamaged
<1>9. Forgotten'
    BY <1>1 DEF Forgotten
<1>10. Unlearned'
    BY <1>1, <1>3, <1>4, FreshType DEF SInv, Unlearned
<1> QED BY <1>5, <1>6, <1>7, <1>8, <1>9, <1>10 DEF SInv

LEMMA DamageKeeps ==
    ASSUME SInv, NEW d \in Keys \cup {Early, Late}, Damage(d)
    PROVE  SInv'
<1>1. /\ row' = [row EXCEPT !.damage = d] /\ damaged' = TRUE /\ status = "down"
      /\ UNCHANGED <<status, bucketing, rate, known, base, cutoff, sinceSave, given, failed>>
    BY DEF Damage, process, memory
<1>2. row \in Snapshots
    BY DEF SInv, TypeOK
<1>3. /\ row' \in Snapshots /\ row'.bucketing = row.bucketing /\ row'.known = row.known
      /\ row'.n = row.n
    BY <1>1, <1>2 DEF Snapshots
<1>4. TypeOK'
    BY <1>1, <1>3 DEF SInv, TypeOK
<1>5. OwnSamples'
    BY <1>1, <1>3 DEF SInv, OwnSamples
<1>6. SeedsAreAll' /\ OnlyDamageKills' /\ Forgotten' /\ Undamaged'
    BY <1>1 DEF SInv, SeedsAreAll, OnlyDamageKills, Forgotten, Undamaged
<1>7. Unlearned'
    BY <1>1, <1>3 DEF SInv, Unlearned
<1> QED BY <1>4, <1>5, <1>6, <1>7 DEF SInv

\* What a start takes over from a row of its bucketing.
LEMMA RestoreTakes ==
    ASSUME SInv, Restore
    PROVE  /\ known' \subseteq Keys /\ base' \in [Keys -> Stats] /\ cutoff' \in Cutoffs
           /\ \A k \in Keys : base'[k].n \in {0, row.n[k]}
           /\ \A k \in Keys : k \notin known' => base'[k].n = 0
           /\ \A k \in Keys : base'[k].buf # Streaming => base'[k].buf = base'[k].n
           /\ row.damage = Intact => /\ \A k \in Keys : base'[k].n = row.n[k]
                                     /\ cutoff' = row.cutoff
<1>1. PICK keys \in SUBSET row.known :
        /\ base' = Taken(keys)
        /\ \/ /\ row.damage \in Buckets /\ keys \subseteq Buckets \ {row.damage}
              /\ known' = keys \cup {row.damage} /\ cutoff' = FreshCutoff
           \/ /\ row.damage = Global /\ keys = row.known \ {Global}
              /\ known' = row.known /\ cutoff' = FreshCutoff
           \/ /\ row.damage \notin Keys /\ keys = row.known /\ known' = keys
              /\ cutoff' = CASE row.damage = Intact -> row.cutoff
                             [] row.damage = Early -> FreshCutoff
                             [] row.damage = Late -> Torn(row.cutoff)
    BY DEF Restore
<1>2. /\ row.known \subseteq Keys /\ row.n \in [Keys -> Nat] /\ row.cutoff \in Cutoffs
      /\ row.damage \in Keys \cup {Intact, Early, Late}
    BY DEF SInv, TypeOK, Snapshots
<1>3. \A k \in Keys : base'[k] = IF k \in keys THEN [n |-> row.n[k], buf |-> Streaming] ELSE Fresh
    BY <1>1 DEF Taken
<1>4. \A k \in Keys : row.n[k] \in Nat
    BY <1>2
<1>5. base' \in [Keys -> Stats]
    <2>1. \A k \in Keys : [n |-> row.n[k], buf |-> Streaming] \in Stats
        BY <1>4 DEF Stats
    <2>2. \A k \in Keys : (IF k \in keys THEN [n |-> row.n[k], buf |-> Streaming] ELSE Fresh) \in Stats
        BY <2>1, FreshType
    <2> QED BY <1>1, <2>2 DEF Taken
<1>6. known' \subseteq Keys /\ keys \subseteq known'
    BY <1>1, <1>2 DEF Keys
<1>7. cutoff' \in Cutoffs
    <2>1. Torn(row.cutoff) \in Cutoffs
        <3>1. (row.cutoff.rate = NoRate) \in BOOLEAN
            OBVIOUS
        <3> QED BY <1>2, <3>1 DEF Torn, Cutoffs
    <2>2. CASE row.damage \in Keys BY <1>1, <2>2, FreshType
    <2>3. CASE row.damage \notin Keys
        <3>1. cutoff' = CASE row.damage = Intact -> row.cutoff
                          [] row.damage = Early -> FreshCutoff
                          [] row.damage = Late -> Torn(row.cutoff)
            BY <1>1, <2>3 DEF Keys
        <3>2. row.damage \in {Intact, Early, Late}
            BY <1>2, <2>3
        <3> QED BY <1>2, <2>1, <3>1, <3>2, FreshType DEF Intact, Early, Late
    <2> QED BY <2>2, <2>3
<1>12. ASSUME NEW k \in Keys
       PROVE  /\ k \in keys => base'[k].n = row.n[k] /\ base'[k].buf = Streaming
              /\ k \notin keys => base'[k].n = 0 /\ base'[k].buf = 0
    <2>1. CASE k \in keys
        <3>1. base'[k] = [n |-> row.n[k], buf |-> Streaming]
            BY <1>3, <2>1
        <3> QED BY <2>1, <3>1
    <2>2. CASE k \notin keys
        <3>1. base'[k] = Fresh
            BY <1>3, <2>2
        <3> QED BY <2>2, <3>1, FreshType
    <2> QED BY <2>1, <2>2
<1>8. \A k \in Keys : base'[k].n \in {0, row.n[k]}
    BY <1>12
<1>9. \A k \in Keys : k \notin known' => base'[k].n = 0
    BY <1>12, <1>6
<1>10. \A k \in Keys : base'[k].buf # Streaming => base'[k].buf = base'[k].n
    BY <1>12
<1>11. ASSUME row.damage = Intact
       PROVE  (\A k \in Keys : base'[k].n = row.n[k]) /\ cutoff' = row.cutoff
    <2>1. row.damage \notin Keys
        BY <1>11, MarksAreNoKeys
    <2>2. keys = row.known /\ cutoff' = row.cutoff
        BY <1>1, <1>11, <2>1 DEF Keys, Intact, Early, Late
    <2> QED BY <1>12, <2>2 DEF SInv, Unlearned
<1> QED BY <1>5, <1>6, <1>7, <1>8, <1>9, <1>10, <1>11

\* What a start takes over, from any row.
LEMMA StartTakes ==
    ASSUME SInv, NEW m \in Bucketings, NEW r \in Rates, Start(m, r)
    PROVE  /\ known' \subseteq Keys /\ base' \in [Keys -> Stats] /\ cutoff' \in Cutoffs
           /\ \A k \in Keys : base'[k].n \in {0, row.n[k]}
           /\ \A k \in Keys : k \notin known' => base'[k].n = 0
           /\ \A k \in Keys : base'[k].buf # Streaming => base'[k].buf = base'[k].n
           /\ row.bucketing # m => \A k \in Keys : base'[k].n = 0
           /\ row.bucketing = m /\ row.damage = Intact => \A k \in Keys : base'[k].n = row.n[k]
           /\ row.damage = Intact => cutoff' \in {row.cutoff, FreshCutoff}
<1>1. CASE row.bucketing = m
    <2>1. Restore
        BY <1>1 DEF Start, Compatible
    <2> QED BY <1>1, <2>1, RestoreTakes
<1>2. CASE row.bucketing # m
    <2>1. known' = {} /\ base' = [k \in Keys |-> Fresh] /\ cutoff' = FreshCutoff
        BY <1>2 DEF Start, Compatible, Empty
    <2>2. \A k \in Keys : base'[k].n = 0 /\ base'[k].buf = 0
        BY <2>1, FreshType
    <2>3. base' \in [Keys -> Stats] /\ cutoff' \in Cutoffs /\ known' \subseteq Keys
        BY <2>1, FreshType
    <2> QED BY <1>2, <2>1, <2>2, <2>3
<1> QED BY <1>1, <1>2

LEMMA StartKeeps ==
    ASSUME SInv, NEW m \in Bucketings, NEW r \in Rates, Start(m, r)
    PROVE  SInv'
<1>1. /\ status = "down" /\ status' = "up" /\ bucketing' = m /\ rate' = r
      /\ UNCHANGED <<sinceSave, row, given, failed, damaged>>
    BY DEF Start
<1>2. /\ known' \subseteq Keys /\ base' \in [Keys -> Stats] /\ cutoff' \in Cutoffs
      /\ \A k \in Keys : base'[k].n \in {0, row.n[k]}
      /\ \A k \in Keys : k \notin known' => base'[k].n = 0
      /\ \A k \in Keys : base'[k].buf # Streaming => base'[k].buf = base'[k].n
      /\ row.bucketing # m => \A k \in Keys : base'[k].n = 0
      /\ row.damage = Intact => cutoff' \in {row.cutoff, FreshCutoff}
    BY StartTakes
<1>3. TypeOK'
    BY <1>1, <1>2 DEF SInv, TypeOK
<1>4. OwnSamples'
    <2>1. row.bucketing # NoBucketing => \A k \in Keys : row.n[k] <= given[row.bucketing][k]
        BY DEF SInv, OwnSamples
    <2>2. m # NoBucketing /\ \A k \in Keys : given[m][k] \in Nat
        BY SnapshotAssumption DEF SInv, TypeOK
    <2>3. ASSUME NEW k \in Keys PROVE base'[k].n <= given[m][k]
        <3>1. CASE row.bucketing # m BY <1>2, <2>2, <3>1
        <3>2. CASE row.bucketing = m BY <1>2, <2>1, <2>2, <3>2
        <3> QED BY <3>1, <3>2
    <2> QED BY <1>1, <2>1, <2>3 DEF OwnSamples
<1>5. SeedsAreAll'
    BY <1>2 DEF SeedsAreAll
<1>6. OnlyDamageKills'
    BY <1>1, <1>2, FreshType DEF SInv, OnlyDamageKills, Undamaged
<1>7. Forgotten' /\ Undamaged'
    BY <1>1 DEF SInv, Forgotten, Undamaged
<1>8. Unlearned'
    BY <1>1, <1>2 DEF SInv, Unlearned
<1> QED BY <1>3, <1>4, <1>5, <1>6, <1>7, <1>8 DEF SInv

LEMMA SnapshotInvariant == Spec => []SInv
<1>1. SInv /\ [Next]_vars => SInv'
    <2> SUFFICES ASSUME SInv, [Next]_vars PROVE SInv'
        OBVIOUS
    <2>1. CASE UNCHANGED vars
        BY <2>1 DEF vars, process, memory, SInv, TypeOK, OwnSamples, SeedsAreAll,
                    OnlyDamageKills, Forgotten, Unlearned, Undamaged
    <2>2. ASSUME NEW b \in Buckets, Dies(b) PROVE SInv'
        BY <2>2, DiesKeeps
    <2>3. ASSUME NEW b \in Buckets, NEW held \in BOOLEAN, Window(b, held) PROVE SInv'
        BY <2>3, WindowKeeps
    <2>4. CASE Stop \/ Crash
        BY <2>4, DownKeeps DEF Stop, Crash
    <2>5. ASSUME NEW d \in row.known \cup {Early, Late}, Damage(d) PROVE SInv'
        <3>1. row.known \subseteq Keys
            BY DEF SInv, TypeOK, Snapshots
        <3>2. d \in Keys \cup {Early, Late}
            BY <3>1
        <3> QED BY <2>5, <3>2, DamageKeeps
    <2>6. ASSUME NEW m \in Bucketings, NEW r \in Rates, Start(m, r) PROVE SInv'
        BY <2>6, StartKeeps
    <2> QED BY <2>1, <2>2, <2>3, <2>4, <2>5, <2>6 DEF Next
<1> QED BY <1>1, InitSnapshot, PTL DEF Spec

-----------------------------------------------------------------------------

\* The memory, the row and the histories have their types.
THEOREM TypeCorrect == Spec => []TypeOK
<1>1. SInv => TypeOK
    BY DEF SInv
<1> QED BY <1>1, SnapshotInvariant, PTL

\* No baseline counts a window of another bucket, of another bucketing, or
\* twice, whatever was saved, lost and restored (adaptive.py:346-388).
THEOREM OwnSamplesOnly == Spec => []OwnSamples
<1>1. SInv => OwnSamples
    BY DEF SInv
<1> QED BY <1>1, SnapshotInvariant, PTL

\* The median of a baseline that still seeds is that of all its samples
\* (stats.py:66-77, adaptive.py:376, 380).
THEOREM SeedsStayWhole == Spec => []SeedsAreAll
<1>1. SInv => SeedsAreAll
    BY DEF SInv
<1> QED BY <1>1, SnapshotInvariant, PTL

\* Without a damaged row, no save and no restart leaves an estimator that stops
\* the capture (adaptive.py:381-387).
THEOREM DamageAloneKills == Spec => []OnlyDamageKills
<1>1. SInv => OnlyDamageKills
    BY DEF SInv
<1> QED BY <1>1, SnapshotInvariant, PTL

-----------------------------------------------------------------------------
(* The refinement.                                                         *)

\* The units at risk stay below what the failed saves cover.
LEMMA AtRiskAfterWindow ==
    ASSUME NEW every \in Nat \ {0}, NEW since \in Nat, NEW fails \in Nat,
           since < every
    PROVE  since + every * fails < every * (fails + 1)
<1>1. every * (fails + 1) = every * fails + every /\ every * fails \in Nat
    OBVIOUS
<1> QED BY <1>1

LEMMA MissedSave ==
    ASSUME NEW every \in Nat \ {0}, NEW since \in Nat, NEW fails \in Nat,
           since + 1 = every
    PROVE  0 + every * (fails + 1) = since + every * fails + 1
<1>1. every * (fails + 1) = every * fails + every /\ every * fails \in Nat
    OBVIOUS
<1> QED BY <1>1

LEMMA WindowIsWork ==
    ASSUME SInv, NEW b \in Buckets, NEW held \in BOOLEAN, Window(b, held)
    PROVE  Abstract!Work
<1>1. /\ status = "up" /\ status' = status /\ bucketing' = bucketing
    BY DEF Window, process
<1>2. /\ known' \subseteq Keys /\ base' \in [Keys -> Stats] /\ cutoff' \in Cutoffs
      /\ \A k \in Keys : base'[k].n \in {base[k].n, base[k].n + 1}
    BY WindowLearns
<1>3. /\ Interval \in Nat \ {0} /\ sinceSave \in Nat /\ sinceSave < Interval /\ failed \in Nat
      /\ bucketing \in Bucketings /\ row \in Snapshots
    BY SnapshotAssumption DEF SInv, TypeOK
<1> DEFINE live == [k \in Keys |-> base[k].n]
           live2 == [k \in Keys |-> base'[k].n]
<1>4. live2 \in [Keys -> Nat] /\ \A k \in Keys : live2[k] \in {live[k], live[k] + 1}
    <2>1. \A k \in Keys : base'[k].n \in Nat
        BY <1>2 DEF Stats
    <2> QED BY <1>2, <2>1
<1>5. CASE row' = Serialized(known', base', cutoff') /\ sinceSave' = 0 /\ failed' = 0
    <2>1. known' \in SUBSET Keys
        BY <1>2
    <2>2. /\ row'.bucketing = bucketing /\ row'.damage = Intact /\ row'.n = live2
        BY <1>2, <1>3, <1>5, <2>1, SerializedType
    <2>3. sinceSave' + Interval * failed' = 0
        BY <1>3, <1>5
    <2> HIDE DEF live, live2
    <2> QED BY <1>1, <1>4, <1>5, <2>2, <2>3 DEF Abstract!Work, Abstract!Keep, live, live2
<1>6. ASSUME row' = row, failed' \in {failed, failed + 1}, sinceSave' \in 0..(Interval - 1),
             \/ failed' = failed /\ sinceSave' = sinceSave + 1
             \/ failed' = failed + 1 /\ sinceSave' = 0 /\ sinceSave + 1 = Interval
      PROVE  Abstract!Work
    <2>1. sinceSave' + Interval * failed' = sinceSave + Interval * failed + 1
        <3>1. CASE failed' = failed /\ sinceSave' = sinceSave + 1
            <4>1. Interval * failed \in Nat
                BY <1>3
            <4> QED BY <1>3, <3>1, <4>1
        <3>2. CASE failed' = failed + 1 /\ sinceSave' = 0 /\ sinceSave + 1 = Interval
            BY <1>3, <3>2, MissedSave
        <3> QED BY <1>6, <3>1, <3>2
    <2>2. sinceSave' + Interval * failed' < Interval * (failed' + 1)
        <3>1. sinceSave' \in Nat /\ failed' \in Nat /\ sinceSave' < Interval
            BY <1>3, <1>6
        <3> QED BY <1>3, <3>1, AtRiskAfterWindow
    <2> HIDE DEF live, live2
    <2> QED BY <1>1, <1>4, <1>6, <2>1, <2>2
            DEF Abstract!Work, Abstract!AtRisk, Abstract!store, live, live2
<1> QED BY <1>5, <1>6, WindowSaves

LEMMA DownIsHalt ==
    ASSUME SInv, Down, failed' = 0, row' = Serialized(known, base, cutoff) \/ row' = row
    PROVE  Abstract!Halt
<1>1. /\ status # "down" /\ status' = "down" /\ sinceSave' = 0 /\ bucketing' = bucketing
      /\ base' = [k \in Keys |-> Fresh]
    BY DEF Down, Empty
<1>2. /\ known \in SUBSET Keys /\ base \in [Keys -> Stats] /\ cutoff \in Cutoffs
      /\ bucketing \in Bucketings /\ Interval \in Nat
    BY SnapshotAssumption DEF SInv, TypeOK
<1>3. [k \in Keys |-> base'[k].n] = [k \in Keys |-> 0]
    BY <1>1, FreshType
<1>4. sinceSave' + Interval * failed' = 0
    BY <1>1, <1>2
<1>5. CASE row' = Serialized(known, base, cutoff)
    <2>1. /\ row'.bucketing = bucketing /\ row'.damage = Intact
          /\ row'.n = [k \in Keys |-> base[k].n]
        BY <1>2, <1>5, SerializedType
    <2> QED BY <1>1, <1>3, <1>4, <2>1 DEF Abstract!Halt, Abstract!Keep, Abstract!Nothing
<1>6. CASE row' = row
    BY <1>1, <1>3, <1>4, <1>6 DEF Abstract!Halt, Abstract!Nothing, Abstract!store
<1> QED BY <1>5, <1>6

LEMMA StartIsStart ==
    ASSUME SInv, NEW m \in Bucketings, NEW r \in Rates, Start(m, r)
    PROVE  Abstract!Start
<1>1. /\ status = "down" /\ status' = "up" /\ bucketing' = m
      /\ UNCHANGED <<sinceSave, row, failed>>
    BY DEF Start
<1>2. sinceSave' + Interval * failed' = 0
    <2>1. sinceSave = 0 /\ failed = 0 /\ Interval \in Nat
        BY <1>1, SnapshotAssumption DEF SInv, Forgotten
    <2> QED BY <1>1, <2>1
<1>3. /\ base' \in [Keys -> Stats]
      /\ \A k \in Keys : base'[k].n \in {0, row.n[k]}
      /\ row.bucketing # m => \A k \in Keys : base'[k].n = 0
      /\ row.bucketing = m /\ row.damage = Intact => \A k \in Keys : base'[k].n = row.n[k]
    BY StartTakes
<1> DEFINE live2 == [k \in Keys |-> base'[k].n]
<1>4. live2 \in [Keys -> Nat] /\ \A k \in Keys : live2[k] \in {0, row.n[k]}
    <2>1. \A k \in Keys : base'[k].n \in Nat
        BY <1>3 DEF Stats
    <2> QED BY <1>3, <2>1
<1>5. row.bucketing # m => live2 = [k \in Keys |-> 0]
    BY <1>3
<1>6. row.bucketing = m /\ row.damage = Intact => live2 = row.n
    <2>1. row.n \in [Keys -> Nat]
        BY DEF SInv, TypeOK, Snapshots
    <2> QED BY <1>3, <2>1
<1>7. Abstract!TakesOver(m, live2)
    <2> HIDE DEF live2
    <2> QED BY <1>4, <1>5, <1>6 DEF Abstract!TakesOver, Abstract!Nothing
<1>8. ~ (status # "down") /\ (status' # "down") = TRUE
    BY <1>1
<1>9. Abstract!TakesOver(bucketing', [k \in Keys |-> base'[k].n])
    BY <1>1, <1>7
<1>10. bucketing' \in Bucketings /\ failed' = 0
    BY <1>1 DEF SInv, Forgotten
<1>11. UNCHANGED <<row.n, row.bucketing, row.damage = Intact>>
    BY <1>1
<1> QED BY <1>2, <1>8, <1>9, <1>10, <1>11 DEF Abstract!Start, Abstract!store

LEMMA DamageIsDamage ==
    ASSUME SInv, NEW d \in Keys \cup {Early, Late}, Damage(d)
    PROVE  Abstract!Damage
<1>1. /\ row' = [row EXCEPT !.damage = d] /\ status = "down" /\ row \in Snapshots
      /\ UNCHANGED <<status, bucketing, known, base, sinceSave, failed>>
    BY DEF Damage, process, memory, SInv, TypeOK
<1>2. row'.bucketing = row.bucketing /\ row'.n = row.n /\ row'.damage = d
    BY <1>1 DEF Snapshots
<1>3. d # Intact
    BY MarksAreNoKeys DEF Intact, Early, Late
<1> QED BY <1>1, <1>2, <1>3 DEF Abstract!Damage, Abstract!worker

\* The detector and its row implement the checkpointed worker, for every
\* interval: what a process loses is what came after its last save that
\* succeeded, and what a start takes over is what was saved
\* (service.py:78-88, 130, 165-177, adaptive.py:346-388).
THEOREM Refinement == Spec => ImplementsCheckpoint
<1>1. Init => Abstract!Init
    <2> SUFFICES ASSUME Init PROVE Abstract!Init
        OBVIOUS
    <2>1. /\ status = "down" /\ bucketing \in Bucketings /\ sinceSave = 0 /\ failed = 0
          /\ base = [k \in Keys |-> Fresh]
          /\ row.n = [k \in Keys |-> 0] /\ row.bucketing = NoBucketing /\ row.damage = Intact
        BY DEF Init, NoRow
    <2>2. [k \in Keys |-> base[k].n] = [k \in Keys |-> 0]
        BY <2>1, FreshType
    <2>3. sinceSave + Interval * failed = 0
        <3>1. Interval \in Nat
            BY SnapshotAssumption
        <3> QED BY <2>1, <3>1
    <2> QED BY <2>1, <2>2, <2>3 DEF Abstract!Init, Abstract!Nothing
<1>2. SInv /\ [Next]_vars => [Abstract!Next]_(Abstract!vars)
    <2> SUFFICES ASSUME SInv, [Next]_vars PROVE Abstract!Next \/ UNCHANGED Abstract!vars
        OBVIOUS
    <2>1. CASE UNCHANGED vars
        BY <2>1 DEF vars, process, memory, Abstract!vars, Abstract!worker, Abstract!store
    <2>2. ASSUME NEW b \in Buckets, Dies(b) PROVE UNCHANGED Abstract!vars
        BY <2>2 DEF Dies, Abstract!vars, Abstract!worker, Abstract!store
    <2>3. ASSUME NEW b \in Buckets, NEW held \in BOOLEAN, Window(b, held) PROVE Abstract!Next
        BY <2>3, WindowIsWork DEF Abstract!Next
    <2>4. CASE Stop \/ Crash
        BY <2>4, DownIsHalt DEF Stop, Crash, Abstract!Next
    <2>5. ASSUME NEW d \in row.known \cup {Early, Late}, Damage(d) PROVE Abstract!Next
        <3>1. row.known \subseteq Keys
            BY DEF SInv, TypeOK, Snapshots
        <3>2. d \in Keys \cup {Early, Late}
            BY <3>1
        <3> QED BY <2>5, <3>2, DamageIsDamage DEF Abstract!Next
    <2>6. ASSUME NEW m \in Bucketings, NEW r \in Rates, Start(m, r) PROVE Abstract!Next
        BY <2>6, StartIsStart DEF Abstract!Next
    <2> QED BY <2>1, <2>2, <2>3, <2>4, <2>5, <2>6 DEF Next
<1> QED BY <1>1, <1>2, SnapshotInvariant, PTL DEF Spec, ImplementsCheckpoint, Abstract!Spec

-----------------------------------------------------------------------------
(* What a crash may lose, and what a save may replace.                     *)

\* Windows that were learned since the last save that succeeded, or the start.
Unsaved == sinceSave + Interval * failed

\* What a start in the bucketing of this process would find for a key.
Found(k) == IF row.bucketing = bucketing THEN row.n[k] ELSE 0

\* A process learned no more, of any key, than its row holds and the windows
\* that no save covers yet; these are less than an interval more than the
\* intervals whose saves failed (service.py:78-88, 165-177).
CrashLosesLittle ==
    status # "down" =>
        /\ Unsaved < Interval * (failed + 1)
        /\ \A k \in Keys : base[k].n <= Found(k) + Unsaved

\* The next save replaces nothing by less: what a process was started from, it
\* still has (adaptive.py:346-388).
SaveOnlyAdds ==
    status # "down" /\ row.bucketing = bucketing /\ row.damage = Intact =>
        \A k \in Keys : row.n[k] <= base[k].n

\* In an intact row of the same bucketing no baseline ever loses a sample.
RowsGrow ==
    [][row.damage = Intact /\ row'.bucketing = row.bucketing =>
           \A k \in Keys : row.n[k] <= row'.n[k]]_vars

LossInv == SInv /\ CrashLosesLittle /\ SaveOnlyAdds

LEMMA AtRiskOf ==
    ASSUME NEW since \in 0..(Interval - 1), NEW fails \in 0..MaxFailed
    PROVE  /\ since + Interval * fails \in Nat
           /\ since + Interval * fails < Interval * (fails + 1)
<1>1. Interval \in Nat \ {0} /\ MaxFailed \in Nat
    BY SnapshotAssumption
<1>2. since \in Nat /\ since < Interval /\ fails \in Nat
    BY <1>1
<1>3. Interval * fails \in Nat
    BY <1>1, <1>2
<1> QED BY <1>1, <1>2, <1>3, AtRiskAfterWindow

\* What the two parts need of numbers.
LEMMA OneMore ==
    ASSUME NEW n \in Nat, NEW more, more \in {n, n + 1}, NEW found \in Nat, NEW lost \in Nat
    PROVE  /\ more \in Nat /\ n <= more
           /\ n <= found + lost => more <= found + (lost + 1)
OBVIOUS

LEMMA WindowLoses ==
    ASSUME LossInv, NEW b \in Buckets, NEW held \in BOOLEAN, Window(b, held)
    PROVE  LossInv' /\ (row.damage = Intact /\ row'.bucketing = row.bucketing =>
                            \A k \in Keys : row.n[k] <= row'.n[k])
<1>1. /\ status = "up" /\ status' = status /\ bucketing' = bucketing
    BY DEF Window, process
<1>2. /\ known' \in SUBSET Keys /\ base' \in [Keys -> Stats] /\ cutoff' \in Cutoffs
      /\ \A k \in Keys : base'[k].n \in {base[k].n, base[k].n + 1}
    BY WindowLearns DEF LossInv
<1>3. /\ Interval \in Nat \ {0} /\ sinceSave \in Nat /\ failed \in Nat /\ bucketing \in Bucketings
      /\ row \in Snapshots /\ base \in [Keys -> Stats]
    BY SnapshotAssumption DEF LossInv, SInv, TypeOK
<1>4. SInv'
    BY WindowKeeps DEF LossInv
<1>5. Unsaved' \in Nat /\ Unsaved' < Interval * (failed' + 1)
    BY <1>4, AtRiskOf DEF SInv, TypeOK, Unsaved
<1>6. Unsaved \in Nat
    BY AtRiskOf DEF LossInv, SInv, TypeOK, Unsaved
<1>7. \A k \in Keys : base[k].n \in Nat /\ base'[k].n \in Nat /\ row.n[k] \in Nat
    BY <1>2, <1>3 DEF Stats, Snapshots
<1>8. \A k \in Keys : base[k].n <= Found(k) + Unsaved
    BY <1>1 DEF LossInv, CrashLosesLittle
<1>9. CASE row' = Serialized(known', base', cutoff') /\ sinceSave' = 0 /\ failed' = 0
    <2>1. /\ row'.bucketing = bucketing /\ row'.n = [k \in Keys |-> base'[k].n]
        BY <1>2, <1>3, <1>9, SerializedType
    <2>2. \A k \in Keys : row'.n[k] = base'[k].n
        BY <2>1
    <2>3. ASSUME NEW k \in Keys PROVE base'[k].n <= row'.n[k] + Unsaved'
        BY <1>5, <1>7, <2>2
    <2>4. CrashLosesLittle'
        BY <1>1, <1>5, <2>1, <2>3 DEF CrashLosesLittle, Found
    <2>5. SaveOnlyAdds'
        BY <1>7, <2>2 DEF SaveOnlyAdds
    <2>6. ASSUME row.damage = Intact, row'.bucketing = row.bucketing, NEW k \in Keys
          PROVE  row.n[k] <= row'.n[k]
        <3>1. row.n[k] <= base[k].n
            BY <1>1, <2>1, <2>6 DEF LossInv, SaveOnlyAdds
        <3> QED BY <1>2, <1>7, <2>2, <3>1
    <2> QED BY <1>4, <2>4, <2>5, <2>6 DEF LossInv
<1>10. ASSUME row' = row, failed' \in {failed, failed + 1}, sinceSave' \in 0..(Interval - 1),
              \/ failed' = failed /\ sinceSave' = sinceSave + 1
              \/ failed' = failed + 1 /\ sinceSave' = 0 /\ sinceSave + 1 = Interval
       PROVE  LossInv' /\ \A k \in Keys : row.n[k] <= row'.n[k]
    <2>1. Unsaved' = Unsaved + 1
        <3>1. CASE failed' = failed /\ sinceSave' = sinceSave + 1
            <4>1. Interval * failed \in Nat
                BY <1>3
            <4> QED BY <1>3, <3>1, <4>1 DEF Unsaved
        <3>2. CASE failed' = failed + 1 /\ sinceSave' = 0 /\ sinceSave + 1 = Interval
            BY <1>3, <3>2, MissedSave DEF Unsaved
        <3> QED BY <1>10, <3>1, <3>2
    <2>2. ASSUME NEW k \in Keys PROVE base'[k].n <= Found(k) + Unsaved'
        <3>1. Found(k) \in Nat
            BY <1>7 DEF Found
        <3> QED BY <1>2, <1>6, <1>7, <1>8, <2>1, <3>1, OneMore
    <2>3. \A k \in Keys : Found(k)' = Found(k)
        BY <1>1, <1>10 DEF Found
    <2>4. CrashLosesLittle'
        BY <1>5, <2>2, <2>3 DEF CrashLosesLittle
    <2>5. SaveOnlyAdds'
        <3>1. ASSUME row.bucketing = bucketing, row.damage = Intact, NEW k \in Keys
              PROVE  row.n[k] <= base'[k].n
            <4>1. row.n[k] <= base[k].n
                BY <1>1, <3>1 DEF LossInv, SaveOnlyAdds
            <4> QED BY <1>2, <1>7, <4>1
        <3> QED BY <1>1, <1>10, <3>1 DEF SaveOnlyAdds
    <2> QED BY <1>4, <1>7, <1>10, <2>4, <2>5 DEF LossInv
<1> QED BY <1>9, <1>10, WindowSaves DEF LossInv

LEMMA DownLoses ==
    ASSUME LossInv, Down, failed' = 0, row' = Serialized(known, base, cutoff) \/ row' = row
    PROVE  LossInv' /\ (row.damage = Intact /\ row'.bucketing = row.bucketing =>
                            \A k \in Keys : row.n[k] <= row'.n[k])
<1>1. status # "down" /\ status' = "down"
    BY DEF Down
<1>2. SInv'
    BY DownKeeps DEF LossInv
<1>3. CrashLosesLittle' /\ SaveOnlyAdds'
    BY <1>1 DEF CrashLosesLittle, SaveOnlyAdds
<1>4. /\ known \in SUBSET Keys /\ base \in [Keys -> Stats] /\ cutoff \in Cutoffs
      /\ bucketing \in Bucketings /\ row \in Snapshots
    BY DEF LossInv, SInv, TypeOK
<1>5. ASSUME row.damage = Intact, row'.bucketing = row.bucketing, NEW k \in Keys
      PROVE  row.n[k] <= row'.n[k]
    <2>1. row.n[k] \in Nat
        BY <1>4 DEF Snapshots
    <2>2. CASE row' = row
        BY <2>1, <2>2
    <2>3. CASE row' = Serialized(known, base, cutoff)
        <3>1. row'.bucketing = bucketing /\ row'.n = [j \in Keys |-> base[j].n]
            BY <1>4, <2>3, SerializedType
        <3>2. row.n[k] <= base[k].n
            BY <1>1, <1>5, <3>1 DEF LossInv, SaveOnlyAdds
        <3> QED BY <3>1, <3>2
    <2> QED BY <2>2, <2>3
<1> QED BY <1>2, <1>3, <1>5 DEF LossInv

LEMMA StartLoses ==
    ASSUME LossInv, NEW m \in Bucketings, NEW r \in Rates, Start(m, r)
    PROVE  LossInv'
<1>1. /\ status = "down" /\ status' = "up" /\ bucketing' = m
      /\ UNCHANGED <<sinceSave, row, failed>>
    BY DEF Start
<1>2. SInv'
    BY StartKeeps DEF LossInv
<1>3. Unsaved' \in Nat /\ Unsaved' < Interval * (failed' + 1)
    BY <1>2, AtRiskOf DEF SInv, TypeOK, Unsaved
<1>4. /\ base' \in [Keys -> Stats]
      /\ \A k \in Keys : base'[k].n \in {0, row.n[k]}
      /\ row.bucketing # m => \A k \in Keys : base'[k].n = 0
      /\ row.bucketing = m /\ row.damage = Intact => \A k \in Keys : base'[k].n = row.n[k]
    BY StartTakes DEF LossInv
<1>5. \A k \in Keys : row.n[k] \in Nat
    BY DEF LossInv, SInv, TypeOK, Snapshots
<1>6. ASSUME NEW k \in Keys
      PROVE  base'[k].n <= (IF row.bucketing = m THEN row.n[k] ELSE 0) + Unsaved'
    <2>1. CASE row.bucketing = m
        BY <1>3, <1>4, <1>5, <2>1
    <2>2. CASE row.bucketing # m
        BY <1>3, <1>4, <2>2
    <2> QED BY <2>1, <2>2
<1>7. CrashLosesLittle'
    BY <1>1, <1>3, <1>6 DEF CrashLosesLittle, Found
<1>8. SaveOnlyAdds'
    BY <1>1, <1>4, <1>5 DEF SaveOnlyAdds
<1> QED BY <1>2, <1>7, <1>8 DEF LossInv

LEMMA LossStep ==
    ASSUME LossInv, [Next]_vars
    PROVE  LossInv' /\ (row.damage = Intact /\ row'.bucketing = row.bucketing =>
                            \A k \in Keys : row.n[k] <= row'.n[k])
<1>1. \A k \in Keys : row.n[k] \in Nat
    BY DEF LossInv, SInv, TypeOK, Snapshots
<1>2. CASE UNCHANGED vars
    BY <1>1, <1>2 DEF vars, process, memory, LossInv, SInv, TypeOK, OwnSamples, SeedsAreAll,
                OnlyDamageKills, Forgotten, Unlearned, Undamaged, CrashLosesLittle, SaveOnlyAdds,
                Unsaved, Found
<1>3. ASSUME NEW b \in Buckets, Dies(b)
      PROVE  LossInv' /\ \A k \in Keys : row.n[k] <= row'.n[k]
    <2>1. SInv'
        BY <1>3, DiesKeeps DEF LossInv
    <2>2. status = "up" /\ UNCHANGED <<bucketing, base, sinceSave, row, failed>>
        BY <1>3 DEF Dies
    <2>3. CrashLosesLittle' /\ SaveOnlyAdds'
        BY <2>2 DEF LossInv, CrashLosesLittle, SaveOnlyAdds, Unsaved, Found
    <2> QED BY <1>1, <2>1, <2>2, <2>3 DEF LossInv
<1>4. ASSUME NEW d \in row.known \cup {Early, Late}, Damage(d)
      PROVE  LossInv' /\ \A k \in Keys : row.n[k] <= row'.n[k]
    <2>1. row.known \subseteq Keys /\ row \in Snapshots
        BY DEF LossInv, SInv, TypeOK, Snapshots
    <2>2. SInv'
        BY <1>4, <2>1, DamageKeeps DEF LossInv
    <2>3. status = "down" /\ status' = status /\ row' = [row EXCEPT !.damage = d]
        BY <1>4 DEF Damage, process
    <2>4. row'.n = row.n
        BY <2>1, <2>3 DEF Snapshots
    <2>5. CrashLosesLittle' /\ SaveOnlyAdds'
        BY <2>3 DEF CrashLosesLittle, SaveOnlyAdds
    <2> QED BY <1>1, <2>2, <2>4, <2>5 DEF LossInv
<1>5. ASSUME NEW m \in Bucketings, NEW r \in Rates, Start(m, r)
      PROVE  LossInv' /\ \A k \in Keys : row.n[k] <= row'.n[k]
    BY <1>1, <1>5, StartLoses DEF Start
<1>6. CASE Stop \/ Crash
    BY <1>6, DownLoses DEF Stop, Crash
<1> QED BY <1>2, <1>3, <1>4, <1>5, <1>6, WindowLoses DEF Next

LEMMA LossInductive == Spec => []LossInv
<1>1. Init => LossInv
    BY InitSnapshot DEF Init, LossInv, CrashLosesLittle, SaveOnlyAdds
<1>2. LossInv /\ [Next]_vars => LossInv'
    BY LossStep
<1> QED BY <1>1, <1>2, PTL DEF Spec

\* A crash loses less than an interval of windows more than the saves that
\* failed, of every baseline, and a process that goes on will not save less than
\* it was given; through any sequence of failed saves, damaged rows, changed
\* bucketings and restarts (service.py:78-88, 130, 165-177,
\* adaptive.py:346-388).
THEOREM LossStaysBounded == Spec => [](CrashLosesLittle /\ SaveOnlyAdds)
<1>1. LossInv => CrashLosesLittle /\ SaveOnlyAdds
    BY DEF LossInv
<1> QED BY <1>1, LossInductive, PTL

\* No save, at a window or at a stop, takes a sample from an intact row of its
\* own bucketing: what was once learned and saved stays so until a damage or
\* another bucketing (storage.py:130-140, service.py:165-177,
\* adaptive.py:346-388).
THEOREM RowsOnlyGrow == Spec => RowsGrow
<1>1. LossInv /\ [Next]_vars =>
          [row.damage = Intact /\ row'.bucketing = row.bucketing =>
               \A k \in Keys : row.n[k] <= row'.n[k]]_vars
    BY LossStep
<1> QED BY <1>1, LossInductive, PTL DEF Spec, RowsGrow
=============================================================================
