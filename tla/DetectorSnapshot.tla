--------------------------- MODULE DetectorSnapshot ---------------------------
(***************************************************************************)
(* What an AdaptiveDetector learned, across the processes that run it:     *)
(* serialize() and restore() (adaptive.py), the one row of the table       *)
(* detector_state (storage.py), and when the service saves and loads it    *)
(* (service.py).                                                           *)
(*                                                                         *)
(* One feature.  A baseline is its number of samples and the state of its  *)
(* seeding buffer (stats.py: RobustEwmaStat); the estimator of the cutoff  *)
(* (stats.py: P2Quantile) is whether its markers are set, for which rate,  *)
(* and whether all its lists are there.  The values are abstracted:        *)
(* whether a window holds the baseline that scores it is a free bit (see   *)
(* AdaptiveDetector).                                                      *)
(***************************************************************************)
EXTENDS Integers

CONSTANTS
    Buckets,       \* keys _bucketize() returns; all bucketings share them
    Global,        \* the fallback baseline, as a key beside them
    Bucketings,    \* bucketing
    NoBucketing,   \* that of a store without a row
    Rates,         \* target_rate
    NoRate,        \* the estimator of the cutoff has no markers yet
    BucketWarmup,  \* warmup_windows
    GlobalWarmup,  \* global_warmup
    InitSize,      \* init_size: samples that seed a baseline
    Placing,       \* samples that set the markers; five in the code
    Interval,      \* baseline_save_interval
    MaxWindows,    \* bound: windows per bucketing, over all processes
    MaxFailed      \* bound: saves that fail in a row

ASSUME SnapshotAssumption ==
    /\ Global \notin Buckets
    /\ NoBucketing \notin Bucketings /\ Bucketings # {}
    /\ NoRate \notin Rates /\ Rates # {}
    /\ BucketWarmup \in Nat /\ GlobalWarmup \in Nat
    /\ InitSize \in Nat /\ InitSize > 1
    /\ Placing \in Nat \ {0}
    /\ Interval \in Nat \ {0}
    /\ MaxWindows \in Nat /\ MaxFailed \in Nat

Keys == Buckets \cup {Global}

VARIABLES
    status,     \* of the process: "down", "up", or "dead" when its capture
                \* thread died of an exception
    bucketing, rate,
    known,      \* keys of _buckets and _global
    base,       \* per key: n, and how many samples _buf holds
    cutoff,     \* per feature: _cutoff
    sinceSave,  \* _windows_since_save
    row         \* the row of detector_state

\* History, read by no guard but those that name a bound.
VARIABLES
    given,      \* per bucketing and key: windows it was given
    failed,     \* saves that failed since the last that did not, or the start
    damaged     \* a row was ever damaged

memory == <<known, base, cutoff, sinceSave>>
process == <<status, bucketing, rate>>
vars == <<process, memory, row, given, failed, damaged>>

Streaming == -1    \* _buf is None
Fresh == [n |-> 0, buf |-> 0]
FreshCutoff == [init |-> 0, rate |-> NoRate, whole |-> TRUE]

\* What restore() finds missing in a row: the fields of a baseline, the first
\* fields of the cutoff, or its last ones.
Intact == "intact"
Early == "early"
Late == "late"

NoRow == [bucketing |-> NoBucketing, known |-> {}, n |-> [k \in Keys |-> 0],
          cutoff |-> FreshCutoff, damage |-> Intact]

ASSUME MarksAreNoKeys == {Intact, Early, Late} \cap Keys = {}

Empty ==
    /\ known' = {} /\ base' = [k \in Keys |-> Fresh] /\ cutoff' = FreshCutoff

Init ==
    /\ status = "down" /\ bucketing \in Bucketings /\ rate \in Rates
    /\ known = {} /\ base = [k \in Keys |-> Fresh] /\ cutoff = FreshCutoff
    /\ sinceSave = 0 /\ row = NoRow
    /\ given = [m \in Bucketings |-> [k \in Keys |-> 0]]
    /\ failed = 0 /\ damaged = FALSE

-----------------------------------------------------------------------------
(* A window.                                                               *)

Scorer(b) == IF base[b].n < BucketWarmup THEN Global ELSE b

Ready(b) == base[b].n < BucketWarmup => base[Global].n >= GlobalWarmup

Learners(b, held) == {b, Global} \ (IF held THEN {Scorer(b)} ELSE {})

\* Slip: the buffer of the seeding is never given up.
LearnedBuffered(s) ==
    [n |-> s.n + 1, buf |-> IF s.buf = Streaming THEN Streaming ELSE s.buf + 1]

Learned(s) ==
    [n |-> s.n + 1,
     buf |-> IF s.buf = Streaming \/ s.buf + 1 >= InitSize THEN Streaming ELSE s.buf + 1]

\* The estimator keeps the increments it was given when its markers were set.
Scored(c) ==
    IF c.rate # NoRate THEN c
    ELSE IF c.init + 1 >= Placing THEN [init |-> 0, rate |-> rate, whole |-> TRUE]
    ELSE [c EXCEPT !.init = @ + 1]

\* Heights without positions, unless there are no heights yet.
Torn(c) == [c EXCEPT !.whole = (c.rate = NoRate)]

\* Slip: the positions of the markers are not saved.
SerializedHeights(keys, stats, c) ==
    [bucketing |-> bucketing, known |-> keys, n |-> [k \in Keys |-> stats[k].n],
     cutoff |-> Torn(c), damage |-> Intact]

Serialized(keys, stats, c) ==
    [bucketing |-> bucketing, known |-> keys, n |-> [k \in Keys |-> stats[k].n],
     cutoff |-> c, damage |-> Intact]

\* Slip: a save is due one window late.
CountLate == sinceSave > Interval

SaveDue == sinceSave + 1 >= Interval

\* A save that fails is logged, and the next one is an interval away.
Save(saved) ==
    \/ row' = saved /\ failed' = 0
    \/ failed < MaxFailed /\ failed' = failed + 1 /\ UNCHANGED row

Window(b, held) ==
    /\ status = "up"
    /\ given[bucketing][Global] < MaxWindows
    /\ held => Ready(b)
    /\ Ready(b) => cutoff.whole
    /\ known' = known \cup {b, Global}
    /\ base' = [k \in Keys |-> IF k \in Learners(b, held) THEN Learned(base[k]) ELSE base[k]]
    /\ cutoff' = IF Ready(b) THEN Scored(cutoff) ELSE cutoff
    /\ IF SaveDue
       THEN sinceSave' = 0 /\ Save(Serialized(known', base', cutoff'))
       ELSE sinceSave' = sinceSave + 1 /\ UNCHANGED <<row, failed>>
    /\ given' = [given EXCEPT ![bucketing] =
                    [k \in Keys |-> IF k \in {b, Global} THEN @[k] + 1 ELSE @[k]]]
    /\ UNCHANGED <<process, damaged>>

\* An estimator with heights and no positions raises IndexError, which ends
\* the capture thread; the process goes on.
Dies(b) ==
    /\ status = "up" /\ status' = "dead"
    /\ Ready(b) /\ ~ cutoff.whole
    /\ known' = known \cup {b, Global}
    /\ UNCHANGED <<bucketing, rate, base, cutoff, sinceSave, row, given, failed, damaged>>

-----------------------------------------------------------------------------
(* The end of a process, and the start of the next.                        *)

Down ==
    /\ status # "down" /\ status' = "down"
    /\ Empty /\ sinceSave' = 0
    /\ UNCHANGED <<bucketing, rate, given, damaged>>

Stop ==
    /\ Down
    /\ row' = Serialized(known, base, cutoff) \/ UNCHANGED row
    /\ failed' = 0

Crash == Down /\ failed' = 0 /\ UNCHANGED row

\* A row is replaced by one in which a field is missing, as a program of
\* another version may leave it: the version in it is never read.
Damage(d) ==
    /\ status = "down" /\ row.bucketing # NoBucketing /\ row.damage = Intact
    /\ row' = [row EXCEPT !.damage = d]
    /\ damaged' = TRUE
    /\ UNCHANGED <<process, memory, given, failed>>

\* Slip: a row of any bucketing is taken.
AnyBucketing(m) == row.bucketing # NoBucketing

Compatible(m) == row.bucketing = m

\* Slip: a restored baseline seeds again, with an empty buffer.
TakenSeeding(keys) ==
    [k \in Keys |-> IF k \in keys THEN [n |-> row.n[k], buf |-> 0] ELSE Fresh]

\* A restored baseline streams, whether it was seeded or not.
Taken(keys) ==
    [k \in Keys |-> IF k \in keys THEN [n |-> row.n[k], buf |-> Streaming] ELSE Fresh]

\* restore() takes the buckets over in the order of the row, then the fallback,
\* then the cutoff, and stops where a field is missing.
Restore ==
    \E keys \in SUBSET row.known :
        /\ base' = Taken(keys)
        /\ \/ /\ row.damage \in Buckets /\ keys \subseteq Buckets \ {row.damage}
              /\ known' = keys \cup {row.damage} /\ cutoff' = FreshCutoff
           \/ /\ row.damage = Global /\ keys = row.known \ {Global}
              /\ known' = row.known /\ cutoff' = FreshCutoff
           \/ /\ row.damage \notin Keys /\ keys = row.known /\ known' = keys
              /\ cutoff' = CASE row.damage = Intact -> row.cutoff
                             [] row.damage = Early -> FreshCutoff
                             [] row.damage = Late -> Torn(row.cutoff)

Start(m, r) ==
    /\ status = "down" /\ status' = "up"
    /\ bucketing' = m /\ rate' = r
    /\ IF Compatible(m) THEN Restore ELSE Empty
    /\ UNCHANGED <<sinceSave, row, given, failed, damaged>>

Next ==
    \/ \E b \in Buckets : Dies(b) \/ \E held \in BOOLEAN : Window(b, held)
    \/ Stop \/ Crash
    \/ \E d \in row.known \cup {Early, Late} : Damage(d)
    \/ \E m \in Bucketings, r \in Rates : Start(m, r)

Spec == Init /\ [][Next]_vars

-----------------------------------------------------------------------------

Stats == [n : Nat, buf : (0..(InitSize - 1)) \cup {Streaming}]

Cutoffs == [init : 0..(Placing - 1), rate : Rates \cup {NoRate}, whole : BOOLEAN]

Snapshots ==
    [bucketing : Bucketings \cup {NoBucketing}, known : SUBSET Keys,
     n : [Keys -> Nat], cutoff : Cutoffs, damage : Keys \cup {Intact, Early, Late}]

TypeOK ==
    /\ status \in {"down", "up", "dead"}
    /\ bucketing \in Bucketings /\ rate \in Rates
    /\ known \subseteq Keys /\ base \in [Keys -> Stats] /\ cutoff \in Cutoffs
    /\ sinceSave \in 0..(Interval - 1)
    /\ row \in Snapshots
    /\ given \in [Bucketings -> [Keys -> Nat]]
    /\ failed \in 0..MaxFailed
    /\ damaged \in BOOLEAN

\* No baseline ever counts a window of another bucket, of another bucketing, or
\* twice, through any sequence of saves, crashes and restarts under changing
\* bucketings (adaptive.py:357-361, 370-379; service.py:165-177).
OwnSamples ==
    \A k \in Keys :
        /\ status # "down" => base[k].n <= given[bucketing][k]
        /\ row.bucketing # NoBucketing => row.n[k] <= given[row.bucketing][k]

\* While a baseline still seeds, its buffer holds every sample it counts, so
\* that its median is exact: a restored one, whose samples are gone, streams
\* (stats.py:66-77, adaptive.py:376, 379).
SeedsAreAll == \A k \in Keys : base[k].buf # Streaming => base[k].buf = base[k].n

\* Saves, restarts, crashes and changed options never leave an estimator that
\* stops the capture: only a damaged row does (adaptive.py:380-386).
OnlyDamageKills == ~ damaged => cutoff.whole /\ row.cutoff.whole /\ status # "dead"

\* What README.md:170 and 255 promise of --target-rate, to lower it for fewer
\* alerts: the estimator tracks the rate the process was started with
\* (adaptive.py:131, 384).
CutoffFollowsRate == status = "up" => cutoff.rate \in {rate, NoRate}

\* The detector and its row are a checkpointed worker: a start in the bucketing
\* of the row loses only what came after the last save that succeeded, at most
\* an interval more than the failed saves cover (adaptive.py:345-387,
\* service.py:78-88, 130, 165-177).
Abstract == INSTANCE Checkpoint WITH
    Parts <- Keys,
    Modes <- Bucketings,
    NoMode <- NoBucketing,
    running <- status # "down",
    mode <- bucketing,
    live <- [k \in Keys |-> base[k].n],
    unsaved <- sinceSave + Interval * failed,
    kept <- row.n,
    keptMode <- row.bucketing,
    intact <- row.damage = Intact

ImplementsCheckpoint == Abstract!Spec
=============================================================================
