\* Four windows under each of two bucketings: a baseline warms up, is saved, held
\* and restored, the markers of the cutoff are set and used, a save fails and
\* the next one is an interval away.  One rate: the properties do not tell two
\* apart.
SPECIFICATION Spec
CONSTANTS
    Buckets = {b1, b2}
    Global = Global
    Bucketings = {hour, weekend_hour}
    NoBucketing = NoBucketing
    Rates = {r1}
    NoRate = NoRate
    BucketWarmup = 2
    GlobalWarmup = 1
    InitSize = 2
    Placing = 2
    Interval = 2
    MaxWindows = 4
    MaxFailed = 1
INVARIANTS
    TypeOK
    OwnSamples
    SeedsAreAll
    OnlyDamageKills
PROPERTIES
    ImplementsCheckpoint
