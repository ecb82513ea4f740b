\* Two rates: a process that is started with another --target-rate.
SPECIFICATION Spec
CONSTANTS
    Buckets = {b1, b2}
    Global = Global
    Bucketings = {hour, weekend_hour}
    NoBucketing = NoBucketing
    Rates = {r1, r2}
    NoRate = NoRate
    BucketWarmup = 2
    GlobalWarmup = 1
    InitSize = 2
    Placing = 2
    Interval = 2
    MaxWindows = 4
    MaxFailed = 1
INVARIANTS
    CutoffFollowsRate
