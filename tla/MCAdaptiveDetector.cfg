\* Three buckets: one is left, another visited and the first entered again
\* while a third stays cold; the fallback warms first; residuals reach past
\* the decision interval in two windows.
CONSTANTS
    b1 = b1
    b2 = b2
    b3 = b3
    NoBucket = NoBucket
    Global = Global
    Buckets <- MCBuckets
    BucketWarmup = 3
    GlobalWarmup = 2
    ConfirmWindows = 3
    CooldownWindows = 2
    CusumOn = TRUE
    SeedWindows = 3
    Residuals <- MCResiduals
    CusumK = 1
    CusumH = 3
SYMMETRY BucketSymmetry
SPECIFICATION Spec
INVARIANTS TypeOK ColdBucketNeverStarves StableUnlessHandover DriftIsSeeded
PROPERTIES ImplementsPolicy AnchorsAgeOnlyInMute
