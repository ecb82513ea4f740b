\* Small warm-up, and a mute longer than a confirmation, so that breaches that
\* start before, during and after the mute all occur.
CONSTANTS
    WarmupWindows = 6
    ConfirmWindows = 5
    CooldownWindows = 24
SPECIFICATION FairSpec
INVARIANTS TypeOK NeverStarves
PROPERTIES ImplementsPolicy SustainedIsReported
