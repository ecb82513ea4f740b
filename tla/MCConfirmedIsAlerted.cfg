\* Two destinations for a cap of one, so that every sweep that finds both must
\* drop one; gaps longer than the lifetime; a sweep every second window; a
\* report's mute longer than the lifetime, so that a reported destination can
\* be forgotten while mute.  Time ends at Horizon: the last states have no
\* successor.
CONSTANTS
    p = p
    q = q
    Ips <- MCIps
    LearningWindows = 1
    MinConsecutive = 2
    CooldownWindows = 4
    Ttl = 2
    MaxKnown = 1
    PruneInterval = 2
    MaxGap = 2
    Horizon = 8
    MaxRestarts = 1
SPECIFICATION Spec
CHECK_DEADLOCK FALSE
INVARIANT ConfirmedIsAlerted
