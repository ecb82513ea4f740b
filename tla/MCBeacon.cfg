\* Three destinations for a cap of two; periods of 2 and 3, so that a contact
\* in every window is too frequent; max_cv of 1/4 accepts the intervals 2 and 3
\* and rejects 2 and 4; a mute that ends within the run.  Time ends at Horizon:
\* the last states have no successor.
CONSTANTS
    p = p
    q = q
    r = r
    Ips <- MCIps
    MinEvents = 3
    History = 4
    MinPeriod = 2
    MaxPeriod = 3
    CvNum = 1
    CvDen = 16
    CooldownWindows = 3
    MaxTracked = 2
    MaxGap = 2
    Horizon = 7
SYMMETRY IpSymmetry
SPECIFICATION Spec
INVARIANTS TypeOK HistoryIsRecentContacts ForgottenAreLeastRecent SteadyIsReported
CHECK_DEADLOCK FALSE
