\* Two requests in flight; three windows, with a save after the second, so that
\* a stop can come before, during and after a save and between two; one failed
\* write, which may be an alert's, a snapshot's or a destination's.
CONSTANTS
    r1 = r1
    r2 = r2
    Readers <- MCReaders
    Capture = Capture
    Main = Main
    Free = Free
    SaveInterval = 2
    MaxAlerts = 1
    MaxKeys = 1
    MaxWindows = 3
    MaxFailures = 1
SPECIFICATION FairSpec
INVARIANTS TypeOK LossIsBounded JoinedStopSavesAll
PROPERTIES RequestsAreAnswered StopReturns
