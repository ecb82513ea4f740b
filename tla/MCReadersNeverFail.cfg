\* As MCMonitorService.cfg, without fairness: a state is enough.
CONSTANTS
    r1 = r1
    r2 = r2
    Readers <- MCReaders
    Capture = Capture
    Main = Main
    Free = Free
    SaveInterval = 2
    MaxAlerts = 1
    MaxKeys = 1
    MaxWindows = 3
    MaxFailures = 1
SPECIFICATION Spec
INVARIANT ReadersNeverFail
