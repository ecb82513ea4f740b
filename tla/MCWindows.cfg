\* Windows of two units of time, so that a packet can be in the middle of one;
\* times up to 4 leave room for a skipped window and for a step back by more
\* than a window; five packets in up to three files.
CONSTANTS
    WindowLen = 2
    MaxTime = 4
    MaxPackets = 5
    MaxFiles = 3
SPECIFICATION Spec
INVARIANTS TypeOK EveryPacketOnce PacketsFollowTheLatestClock WindowsAscend
