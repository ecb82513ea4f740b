\* A low, a middle and the default quantile (target_rate 0.005); twenty
\* samples, fifteen of them after the markers are set: enough for the middle
\* markers to be blocked by their neighbours, fall behind and catch up.
SPECIFICATION Spec
CONSTANTS
    Scores = {0, 1, 2, 3}
    Den = 200
    Quantiles = {20, 100, 199}
    MaxCount = 20
INVARIANTS
    TypeOK
    MarkersApart
    HeightsOrdered
    MarkersFollow
CHECK_DEADLOCK FALSE
