\* Two ticks under way at a time, so that a later one may end first; two rows,
\* one of which an answer holds; outages without bound.
SPECIFICATION PageSpec
CONSTANTS
    Severities = {low, high}
    All = All
    Ticks = {t1, t2}
    Limit = 1
    SevClass <- MCSevClass
    low = low
    high = high
INVARIANTS
    PageTypeOK
PROPERTIES
    EventuallyCurrent
