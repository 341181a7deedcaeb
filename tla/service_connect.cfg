\* Two subscriptions, three runs of connect(), optional members left out, no writes.
SPECIFICATION Spec
CONSTANTS
    s1 = s1  s2 = s2  p1 = p1  p2 = p2  r1 = r1  r2 = r2  r3 = r3  e1 = e1  m1 = m1
    None = None
    Subscriptions <- TwoSubscriptions
    Configs <- SomeLeftOut
    Projections <- Nothing
    Refused <- NoItems
    Runs <- ThreeRuns
    EventItems <- NoItems
    MetadataItems <- NoItems
SYMMETRY RunSymmetry
INVARIANTS ConnectingIsRetried DownIsTransient HealthTellsTruth
\* The program may end up with nothing left to do.
CHECK_DEADLOCK FALSE
