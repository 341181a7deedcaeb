\* One subscription, writes of both kinds, two runs of connect(), with the hook and without.
SPECIFICATION Spec
CONSTANTS
    s1 = s1  s2 = s2  p1 = p1  p2 = p2  r1 = r1  r2 = r2  r3 = r3  e1 = e1  m1 = m1
    None = None
    Subscriptions <- OneSubscription
    Configs <- WithAndWithoutHook
    Projections <- Nothing
    Refused <- NoItems
    Runs <- TwoRuns
    EventItems <- OneEvent
    MetadataItems <- OneMetadata
SYMMETRY RunSymmetry
INVARIANTS EventStallReported MetadataStallReported SingleChain
\* The program may end up with nothing left to do.
CHECK_DEADLOCK FALSE
