\* One subscription, two projections of which the store refuses the second, one event write.
SPECIFICATION LiveSpec
CONSTANTS
    s1 = s1  s2 = s2  p1 = p1  p2 = p2  r1 = r1  r2 = r2  r3 = r3  e1 = e1  m1 = m1
    None = None
    Subscriptions <- OneSubscription
    Configs <- OnlyComplete
    Projections <- TwoProjections
    Refused <- LastProjection
    Runs <- TwoRuns
    EventItems <- OneEvent
    MetadataItems <- NoItems
INVARIANT SubscriptionsAsserted
PROPERTIES Reconnects RetryEmptiesLine
\* The program may end up with nothing left to do.
CHECK_DEADLOCK FALSE
