\* commit() publishes the events.
SPECIFICATION Spec
CONSTANTS
    e1 = e1  e2 = e2  e3 = e3  c1 = c1  c2 = c2  c3 = c3  p1 = p1  p2 = p2
    Events <- ThreeEvents
    Commits <- ThreeCommits
    Publishers <- TwoPublishers
    AppliesDuringCommit = FALSE
    CommitsOverlap = FALSE
SYMMETRY EventAndCommitSymmetry
INVARIANTS CommittedMeansPublished
\* The application may stop.
CHECK_DEADLOCK FALSE
