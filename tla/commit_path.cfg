\* Two commits that overlap, with metadata or without.
SPECIFICATION LiveSpec
CONSTANTS
    e1 = e1  e2 = e2  e3 = e3  c1 = c1  c2 = c2
    Bus = Bus  None = None
    Events <- ThreeEvents
    Commits <- TwoCommits
    CommitsOverlap = TRUE
    Invalid <- SecondEvent
INVARIANTS AppliedIsKept StoredAsApplied OnlyValidWritten MetadataFirst
PROPERTIES CommitEnds
\* The application may stop committing.
CHECK_DEADLOCK FALSE
