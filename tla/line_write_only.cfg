\* Events, drained by write calls only: safety, refinement and progress.
SPECIFICATION LiveSpec
CONSTANTS
    w1 = w1  w2 = w2  w3 = w3  r1 = r1  r2 = r2
    None = None
    Items <- ThreeWrites
    Runs <- NoRuns
    YieldsAfterShift = TRUE
INVARIANTS TypeOK AtMostOneDrain StoredInOrder NothingLost ResultMeansStored
PROPERTIES OutboxSpec EventuallyStoredOrReported
\* The application may stop writing.
CHECK_DEADLOCK FALSE
