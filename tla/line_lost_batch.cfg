\* A batch leaves the line only when its append is done.
SPECIFICATION Spec
CONSTANTS
    w1 = w1  w2 = w2  w3 = w3  r1 = r1  r2 = r2
    None = None
    Items <- ThreeWrites
    Runs <- OneRun
    YieldsAfterShift = TRUE
INVARIANTS NothingLost
\* The application may stop writing.
CHECK_DEADLOCK FALSE
