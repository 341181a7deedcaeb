\* Events, drained by write calls and by two runs of connect() at once.
SPECIFICATION Spec
CONSTANTS
    w1 = w1  w2 = w2  w3 = w3  r1 = r1  r2 = r2
    None = None
    Items <- ThreeWrites
    Runs <- TwoRuns
    YieldsAfterShift = TRUE
SYMMETRY ItemAndRunSymmetry
INVARIANTS StallReported
\* The application may stop writing.
CHECK_DEADLOCK FALSE
