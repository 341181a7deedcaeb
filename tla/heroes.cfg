\* One kill, two deliveries of it, one fault, runs of connect().
SPECIFICATION LiveSpec
CONSTANTS
    k1 = k1
    r1 = r1
    None = None
    Kills <- OneKill
    Runs <- OneRun
    MaxDeliveries = 2
    MaxFaults = 1
INVARIANTS CausesFirst OneItemPerKill NothingKept
PROPERTY KillIsRewarded
CHECK_DEADLOCK FALSE
