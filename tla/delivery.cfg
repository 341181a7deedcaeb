\* Each kind of event, three deliveries of it at most, two crashes, closed streams or
\* premature timeouts.
SPECIFICATION LiveSpec
CONSTANTS
    e1 = e1
    Events <- OneEvent
    Streams <- EachKind
    MaxRetries = 2
    MaxFaults = 2
INVARIANTS TypeOK HandledBeforeAcked PlainNotRetried RetriedForCause
PROPERTIES PromiseKept UnansweredIsParked HelperSettles
\* The event is settled in the end.
CHECK_DEADLOCK FALSE
