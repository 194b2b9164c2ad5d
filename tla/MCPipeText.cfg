CONSTANTS
    INITIAL_CONTROL_BUFFER_CAPACITY <- MCInitialCapacity
    Sent <- MCSent
SPECIFICATION Spec
INVARIANTS
    TypeOK
    SeedRoundTrip
    NoOverflow
\* One seed is read and written back: the exchange ends.
CHECK_DEADLOCK FALSE
