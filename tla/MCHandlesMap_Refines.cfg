\* The map stops for good when it is disposed or an ASSERT crashes the
\* process; neither is a deadlock of the map.
CONSTANTS
    Keys <- MCKeys
    Values <- MCValues
    InitialLoads <- MCInitialLoads
    MAXIMUM_CAPACITY <- MCMaximumCapacity
    MaxSize <- MCMaxSize
SPECIFICATION Spec
CHECK_DEADLOCK FALSE
PROPERTY
    Refines
