\* The driver exits (status returned from main) once stdin says stop or ends.
CONSTANTS
    Modes <- MCTransform
    Drivers <- MCApiDriver
    MaxRequests <- MCMaxRequests
    MaxCalls <- MCMaxCalls
    EnvLevels <- MCEnvLevels
    LogLevelArgs <- MCLogLevelArgs
SPECIFICATION Spec
INVARIANT ResponseFramed
CHECK_DEADLOCK FALSE
