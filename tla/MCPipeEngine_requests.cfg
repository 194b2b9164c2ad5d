\* The driver exits (status returned from main) once stdin says stop or ends.
CONSTANTS
    Modes <- MCModes
    Drivers <- MCDrivers
    MaxRequests <- MCMaxRequests
    MaxCalls <- MCMaxCalls
    EnvLevels <- MCEnvLevels
    LogLevelArgs <- MCLogLevelArgs
SPECIFICATION Spec
INVARIANTS TypeOK
INVARIANTS LevelFollowsCalls
PROPERTIES RequestsAnswered
CHECK_DEADLOCK FALSE
