CONSTANTS
    MaxId <- MCMaxId
    MaxValues <- MCMaxValues
    MaxSessions <- MCMaxSessions
    AutoFlushChoices <- MCAutoFlushChoices
    Misbehave = TRUE
    Lifecycle = FALSE
SPECIFICATION Spec
INVARIANTS
    TypeOK
    AckedDelivered
    DocumentIdsIncrease
PROPERTIES
    CallsReturn
\* rvpf_xpvpc_dispose frees the context: nothing follows it.
CHECK_DEADLOCK FALSE
