\* The process stops when it crashes, and callers stop after MaxCreates
\* creates; neither is a deadlock of the library.
CONSTANTS
    t1 = t1
    t2 = t2
    Threads <- MCTwoCallers
    Hosts <- MCHosts
    MaxCreates <- MCMaxCreates
    CallOps <- MCCallOps
    Attach <- MCAttach
    Pin <- MCPin
    Libraries <- MCLibraries
SPECIFICATION Spec
SYMMETRY CallerSymmetry
CHECK_DEADLOCK FALSE
INVARIANT
    LiveContextUsable
