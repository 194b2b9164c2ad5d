---------------------------- MODULE MCPipeEngine ----------------------------
(***************************************************************************)
(* Bounds for checking PipeEngine with TLC.                                *)
(***************************************************************************)
EXTENDS PipeEngine

\* Both modes of the test driver, and user code making any result calls.
MCModes == {"TRANSFORM", "SINK"}
MCDrivers == {"sample", "api"}

\* The single mode and user code of the runs that show one failure.
MCTransform == {"TRANSFORM"}
MCApiDriver == {"api"}
MCSampleDriver == {"sample"}

\* Two requests, or a request and a ping or stop line: enough for a request
\* to follow a response, and for a stale result count to reach a header.
MCMaxRequests == 2

\* A clear and an add, or two changes of the seed result, on one request.
MCMaxCalls == 2

\* RVPF_LOG_LEVEL absent, a level (4), or a value above ALL (9).
MCEnvLevels ==
    {[set |-> FALSE, value |-> 0]} \cup {[set |-> TRUE, value |-> v] : v \in {4, 9}}

\* A negative level and ALL, the top of 0..7 (9 above it is in MCEnvLevels).
MCLogLevelArgs == {-2, 7}
=============================================================================
