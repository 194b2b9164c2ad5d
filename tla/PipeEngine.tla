----------------------------- MODULE PipeEngine -----------------------------
(***************************************************************************)
(* A PIPE child process built on lib/impl/rvpf_pipe.c: the framework       *)
(* writes requests to its stdin, the process parses each one, hands it to  *)
(* the user code, and writes the response to stdout.                       *)
(*                                                                         *)
(* A line of stdin is a whole request (the header line and the lines its   *)
(* counts announce), a line without a space, or the stop line "0".  A      *)
(* point value is abstracted to whether it has a stamp, whether its state  *)
(* is absent, a string, or the DELETED sentinel, and whether it has a      *)
(* value.  The user code is the test driver's _doTransform or _doSink      *)
(* (driver = "sample"), or any sequence of result calls (driver = "api").  *)
(* A call that raises rvpf_pipe_error or rvpf_pipe_fatal longjmps back to  *)
(* main, which returns the status: the process exits.                     *)
(*                                                                         *)
(* The process-wide log of rvpf_log.c (RvpfLog) starts with the            *)
(* rvpf_pipe_version call of the driver's main; "api" user code may also   *)
(* set the level and open or close a log file.                             *)
(***************************************************************************)
EXTENDS Integers, Sequences

CONSTANTS
    Modes,          \* the driver's possible arguments: "TRANSFORM", "SINK"
    Drivers,        \* the possible user code: "sample", "api"
    MaxRequests,    \* bound on the requests the framework writes
    MaxCalls,       \* bound on the result calls of one "api" request
    EnvLevels,      \* the values RVPF_LOG_LEVEL may give the process
    LogLevelArgs    \* the levels "api" user code passes to rvpf_pipe_setLogLevel

ASSUME Modes \subseteq {"TRANSFORM", "SINK"} /\ Drivers \subseteq {"sample", "api"}
ASSUME MaxRequests \in Nat /\ MaxCalls \in Nat

VARIABLES
    mode,       \* argv[1] of main
    driver,     \* the user code the process runs
    stdin,      \* lines written by the framework and not read yet
    closed,     \* the framework closed the pipe: EOF after stdin
    written,    \* requests the framework has written
    stdout,     \* lines the process has written
    status,     \* rvpf_pipe_status
    proc,       \* "next": in the request loop; "user": holding a request
    request,    \* the request being handled
    calls,      \* result calls made on the current request
    badFree,    \* free() was called on the static DELETED state
    logLevel, levelSet, logFile, env, levelCalls   \* the log: see RvpfLog

Log == INSTANCE RvpfLog

logVars == <<logLevel, levelSet, logFile, env, levelCalls>>

vars == <<mode, driver, stdin, closed, written, stdout, status, proc, request, calls,
          badFree, logVars>>

\* rvpf_pipe.h status codes.
RVPF_PIPE_STATUS_OK == 0
RVPF_PIPE_STATUS_ERROR == 1
RVPF_PIPE_STATUS_FATAL == 2

ENGINE_REQUEST_FORMAT_VERSION == 1
SINK_REQUEST_FORMAT_VERSION == 1

\* A point value; "del" is the _deletedState pointer a "-" field sets.
PV(stamp, state, value) == [stamp |-> stamp, state |-> state, value |-> value]
States == {"none", "str", "del"}
Values == {"none", "v"}

\* Lines of the request stream that matter to the parser.
Ping == [t |-> "ping"]
StopLine == [t |-> "stop"]

\* Seed lines: a value, "-", a state and a value, a name alone.
Seeds == {PV(TRUE, "none", "v"), PV(TRUE, "del", "none"),
          PV(TRUE, "str", "v"), PV(FALSE, "none", "none")}
Inputs == {PV(TRUE, "none", "v"), PV(TRUE, "none", "none"), PV(TRUE, "del", "none")}

\* The "api" user code never looks at the parameters or the inputs.
EngineRequests(id) ==
    IF driver = "sample"
    THEN [t : {"engine"}, id : {id}, version : {1, 2},
          tparams : {<<>>, <<"pos">>, <<"nonpos">>}, nP : {0, 1},
          seed : Seeds, inputs : {<<>>} \cup {<<pv>> : pv \in Inputs}]
    ELSE [t : {"engine"}, id : {id}, version : {1, 2},
          tparams : {<<>>}, nP : {0}, seed : Seeds, inputs : {<<>>}]

SinkRequests(id) ==
    [t : {"sink"}, id : {id}, version : {1, 2}, type : {"+", "-", "?"},
     pv : {PV(TRUE, "none", "v"), PV(FALSE, "none", "none")}]

Requests(id) == IF mode = "TRANSFORM" THEN EngineRequests(id) ELSE SinkRequests(id)

NoRequest == [t |-> "none"]

Init ==
    /\ mode \in Modes
    /\ driver \in Drivers
    /\ stdin = <<>>
    /\ closed = FALSE
    /\ written = 0
    /\ stdout = <<>>
    /\ status = RVPF_PIPE_STATUS_OK
    /\ proc = "next"
    /\ request = NoRequest
    /\ calls = 0
    /\ badFree = FALSE
    \* main: rvpf_pipe_debug("%s", rvpf_pipe_version()).
    /\ Log!LogStarted(-Log!RVPF_LOG_LEVEL_TRACE)

(***************************************************************************)
(* The framework: writes a request, a line without a space, or the stop    *)
(* line, and may close the pipe.                                           *)
(***************************************************************************)
WriteRequest ==
    /\ ~closed /\ written < MaxRequests
    /\ \E r \in Requests(written + 1) : stdin' = Append(stdin, r)
    /\ written' = written + 1
    /\ UNCHANGED <<closed, stdout, status, proc, request, calls, badFree>>

WriteLine ==
    /\ ~closed /\ written < MaxRequests
    /\ \E line \in {Ping, StopLine} : stdin' = Append(stdin, line)
    /\ written' = written + 1
    /\ UNCHANGED <<closed, stdout, status, proc, request, calls, badFree>>

CloseInput ==
    /\ ~closed
    /\ closed' = TRUE
    /\ UNCHANGED <<stdin, written, stdout, status, proc, request, calls, badFree>>

(***************************************************************************)
(* The non-local exits: rvpf_pipe_error and _stop (Stop) set the status   *)
(* and longjmp to main, which returns it.  rvpf_pipe_fatal is only raised *)
(* on a NULL request, which no caller here passes.                         *)
(***************************************************************************)
Exit(code) ==
    /\ status' = code
    /\ proc' = "exited"
    /\ request' = NoRequest

rvpf_pipe_error == Exit(RVPF_PIPE_STATUS_ERROR)

Stop == Exit(RVPF_PIPE_STATUS_OK)

\* UB of free() on a string literal: glibc aborts, or the heap is corrupted
\* and the process goes on.
Crash ==
    /\ proc' = "crashed"
    /\ request' = NoRequest
    /\ UNCHANGED status

Header(id, n) == [t |-> "hdr", id |-> id, summary |-> n]
SinkHeader(id, n) == [t |-> "sinkhdr", id |-> id, summary |-> n]
PvLine(pv) == [t |-> "pv", pv |-> pv]
Echo == [t |-> "echo"]

(***************************************************************************)
(* _firstLine: a line without a space is echoed to stdout and skipped;     *)
(* "0" or the end of input stops the process.                              *)
(***************************************************************************)
FirstLineEcho ==
    /\ proc = "next"
    /\ stdin # <<>> /\ Head(stdin) = Ping
    /\ stdout' = Append(stdout, Echo)
    /\ stdin' = Tail(stdin)
    /\ UNCHANGED <<closed, written, status, proc, request, calls, badFree>>

FirstLineStop ==
    /\ proc = "next"
    /\ \/ stdin # <<>> /\ Head(stdin) = StopLine /\ stdin' = Tail(stdin)
       \/ stdin = <<>> /\ closed /\ UNCHANGED stdin
    /\ Stop
    /\ UNCHANGED <<closed, written, stdout, calls, badFree>>

(***************************************************************************)
(* rvpf_pipe_nextEngineRequest once _firstLine returned a request line:   *)
(* the version check, then the counts and the seed (its stamp required),   *)
(* the parameters and the inputs.                                          *)
(***************************************************************************)
rvpf_pipe_nextEngineRequest ==
    /\ proc = "next"
    /\ stdin # <<>> /\ Head(stdin).t = "engine"
    /\ LET r == Head(stdin) IN
       /\ stdin' = Tail(stdin)
       /\ IF r.version > ENGINE_REQUEST_FORMAT_VERSION \/ ~r.seed.stamp
          THEN rvpf_pipe_error /\ UNCHANGED calls
          ELSE /\ request' = [t |-> "engine", id |-> r.id, tparams |-> r.tparams,
                              nP |-> r.nP, inputs |-> r.inputs,
                              hasResult |-> TRUE, result |-> r.seed,
                              results |-> <<>>, count |-> 0]
               /\ proc' = "user"
               /\ calls' = 0
               /\ UNCHANGED status
    /\ UNCHANGED <<closed, written, stdout, badFree>>

\* rvpf_pipe_nextSinkRequest: the version, the type "+" or "-", the value
\* (its stamp required for an update).
rvpf_pipe_nextSinkRequest ==
    /\ proc = "next"
    /\ stdin # <<>> /\ Head(stdin).t = "sink"
    /\ LET r == Head(stdin) IN
       /\ stdin' = Tail(stdin)
       /\ IF \/ r.version > SINK_REQUEST_FORMAT_VERSION
             \/ r.type \notin {"+", "-"}
             \/ r.type = "+" /\ ~r.pv.stamp
          THEN rvpf_pipe_error
          ELSE /\ request' = [t |-> "sink", id |-> r.id, type |-> r.type, pv |-> r.pv]
               /\ proc' = "user"
               /\ UNCHANGED status
    /\ UNCHANGED <<closed, written, stdout, calls, badFree>>

(***************************************************************************)
(* rvpf_pipe_endEngineRequest: the header "<id> <summary>", then, when     *)
(* the summary is positive, the extra results in insertion order and the   *)
(* seed result if it was not cleared.                                      *)
(***************************************************************************)
Summary(r) ==
    IF r.hasResult
    THEN IF r.result.value # "none" \/ r.count # 0 THEN 1 + r.count ELSE 0
    ELSE IF r.count # 0 THEN r.count ELSE -1

EngineResponse(r) ==
    <<Header(r.id, Summary(r))>>
        \o IF Summary(r) > 0
           THEN [i \in DOMAIN r.results |-> PvLine(r.results[i])]
                    \o (IF r.hasResult THEN <<PvLine(r.result)>> ELSE <<>>)
           ELSE <<>>

\* Mutant: the request is not released after its response.
EndEngineKeepsRequest(r) ==
    /\ stdout' = stdout \o EngineResponse(r)
    /\ request' = r
    /\ proc' = "next"
    /\ UNCHANGED status

EndEngine(r) ==
    /\ stdout' = stdout \o EngineResponse(r)
    /\ request' = NoRequest
    /\ proc' = "next"
    /\ UNCHANGED status
(***************************************************************************)
(* The test driver's _doTransform on the request it got, through to its    *)
(* rvpf_pipe_endEngineRequest.  It wants one transform parameter (the     *)
(* modulo, positive or not), one point parameter and an input.  With a     *)
(* positive modulo the value is set, or set to NULL when an input has no   *)
(* value, and the state is then set to a copy of the first input's state:  *)
(* rvpf_pipe_setEngineResultState frees the state it replaces, which is    *)
(* the static _deletedState when the seed line said "-".  Otherwise the    *)
(* results are cleared.                                                    *)
(***************************************************************************)
CloneState(s) == IF s = "none" THEN "none" ELSE "str"

\* Mutant: the clearing branch does not go on to endEngineRequest.
DoTransformNoEndOnClear ==
    /\ proc = "user" /\ request.t = "engine" /\ driver = "sample"
    /\ LET r == request IN
       IF Len(r.tparams) # 1 \/ r.nP # 1 \/ Len(r.inputs) < 1
       THEN rvpf_pipe_error /\ UNCHANGED <<stdout, badFree>>
       ELSE IF r.tparams[1] = "nonpos"
       THEN /\ request' = [r EXCEPT !.hasResult = FALSE, !.results = <<>>]
            /\ UNCHANGED <<stdout, status, proc, badFree>>
       ELSE IF \E i \in DOMAIN r.inputs : r.inputs[i].value = "none"
       THEN EndEngine([r EXCEPT !.result.value = "none"]) /\ UNCHANGED badFree
       ELSE LET valued == [r EXCEPT !.result.value = "v"]
                frees == valued.result.state = "del"
            IN /\ badFree' = (badFree \/ frees)
               /\ \/ EndEngine([valued EXCEPT !.result.state =
                                    CloneState(r.inputs[1].state)])
                  \/ frees /\ Crash /\ UNCHANGED stdout
    /\ UNCHANGED <<stdin, closed, written, calls>>

DoTransform ==
    /\ proc = "user" /\ request.t = "engine" /\ driver = "sample"
    /\ LET r == request IN
       IF Len(r.tparams) # 1 \/ r.nP # 1 \/ Len(r.inputs) < 1
       THEN rvpf_pipe_error /\ UNCHANGED <<stdout, badFree>>
       ELSE IF r.tparams[1] = "nonpos"
       THEN EndEngine([r EXCEPT !.hasResult = FALSE, !.results = <<>>])
            /\ UNCHANGED badFree
       ELSE IF \E i \in DOMAIN r.inputs : r.inputs[i].value = "none"
       THEN EndEngine([r EXCEPT !.result.value = "none"]) /\ UNCHANGED badFree
       ELSE LET valued == [r EXCEPT !.result.value = "v"]
                frees == valued.result.state = "del"
            IN /\ badFree' = (badFree \/ frees)
               /\ \/ EndEngine([valued EXCEPT !.result.state =
                                    CloneState(r.inputs[1].state)])
                  \/ frees /\ Crash /\ UNCHANGED stdout
    /\ UNCHANGED <<stdin, closed, written, calls>>

\* The test driver's _doSink: rvpf_pipe_endSinkRequest(request, 1).
DoSink ==
    /\ proc = "user" /\ request.t = "sink"
    /\ stdout' = Append(stdout, SinkHeader(request.id, 1))
    /\ request' = NoRequest
    /\ proc' = "next"
    /\ UNCHANGED <<stdin, closed, written, status, calls, badFree>>

(***************************************************************************)
(* driver = "api": user code calling the result functions in any order.   *)
(***************************************************************************)
ApiCall ==
    /\ proc = "user" /\ request.t = "engine" /\ driver = "api"
    /\ calls < MaxCalls
    /\ calls' = calls + 1
    /\ UNCHANGED <<stdin, closed, written, stdout>>

\* rvpf_pipe_addEngineResult; valid is "point name and stamp given".
rvpf_pipe_addEngineResult(valid, state, value) ==
    /\ ApiCall
    /\ IF ~valid
       THEN rvpf_pipe_error
       ELSE /\ request' = [request EXCEPT
                   !.results = Append(@, PV(TRUE, state, value)),
                   !.count = @ + 1]
            /\ UNCHANGED <<status, proc>>
    /\ UNCHANGED badFree

\* rvpf_pipe_clearEngineResults: frees the seed result and the list.
rvpf_pipe_clearEngineResults ==
    /\ ApiCall
    /\ request' = [request EXCEPT !.hasResult = FALSE, !.results = <<>>]
    /\ UNCHANGED <<status, proc, badFree>>

rvpf_pipe_setEngineResultState(state) ==
    /\ ApiCall
    /\ IF ~request.hasResult
       THEN rvpf_pipe_error /\ UNCHANGED badFree
       ELSE LET frees == request.result.state = "del"
            IN /\ badFree' = (badFree \/ frees)
               /\ \/ /\ request' = [request EXCEPT !.result.state = state]
                     /\ UNCHANGED <<status, proc>>
                  \/ frees /\ Crash

rvpf_pipe_setEngineResultValue(value) ==
    /\ ApiCall
    /\ IF ~request.hasResult
       THEN rvpf_pipe_error
       ELSE /\ request' = [request EXCEPT !.result.value = value]
            /\ UNCHANGED <<status, proc>>
    /\ UNCHANGED badFree

rvpf_pipe_endEngineRequest ==
    /\ proc = "user" /\ request.t = "engine" /\ driver = "api"
    /\ EndEngine(request)
    /\ UNCHANGED <<stdin, closed, written, calls, badFree>>

\* rvpf_pipe_setLogLevel, and the log calls of rvpf_log.h user code makes.
rvpf_pipe_setLogLevel(level) ==
    /\ ApiCall
    /\ Log!SetLevel(level)
    /\ UNCHANGED <<status, proc, request, badFree>>

LogOpen(opened) ==
    /\ ApiCall
    /\ Log!rvpf_log_open(opened)
    /\ UNCHANGED <<status, proc, request, badFree>>

LogClose ==
    /\ ApiCall
    /\ Log!rvpf_log_close
    /\ UNCHANGED <<status, proc, request, badFree>>

Framework == WriteRequest \/ WriteLine \/ CloseInput

PipeStep ==
    \/ FirstLineEcho
    \/ FirstLineStop
    \/ rvpf_pipe_nextEngineRequest
    \/ rvpf_pipe_nextSinkRequest
    \/ DoTransform
    \/ DoSink
    \/ \E valid \in BOOLEAN, state \in {"none", "str"}, value \in Values :
            rvpf_pipe_addEngineResult(valid, state, value)
    \/ rvpf_pipe_clearEngineResults
    \/ \E state \in {"none", "str"} : rvpf_pipe_setEngineResultState(state)
    \/ \E value \in Values : rvpf_pipe_setEngineResultValue(value)
    \/ rvpf_pipe_endEngineRequest

LogStep ==
    \/ \E level \in LogLevelArgs : rvpf_pipe_setLogLevel(level)
    \/ \E opened \in BOOLEAN : LogOpen(opened)
    \/ LogClose

Process == (PipeStep /\ UNCHANGED logVars) \/ LogStep

Next == ((Framework /\ UNCHANGED logVars) \/ Process) /\ UNCHANGED <<mode, driver>>

(***************************************************************************)
(* The process is single-threaded and runs whenever it has input: weak     *)
(* fairness on its steps.  The framework is not bound to write anything.   *)
(***************************************************************************)
Spec == Init /\ [][Next]_vars /\ WF_vars(Process /\ UNCHANGED <<mode, driver>>)

-----------------------------------------------------------------------------
(* Properties. *)

TypeOK ==
    /\ stdin \in Seq([t : {"engine", "sink", "ping", "stop"}] \cup
                     UNION {Requests(i) : i \in 1..MaxRequests})
    /\ closed \in BOOLEAN /\ written \in 0..MaxRequests
    /\ status \in {RVPF_PIPE_STATUS_OK, RVPF_PIPE_STATUS_ERROR, RVPF_PIPE_STATUS_FATAL}
    /\ proc \in {"next", "user", "exited", "crashed"}
    /\ (proc = "user") <=> (request # NoRequest)
    /\ calls \in 0..MaxCalls
    /\ Log!LogTypeOK
    /\ \A i \in DOMAIN stdout :
           stdout[i].t \in {"hdr", "sinkhdr"} => stdout[i].summary \in -1..MaxCalls + 1

(***************************************************************************)
(* The framework reads a response as a header line and then as many point *)
(* value lines as the header's summary says: every header the process      *)
(* writes is followed by exactly that many point value lines.              *)
(***************************************************************************)
ResponseFramed ==
    \A i \in DOMAIN stdout :
        stdout[i].t = "hdr" =>
            LET k == IF stdout[i].summary > 0 THEN stdout[i].summary ELSE 0
            IN /\ i + k <= Len(stdout)
               /\ \A j \in i + 1 .. i + k : stdout[j].t = "pv"
               /\ i + k + 1 <= Len(stdout) => stdout[i + k + 1].t # "pv"

(***************************************************************************)
(* A request the framework has written is answered, or the process exits:  *)
(* the request loop never stalls on input it has.                          *)
(***************************************************************************)
Answered(id) ==
    \E i \in DOMAIN stdout : stdout[i].t \in {"hdr", "sinkhdr"} /\ stdout[i].id = id

RequestsAnswered ==
    \A id \in 1..MaxRequests :
        (\E i \in DOMAIN stdin : stdin[i].t \in {"engine", "sink"} /\ stdin[i].id = id)
            ~> (Answered(id) \/ proc \in {"exited", "crashed"})

(***************************************************************************)
(* The static DELETED state is never passed to free().                     *)
(***************************************************************************)
NoStaticFree == ~badFree

(***************************************************************************)
(* The log level is the one spec.md gives for the calls made so far        *)
(* (RvpfLog's SpecifiedLevel): the version call of main, then the levels   *)
(* user code passed to rvpf_pipe_setLogLevel, read against the            *)
(* RVPF_LOG_LEVEL the process was started with.                            *)
(***************************************************************************)
LevelFollowsCalls == logLevel = Log!SpecifiedLevel(levelCalls)
=============================================================================
