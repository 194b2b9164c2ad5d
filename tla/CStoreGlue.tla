----------------------------- MODULE CStoreGlue -----------------------------
(***************************************************************************)
(* The JNI entry points of store/CStore.c, through which the Java CStore   *)
(* class drives a store library's vector.  An entry first takes its Java   *)
(* arguments into C memory: int and long arrays are pinned with            *)
(* Get<Type>ArrayElements, byte arrays copied into C strings; each of      *)
(* these may fail (NULL).  It calls the vector only when what it needs     *)
(* was taken, and on the way out releases every pinned array and frees     *)
(* every string, including the string the vector returned.                *)
(*                                                                         *)
(* held[t]    the arrays and C memory the entry running on thread t holds; *)
(* logger[t]  whether thread t holds the logger and logger context that    *)
(*            contextHandle allocated for its context;                     *)
(* leaked     loggers allocated by contextHandle and never freed.          *)
(*                                                                         *)
(* The operators are the parts of the entries that ProxyStore composes     *)
(* with the library's own steps.                                           *)
(***************************************************************************)
EXTENDS Integers

CONSTANTS
    Threads,  \* the Java threads calling the entries
    Pin       \* outcomes of a pin, copy or allocation: TRUE when it worked

VARIABLES held, logger, leaked

GlueInit ==
    /\ held = [t \in Threads |-> {}]
    /\ logger = [t \in Threads |-> FALSE]
    /\ leaked = 0

(***************************************************************************)
(* What each entry takes before the vector call ("takes"), what it tests   *)
(* for the call ("needs"), what it returns to Java without the call        *)
(* ("refused"), what its tail gives back, each under its own test of the  *)
(* pointer ("releases"), and whether it frees the string the vector       *)
(* returned.                                                               *)
(***************************************************************************)
Java_releaseHandles ==
    [takes |-> {"serverHandles", "statusCodes"},
     needs |-> {"serverHandles", "statusCodes"}, refused |-> "FAILED",
     releases |-> {"serverHandles", "statusCodes"}, freesResult |-> FALSE]
Java_subscribe == Java_releaseHandles
Java_unsubscribe == Java_releaseHandles
\* A mutant of Java_delete: the release of time_stamps is left out.
Java_deleteKeepsTimes ==
    [takes |-> {"serverHandles", "times", "statusCodes"},
     needs |-> {"serverHandles", "times", "statusCodes"}, refused |-> "FAILED",
     releases |-> {"serverHandles", "statusCodes"}, freesResult |-> FALSE]
Java_delete ==
    [takes |-> {"serverHandles", "times", "statusCodes"},
     needs |-> {"serverHandles", "times", "statusCodes"}, refused |-> "FAILED",
     releases |-> {"serverHandles", "times", "statusCodes"}, freesResult |-> FALSE]
\* "tags" are the tag strings converted into tagStrings; the failed flag
\* tests neither them all nor status_codes, only that no tag failed.
Java_exchangeHandles ==
    [takes |-> {"tagStrings", "tags", "clientHandles", "serverHandles",
                "statusCodes"},
     needs |-> {"tagStrings", "tags", "clientHandles", "serverHandles"},
     refused |-> "FAILED",
     releases |-> {"serverHandles", "statusCodes", "clientHandles", "tags",
                   "tagStrings"},
     freesResult |-> FALSE]
\* "values" is the array CStore_acceptValues builds from the container,
\* given back through the vector's freeValues.
Java_write ==
    [takes |-> {"statusCodes", "values"}, needs |-> {"statusCodes", "values"},
     refused |-> "FAILED", releases |-> {"statusCodes", "values"},
     freesResult |-> FALSE]
\* The name copied by CStore_bytesToCString; NULL returns null at once.
Java_getStateCode ==
    [takes |-> {"name"}, needs |-> {"name"}, refused |-> "none",
     releases |-> {"name"}, freesResult |-> FALSE]
Java_getQualityCode == Java_getStateCode
\* The entry string is copied and ASSERTed.
Java_putEnv ==
    [takes |-> {"name"}, needs |-> {"name"}, refused |-> "none",
     releases |-> {"name"}, freesResult |-> FALSE]
Java_useCharset == Java_putEnv
\* The returned string goes through CStore_cStringToBytes and CStore_free.
Java_getStateName ==
    [takes |-> {}, needs |-> {}, refused |-> "none", releases |-> {},
     freesResult |-> TRUE]
Java_getQualityName == Java_getStateName
Java_supportedValueTypeCodes == Java_getStateName
\* connect, count, read, interrupt and the supports* entries only pass
\* their scalars through.
Java_passThrough ==
    [takes |-> {}, needs |-> {}, refused |-> "none", releases |-> {},
     freesResult |-> FALSE]

entries ==
    [releaseHandles |-> Java_releaseHandles, subscribe |-> Java_subscribe,
     unsubscribe |-> Java_unsubscribe, delete |-> Java_delete,
     exchangeHandles |-> Java_exchangeHandles, write |-> Java_write,
     getStateCode |-> Java_getStateCode, getQualityCode |-> Java_getQualityCode,
     getQualityName |-> Java_getQualityName, putEnv |-> Java_putEnv,
     useCharset |-> Java_useCharset, getStateName |-> Java_getStateName,
     supportedValueTypeCodes |-> Java_supportedValueTypeCodes]

Entry(o) == IF o \in DOMAIN entries THEN entries[o] ELSE Java_passThrough

\* What an entry can come out of its takes holding: every take may fail
\* on its own, and a tag is converted only into an allocated tagStrings.
Taken(o) ==
    {g \in SUBSET Entry(o).takes :
        /\ "tags" \in g => "tagStrings" \in g
        /\ FALSE \notin Pin => g = Entry(o).takes}

CallsVector(o, g) == Entry(o).needs \subseteq g

\* A NULL entry string stops the process in CStore_assert.
Asserts(o, g) == o \in {"putEnv", "useCharset"} /\ "name" \notin g

(***************************************************************************)
(* CStore_acceptValues: when an element's allocation fails, the test of    *)
(* its deleted flag that follows reads through the NULL element.           *)
(***************************************************************************)
AcceptValuesCrashes(o) == o = "write" /\ FALSE \in Pin

Take(t, g) == held' = [held EXCEPT ![t] = g]

\* The tail of entry o: each of its releases whose pointer is not NULL,
\* whatever the vector returned; a take that failed is not released.
GiveBack(t, o) == held' = [held EXCEPT ![t] = held[t] \ Entry(o).releases]

(***************************************************************************)
(* contextHandle: the logger, its context and a weak reference to the      *)
(* CStore object are allocated before the library's context function is   *)
(* called; when one is missing all are freed and 0 returned.  The context  *)
(* function returning NULL leaves them allocated.                          *)
(***************************************************************************)
Java_contextHandle(t, ok) ==
    /\ logger' = [logger EXCEPT ![t] = ok]
    /\ UNCHANGED leaked

\* A create that returned NULL after contextHandle allocated the logger.
Abandon(t) ==
    /\ logger' = [logger EXCEPT ![t] = FALSE]
    /\ leaked' = leaked + IF logger[t] THEN 1 ELSE 0

\* freeContext: after the vector's dispose, the weak reference, the logger
\* context and the logger are freed.
Java_freeContext(t) ==
    /\ logger' = [logger EXCEPT ![t] = FALSE]
    /\ UNCHANGED leaked
=============================================================================
