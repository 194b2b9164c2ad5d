----------------------------- MODULE ProxyStore -----------------------------
(***************************************************************************)
(* The context life cycle of store/ProxyStoreImpl.c: RVPF_CStore_context   *)
(* creates a context and, when it was handed no VM, loads and creates a    *)
(* Java VM; CStore_dispose frees a context and tears the VM down when the  *)
(* last one goes.  The file-level state has no lock:                       *)
(*                                                                         *)
(* javaVM     _javaVM: "none" (NULL), "host" (the VM of the Java process   *)
(*            that loaded the library) or "own" (one this file created);   *)
(* jvmHandle  whether _jvmHandle holds an open library handle;             *)
(* classes    whether _storeProxyClass is loaded;                          *)
(* contexts   _contexts;                                                   *)
(* processVM  the VM that exists in the process: "host", "own", "none", or *)
(*            "destroyed" (JNI cannot create a VM again after that);       *)
(* pc, tmp    each caller thread's place in a call and the _contexts value *)
(*            it read for ++ or --; proxy whether its context got a proxy; *)
(* crashed    the process died on a null or dangling pointer;              *)
(* calls      creates issued, bounded by MaxCreates.                       *)
(*                                                                         *)
(* op, env   the vector function a live context's caller is in and       *)
(*            whether _getJNIEnv attached its thread; returned what the    *)
(*            last such call returned.                                     *)
(*                                                                         *)
(* Under a Java host every create, call and dispose comes through the JNI  *)
(* entries of CStore.c (module CStoreGlue, variables held, logger and      *)
(* leaked); a C program calls the vector itself.  The process loads this  *)
(* library or the null store of NullStoreImpl.c (library).                *)
(***************************************************************************)
EXTENDS Integers, FiniteSets

CONSTANTS
    Threads,     \* the caller threads
    Hosts,       \* "java": loaded by the JVM, "c": by a C program
    MaxCreates,  \* bound on RVPF_CStore_context calls
    CallOps,     \* the vector functions the callers call on a live context
    Attach,      \* the outcomes of AttachCurrentThread: TRUE attached
    Pin,         \* the outcomes of a JNI pin or a C allocation: TRUE got it
    Libraries    \* the store libraries the process may load

VARIABLES library, host, javaVM, jvmHandle, classes, contexts, processVM,
          pc, tmp, proxy, crashed, calls, op, env, returned,
          held, logger, leaked

Glue == INSTANCE CStoreGlue

Null == INSTANCE NullStore

glueVars == <<held, logger, leaked>>

vars == <<library, host, javaVM, jvmHandle, classes, contexts, processVM,
          pc, tmp, proxy, crashed, calls, op, env, returned, held, logger,
          leaked>>

\* The vm argument: CStore.c passes the VM it got in JNI_OnLoad; a C
\* program passes NULL.
VmArgument == IF host = "java" THEN "host" ELSE "none"

Init ==
    /\ library \in Libraries
    /\ host \in Hosts
    /\ javaVM = "none" /\ jvmHandle = FALSE /\ classes = FALSE
    /\ contexts = 0
    /\ processVM = IF host = "java" THEN "host" ELSE "none"
    /\ pc = [t \in Threads |-> "idle"]
    /\ tmp = [t \in Threads |-> 0]
    /\ proxy = [t \in Threads |-> FALSE]
    /\ crashed = FALSE
    /\ calls = 0
    /\ op = [t \in Threads |-> "none"]
    /\ env = [t \in Threads |-> FALSE]
    /\ returned = [t \in Threads |-> "none"]
    /\ Glue!GlueInit

Crash ==
    /\ crashed' = TRUE
    /\ UNCHANGED <<library, host, javaVM, jvmHandle, classes, contexts, processVM,
                   pc, tmp, proxy, calls, op, env, returned, glueVars>>

(***************************************************************************)
(* Java_..._contextHandle up to the call of the context function: the      *)
(* logger allocations, which return 0 when one fails.                      *)
(***************************************************************************)
ContextHandle(t) ==
    /\ ~crashed /\ host = "java" /\ pc[t] = "idle" /\ calls < MaxCreates
    /\ calls' = calls + 1
    /\ \E ok \in Pin :
          /\ Glue!Java_contextHandle(t, ok)
          /\ pc' = [pc EXCEPT ![t] = IF ok THEN "handle" ELSE "idle"]
    /\ UNCHANGED <<library, host, javaVM, jvmHandle, classes, contexts, processVM,
                   tmp, proxy, crashed, op, env, returned, held>>

(***************************************************************************)
(* RVPF_CStore_context up to _loadClasses: _javaVM takes the argument.     *)
(* Without one, the library is opened (its handle replaces _jvmHandle)     *)
(* and JNI_CreateJavaVM, which only succeeds while the process has no VM,  *)
(* sets _javaVM.  When the library does not open, the NULL handle is      *)
(* stored; when the VM is not created, the library is closed and the      *)
(* handle zeroed: either way _jvmHandle is 0 and NULL is returned.        *)
(***************************************************************************)
CreateVM(t) ==
    /\ ~crashed /\ library = "proxy"
    /\ \/ host = "java" /\ pc[t] = "handle" /\ UNCHANGED calls
       \/ host = "c" /\ pc[t] = "idle" /\ calls < MaxCreates /\ calls' = calls + 1
    /\ IF VmArgument # "none"
       THEN /\ javaVM' = VmArgument
            /\ pc' = [pc EXCEPT ![t] = "load"]
            /\ UNCHANGED <<jvmHandle, processVM>>
       ELSE \/ /\ processVM = "none"
               /\ javaVM' = "own" /\ processVM' = "own" /\ jvmHandle' = TRUE
               /\ pc' = [pc EXCEPT ![t] = "load"]
            \/ /\ javaVM' = "none" /\ jvmHandle' = FALSE
               /\ UNCHANGED <<pc, processVM>>
    /\ UNCHANGED <<library, host, classes, contexts, tmp, proxy, crashed, op, env, returned,
                   glueVars>>

(***************************************************************************)
(* _loadClasses, which returns at once when the class is loaded, and      *)
(* otherwise passes the env of _getJNIEnv unchecked to JNI.  A class that  *)
(* is not found leaves _storeProxyClass NULL, but CStore_getClass has      *)
(* cleared the exception the test looks for, so the method lookups run on  *)
(* the NULL class.  A missing method or glue class sets failed with the    *)
(* class loaded: the create then calls CStore_dispose(NULL).               *)
(***************************************************************************)
LoadClasses(t) ==
    /\ ~crashed /\ pc[t] = "load"
    /\ IF classes
       THEN /\ pc' = [pc EXCEPT ![t] = "alloc"]
            /\ UNCHANGED <<crashed, classes>>
       ELSE IF javaVM = "none"
       THEN Crash
       ELSE \/ /\ FALSE \in Attach
               /\ Crash
            \/ Crash
            \/ /\ classes' = TRUE
               /\ \E p \in {"alloc", "test"} : pc' = [pc EXCEPT ![t] = p]
               /\ UNCHANGED crashed
    /\ UNCHANGED <<library, host, javaVM, jvmHandle, contexts, processVM, tmp, proxy,
                   calls, op, env, returned, glueVars>>

(***************************************************************************)
(* The context allocation and the StoreProxy constructor.  A failed        *)
(* allocation calls CStore_dispose(NULL).  _getJNIEnv needs the VM;        *)
(* NewObject on an attached thread needs the class; no env or an exception *)
(* leaves the proxy NULL.  The thread then reads _contexts for ++.         *)
(***************************************************************************)
NewContext(t) ==
    /\ ~crashed /\ pc[t] = "alloc"
    /\ \/ /\ pc' = [pc EXCEPT ![t] = "test"]
          /\ UNCHANGED <<crashed, proxy, tmp>>
       \/ /\ javaVM = "none"
          /\ Crash
       \/ /\ javaVM # "none"
          /\ \E e \in Attach :
                IF e /\ ~classes
                THEN Crash
                ELSE /\ \E p \in IF e THEN BOOLEAN ELSE {FALSE} :
                           proxy' = [proxy EXCEPT ![t] = p]
                     /\ pc' = [pc EXCEPT ![t] = "inc"]
                     /\ tmp' = [tmp EXCEPT ![t] = contexts]
                     /\ UNCHANGED crashed
    /\ UNCHANGED <<library, host, javaVM, jvmHandle, classes, processVM, contexts,
                   calls, op, env, returned, glueVars>>

(***************************************************************************)
(* The write of ++_contexts.  A context without a proxy is then passed to  *)
(* CStore_dispose as if it were the store, which frees the allocation      *)
(* twice.                                                                  *)
(***************************************************************************)
CountContext(t) ==
    /\ ~crashed /\ pc[t] = "inc"
    /\ contexts' = tmp[t] + 1
    /\ IF proxy[t]
       THEN /\ pc' = [pc EXCEPT ![t] = "live"] /\ UNCHANGED crashed
       ELSE /\ crashed' = TRUE /\ UNCHANGED pc
    /\ UNCHANGED <<library, host, javaVM, jvmHandle, classes, processVM, tmp, proxy, calls, op, env,
                   returned, glueVars>>

DisposeStart(t) ==
    /\ ~crashed /\ library = "proxy" /\ pc[t] = "live"
    /\ IF contexts = 0 \/ javaVM = "none"
       THEN Crash
       ELSE \E e \in Attach :
               IF e /\ ~classes
               THEN Crash
               ELSE /\ pc' = [pc EXCEPT ![t] = "dec"]
                    /\ tmp' = [tmp EXCEPT ![t] = contexts]
                    /\ UNCHANGED crashed
    /\ UNCHANGED <<library, host, javaVM, jvmHandle, classes, contexts, processVM, proxy,
                   calls, op, env, returned, glueVars>>

\* The write of --_contexts.
DisposeEnd(t) ==
    /\ ~crashed /\ pc[t] = "dec"
    /\ contexts' = tmp[t] - 1
    /\ pc' = [pc EXCEPT ![t] = "test"]
    /\ UNCHANGED <<library, host, javaVM, jvmHandle, classes, processVM, tmp, proxy,
                   crashed, calls, op, env, returned, glueVars>>

(***************************************************************************)
(* CStore_dispose returns.  Under a Java host, the entry that called it    *)
(* then frees the logger after the dispose of a live context (freeContext) *)
(* and leaves it allocated after a create that returned NULL.              *)
(***************************************************************************)
Disposed(t) ==
    /\ pc' = [pc EXCEPT ![t] = "idle"]
    /\ proxy' = [proxy EXCEPT ![t] = FALSE]
    /\ IF ~proxy[t] THEN Glue!Abandon(t)
       ELSE IF host = "java" THEN Glue!Java_freeContext(t)
       ELSE UNCHANGED <<logger, leaked>>

(***************************************************************************)
(* The tail of CStore_dispose, shared by the dispose of a context and the  *)
(* CStore_dispose(NULL) of a failed create, one step per read of the       *)
(* file-level state, which no lock protects.  "test": if (!_contexts).     *)
(***************************************************************************)
DisposeTest(t) ==
    /\ ~crashed /\ pc[t] = "test"
    /\ IF contexts = 0
       THEN /\ pc' = [pc EXCEPT ![t] = "unload"]
            /\ UNCHANGED <<proxy, glueVars>>
       ELSE Disposed(t)
    /\ UNCHANGED <<library, host, javaVM, jvmHandle, classes, contexts, processVM, tmp,
                   crashed, calls, op, env, returned, held>>

\* _unloadClasses: _getJNIEnv dereferences _javaVM; without an env the
\* class is left loaded.
UnloadClasses(t) ==
    /\ ~crashed /\ pc[t] = "unload"
    /\ IF javaVM = "none"
       THEN Crash
       ELSE /\ \E e \in Attach : classes' = IF e THEN FALSE ELSE classes
            /\ pc' = [pc EXCEPT ![t] = "close"]
            /\ UNCHANGED <<library, host, javaVM, jvmHandle, contexts, processVM, tmp, proxy,
                           crashed, calls, op, env, returned, glueVars>>

\* if (_jvmHandle): only the library that created the VM tears it down.
CloseVM(t) ==
    /\ ~crashed /\ pc[t] = "close"
    /\ IF jvmHandle
       THEN /\ pc' = [pc EXCEPT ![t] = "destroy"]
            /\ UNCHANGED <<proxy, glueVars>>
       ELSE Disposed(t)
    /\ UNCHANGED <<library, host, javaVM, jvmHandle, classes, contexts, processVM, tmp,
                   crashed, calls, op, env, returned, held>>

\* if (_javaVM): the VM is destroyed and _javaVM cleared; the library is
\* closed and _jvmHandle zeroed either way.
DestroyVM(t) ==
    /\ ~crashed /\ pc[t] = "destroy"
    /\ processVM' = IF javaVM # "none" THEN "destroyed" ELSE processVM
    /\ javaVM' = "none"
    /\ jvmHandle' = FALSE
    /\ Disposed(t)
    /\ UNCHANGED <<library, host, classes, contexts, tmp, crashed, calls, op, env,
                   returned, held>>

(***************************************************************************)
(* The null store's RVPF_CStore_context, called by contextHandle under a   *)
(* Java host and by the program under a C host.                            *)
(***************************************************************************)
NullContext(t) ==
    /\ ~crashed /\ library = "null"
    /\ \/ host = "java" /\ pc[t] = "handle" /\ UNCHANGED calls
       \/ host = "c" /\ pc[t] = "idle" /\ calls < MaxCreates /\ calls' = calls + 1
    /\ \E s \in Null!RVPF_CStore_context :
          IF s THEN /\ pc' = [pc EXCEPT ![t] = "live"]
                    /\ UNCHANGED <<logger, leaked>>
               ELSE /\ pc' = [pc EXCEPT ![t] = "idle"]
                    /\ Glue!Abandon(t)
    /\ UNCHANGED <<library, host, javaVM, jvmHandle, classes, contexts, processVM,
                   tmp, proxy, crashed, op, env, returned, held>>

\* The null store's CStore_dispose frees the context; under a Java host
\* freeContext then frees the logger.
NullDispose(t) ==
    /\ ~crashed /\ library = "null" /\ pc[t] = "live"
    /\ pc' = [pc EXCEPT ![t] = "idle"]
    /\ IF host = "java" THEN Glue!Java_freeContext(t) ELSE UNCHANGED <<logger, leaked>>
    /\ UNCHANGED <<library, host, javaVM, jvmHandle, classes, contexts, processVM,
                   tmp, proxy, crashed, calls, op, env, returned, held>>

(***************************************************************************)
(* The vector functions of a live context, as the outcomes each can have  *)
(* given whether _getJNIEnv attached the thread (e).  "java" is the code  *)
(* the StoreProxy method returned, "crash" a JNI call through the NULL    *)
(* env.  Every function tests env before its Java call; the ones that     *)
(* build arrays release them with DeleteLocalRef after that test.         *)
(***************************************************************************)
JavaCode == [e \in BOOLEAN |-> IF e THEN {"java", "FAILED"} ELSE {"FAILED"}]
Checked == [e \in BOOLEAN |-> IF e THEN {"SUCCESS", "FAILED"} ELSE {"FAILED"}]
Answer == [e \in BOOLEAN |-> IF e THEN {"answer", "none"} ELSE {"none"}]
ArrayCall == [e \in BOOLEAN |-> IF e THEN {"java", "FAILED"} ELSE {"crash"}]

CStore_connect == JavaCode
CStore_disconnect == JavaCode
\* A zero server handle is refused before the Java call.
CStore_count == [e \in BOOLEAN |-> IF e THEN {"BAD_HANDLE", "SUCCESS", "FAILED"}
                                   ELSE {"FAILED"}]
\* read and deliver pass the proxy's container to CStore_acceptValues,
\* which reads an element whose allocation failed through NULL.
AcceptValues(e) == IF e /\ FALSE \in Pin THEN {"crash"} ELSE {}
CStore_deliver == [e \in BOOLEAN |-> JavaCode[e] \cup AcceptValues(e)]
CStore_read == [e \in BOOLEAN |-> (IF e THEN {"BAD_HANDLE", "java", "FAILED"}
                                   ELSE {"FAILED"}) \cup AcceptValues(e)]
\* interrupt calls the proxy's disconnect method, not its interrupt method.
CStore_interrupt == Checked
CStore_putEnv == Checked
CStore_useCharset == Checked
CStore_getStateCode == Checked
CStore_getStateName == Answer
\* The quality functions are the state functions of server handle 0.
CStore_getQualityCode == CStore_getStateCode
CStore_getQualityName == CStore_getStateName
\* Constant true, without the VM.
CStore_supportsConnections == [e \in BOOLEAN |-> {"answer"}]
CStore_supportsThreads == [e \in BOOLEAN |-> {"answer"}]
\* The string literal "" when there is no env, an exception or no codes.
CStore_supportedValueTypeCodes ==
    [e \in BOOLEAN |-> IF e THEN {"answer", "literal"} ELSE {"literal"}]
CStore_supportsCount == Answer
CStore_supportsDelete == Answer
CStore_supportsDeliver == Answer
CStore_supportsPull == Answer
CStore_supportsSubscribe == Answer
\* delete tests the serverHandles and statusCodes arrays it made but not
\* times, which SetLongArrayRegion then writes through.
CStore_delete == [e \in BOOLEAN |-> ArrayCall[e] \cup IF e /\ FALSE \in Pin THEN {"crash"} ELSE {}]
CStore_exchangeHandles == ArrayCall
CStore_releaseHandles == ArrayCall
CStore_subscribe == ArrayCall
CStore_unsubscribe == ArrayCall
CStore_write == ArrayCall

cStoreVector ==
    [connect |-> CStore_connect, disconnect |-> CStore_disconnect,
     deliver |-> CStore_deliver, count |-> CStore_count, read |-> CStore_read,
     interrupt |-> CStore_interrupt, putEnv |-> CStore_putEnv,
     useCharset |-> CStore_useCharset, getStateCode |-> CStore_getStateCode,
     getStateName |-> CStore_getStateName,
     supportedValueTypeCodes |-> CStore_supportedValueTypeCodes,
     getQualityCode |-> CStore_getQualityCode,
     getQualityName |-> CStore_getQualityName,
     supportsConnections |-> CStore_supportsConnections,
     supportsThreads |-> CStore_supportsThreads,
     supportsCount |-> CStore_supportsCount, supportsDelete |-> CStore_supportsDelete,
     supportsDeliver |-> CStore_supportsDeliver, supportsPull |-> CStore_supportsPull,
     supportsSubscribe |-> CStore_supportsSubscribe, delete |-> CStore_delete,
     exchangeHandles |-> CStore_exchangeHandles,
     releaseHandles |-> CStore_releaseHandles, subscribe |-> CStore_subscribe,
     unsubscribe |-> CStore_unsubscribe, write |-> CStore_write]

(***************************************************************************)
(* A call on a live context.  Under a Java host it enters through its JNI  *)
(* entry, which takes its arguments and calls the vector only when it got  *)
(* what it needs; a C program calls the vector itself.                     *)
(***************************************************************************)
Enter(t, o) ==
    /\ ~crashed /\ pc[t] = "live"
    /\ op' = [op EXCEPT ![t] = o]
    /\ IF host = "c"
       THEN /\ pc' = [pc EXCEPT ![t] = "entered"]
            /\ UNCHANGED <<returned, crashed, held>>
       ELSE \/ /\ Glue!AcceptValuesCrashes(o)
               /\ crashed' = TRUE
               /\ UNCHANGED <<pc, returned, held>>
            \/ \E g \in Glue!Taken(o) :
                  /\ ~Glue!Asserts(o, g)
                  /\ Glue!Take(t, g)
                  /\ IF Glue!CallsVector(o, g)
                     THEN /\ pc' = [pc EXCEPT ![t] = "entered"]
                          /\ UNCHANGED returned
                     ELSE /\ pc' = [pc EXCEPT ![t] = "exit"]
                          /\ returned' = [returned EXCEPT ![t] = Glue!Entry(o).refused]
                  /\ UNCHANGED crashed
    /\ UNCHANGED <<library, host, javaVM, jvmHandle, classes, contexts, processVM,
                   tmp, proxy, calls, env, logger, leaked>>

\* putEnv and useCharset ASSERT the copied string: CStore_assert stops the
\* process on purpose.
AssertFails(t, o) ==
    /\ ~crashed /\ pc[t] = "live" /\ host = "java"
    /\ \E g \in Glue!Taken(o) : Glue!Asserts(o, g)
    /\ Crash

(***************************************************************************)
(* The vector function: _getJNIEnv dereferences _javaVM, and               *)
(* AttachCurrentThread may fail, which leaves env NULL.                    *)
(***************************************************************************)
CallStart(t) ==
    /\ ~crashed /\ library = "proxy" /\ pc[t] = "entered"
    /\ IF javaVM = "none"
       THEN Crash
       ELSE \E e \in Attach :
               /\ pc' = [pc EXCEPT ![t] = "call"]
               /\ env' = [env EXCEPT ![t] = e]
               /\ UNCHANGED <<library, host, javaVM, jvmHandle, classes, contexts, processVM,
                              tmp, proxy, crashed, calls, op, returned, glueVars>>

\* CStore_exchangeHandles copies the proxy's status codes into the array
\* it was passed, which the JNI entry may have left NULL.
StatusCodesNull(t, r) ==
    host = "java" /\ op[t] = "exchangeHandles" /\ r = "java"
    /\ "statusCodes" \notin held[t]

\* The rest of the function, with the env it got: one of its outcomes.
CallEnd(t) ==
    /\ ~crashed /\ pc[t] = "call"
    /\ \E r \in cStoreVector[op[t]][env[t]] :
          IF r = "crash" \/ StatusCodesNull(t, r)
          THEN Crash
          ELSE /\ returned' = [returned EXCEPT ![t] = r]
               /\ pc' = [pc EXCEPT ![t] = IF host = "java" THEN "exit" ELSE "live"]
               /\ UNCHANGED <<library, host, javaVM, jvmHandle, classes, contexts, processVM,
                              tmp, proxy, crashed, calls, op, env, glueVars>>

\* A null store function answers with its constant.
NullCall(t) ==
    /\ ~crashed /\ library = "null" /\ pc[t] = "entered"
    /\ \E r \in Null!cStoreVector[op[t]] :
          /\ returned' = [returned EXCEPT ![t] = r]
          /\ pc' = [pc EXCEPT ![t] = IF host = "java" THEN "exit" ELSE "live"]
    /\ UNCHANGED <<library, host, javaVM, jvmHandle, classes, contexts, processVM,
                   tmp, proxy, crashed, calls, op, env, glueVars>>

(***************************************************************************)
(* The tail of the JNI entry: the releases and frees, and CStore_free of   *)
(* the string the vector returned.                                         *)
(***************************************************************************)
Exit(t) ==
    /\ ~crashed /\ pc[t] = "exit"
    /\ IF Glue!Entry(op[t]).freesResult /\ returned[t] = "literal"
       THEN Crash
       ELSE /\ Glue!GiveBack(t, op[t])
            /\ pc' = [pc EXCEPT ![t] = "live"]
            /\ UNCHANGED <<library, host, javaVM, jvmHandle, classes, contexts, processVM,
                           tmp, proxy, crashed, calls, op, env, returned, logger,
                           leaked>>

Next ==
    \E t \in Threads :
        \/ ContextHandle(t) \/ CreateVM(t) \/ LoadClasses(t) \/ NewContext(t)
        \/ CountContext(t) \/ NullContext(t)
        \/ \E o \in CallOps : Enter(t, o) \/ AssertFails(t, o)
        \/ CallStart(t) \/ CallEnd(t) \/ NullCall(t) \/ Exit(t)
        \/ DisposeStart(t) \/ DisposeEnd(t) \/ DisposeTest(t) \/ UnloadClasses(t)
        \/ CloseVM(t) \/ DestroyVM(t) \/ NullDispose(t)

Spec == Init /\ [][Next]_vars
-----------------------------------------------------------------------------
InCall == {"entered", "call", "exit"}

Live == {t \in Threads : pc[t] \in {"live", "dec"} \cup InCall}

TypeOK ==
    /\ library \in {"proxy", "null"}
    /\ host \in {"java", "c"}
    /\ javaVM \in {"none", "host", "own"}
    /\ processVM \in {"none", "host", "own", "destroyed"}
    /\ jvmHandle \in BOOLEAN /\ classes \in BOOLEAN /\ crashed \in BOOLEAN
    /\ pc \in [Threads -> {"idle", "handle", "load", "alloc", "inc", "live", "dec",
                           "test", "unload", "close", "destroy"}
                          \cup InCall]
    /\ op \in [Threads -> CallOps \cup {"none"}] /\ env \in [Threads -> BOOLEAN]
    /\ returned \in [Threads -> {"none", "java", "SUCCESS", "FAILED", "BAD_HANDLE",
                                  "answer", "literal"}]
    /\ held \in [Threads -> SUBSET UNION {Glue!Entry(o).takes : o \in CallOps}]
    /\ logger \in [Threads -> BOOLEAN] /\ leaked \in 0..MaxCreates
    /\ contexts \in Nat /\ tmp \in [Threads -> Int]
    /\ calls \in 0..MaxCreates

\* A context that RVPF_CStore_context returned stays usable until it is
\* disposed: _getJNIEnv finds the VM the process runs, and the classes its
\* calls construct objects of are still loaded.
LiveContextUsable ==
    ~crashed /\ library = "proxy" => \A t \in Live : javaVM # "none" /\ javaVM = processVM /\ classes

\* Every array a JNI entry pinned and every string it copied is given
\* back before the entry returns to Java, whichever pins failed and
\* whether or not the vector was called.
GlueReleases ==
    ~crashed => \A t \in Threads : pc[t] \notin InCall => held[t] = {}

\* A step of a call: the entry, the vector function, the entry's tail.
CallStep(t) ==
    \/ \E o \in CallOps : Enter(t, o)
    \/ CallStart(t) \/ CallEnd(t) \/ NullCall(t) \/ Exit(t)

\* A call Java or a C program makes on a live context returns to it: a
\* missing env, a failed pin or allocation, or what the library returned
\* is reported as a status or a null, and no step of the call takes the
\* process down (a failed ASSERT, a step of its own, stops it on purpose).
CallsReturn ==
    [][\A t \in Threads : CallStep(t) => ~crashed']_vars
=============================================================================
