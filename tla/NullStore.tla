------------------------------ MODULE NullStore ------------------------------
(***************************************************************************)
(* The store library of store/NullStoreImpl.c: a context holds nothing and *)
(* every vector function answers at once with a constant, without JNI.    *)
(* ProxyStore composes it as the library the process loaded instead of    *)
(* the proxy.  Outcomes use ProxyStore's names: "SUCCESS" and             *)
(* "UNSUPPORTED" status codes, "none" for NULL or false, "answer" for     *)
(* true, "literal" for a string constant of the library.                  *)
(***************************************************************************)
CONSTANT Pin   \* the outcomes of an allocation: TRUE when it worked

(***************************************************************************)
(* CStore_createContext of CStoreVector.h: the c_store_t is allocated only *)
(* for a non-NULL implementation context.                                  *)
(***************************************************************************)
CStore_createContext(implContext) ==
    {implContext /\ store : store \in Pin}

(***************************************************************************)
(* RVPF_CStore_context: the context struct is allocated and wrapped; when  *)
(* the wrap fails the struct is freed and CStore_dispose(NULL) does        *)
(* nothing.  TRUE: a store is returned; FALSE: NULL.                       *)
(***************************************************************************)
RVPF_CStore_context ==
    UNION {CStore_createContext(context) : context \in Pin}

CStore_connect == {"SUCCESS"}
CStore_delete == {"SUCCESS"}
CStore_deliver == {"UNSUPPORTED"}
CStore_disconnect == {"SUCCESS"}
\* The client handles are copied to the server handles; the status codes
\* are not touched.
CStore_exchangeHandles == {"SUCCESS"}
CStore_getStateCode == {"UNSUPPORTED"}
CStore_getStateName == {"none"}
CStore_getQualityCode == {"UNSUPPORTED"}
CStore_getQualityName == {"none"}
CStore_supportsConnections == {"answer"}
CStore_supportsThreads == {"answer"}
CStore_interrupt == {"SUCCESS"}
CStore_putEnv == {"SUCCESS"}
\* The count is set to 0.
CStore_count == {"SUCCESS"}
\* No values are returned: *values stays NULL.
CStore_read == {"SUCCESS"}
CStore_releaseHandles == {"SUCCESS"}
CStore_subscribe == {"UNSUPPORTED"}
CStore_supportedValueTypeCodes == {"literal"}
CStore_supportsCount == {"answer"}
CStore_supportsDelete == {"answer"}
CStore_supportsDeliver == {"none"}
CStore_supportsPull == {"none"}
CStore_supportsSubscribe == {"none"}
CStore_unsubscribe == {"UNSUPPORTED"}
CStore_useCharset == {"SUCCESS"}
CStore_write == {"SUCCESS"}

cStoreVector ==
    [connect |-> CStore_connect, disconnect |-> CStore_disconnect,
     deliver |-> CStore_deliver, count |-> CStore_count, read |-> CStore_read,
     interrupt |-> CStore_interrupt, putEnv |-> CStore_putEnv,
     useCharset |-> CStore_useCharset, getStateCode |-> CStore_getStateCode,
     getStateName |-> CStore_getStateName,
     supportedValueTypeCodes |-> CStore_supportedValueTypeCodes,
     getQualityCode |-> CStore_getQualityCode,
     getQualityName |-> CStore_getQualityName,
     supportsConnections |-> CStore_supportsConnections,
     supportsThreads |-> CStore_supportsThreads,
     supportsCount |-> CStore_supportsCount, supportsDelete |-> CStore_supportsDelete,
     supportsDeliver |-> CStore_supportsDeliver, supportsPull |-> CStore_supportsPull,
     supportsSubscribe |-> CStore_supportsSubscribe, delete |-> CStore_delete,
     exchangeHandles |-> CStore_exchangeHandles,
     releaseHandles |-> CStore_releaseHandles, subscribe |-> CStore_subscribe,
     unsubscribe |-> CStore_unsubscribe, write |-> CStore_write]
=============================================================================
