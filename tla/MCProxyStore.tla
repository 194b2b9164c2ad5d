---------------------------- MODULE MCProxyStore ----------------------------
(***************************************************************************)
(* Bounds for ProxyStore.  Two callers are enough for one to create or    *)
(* dispose while the other is inside a call; three creates let a caller   *)
(* create again after a dispose or a failed create.  The callers are      *)
(* model values and interchangeable: nothing in the library tells two     *)
(* threads apart, so the permutations of them are a sound symmetry.       *)
(***************************************************************************)
EXTENDS ProxyStore, TLC

CONSTANTS t1, t2

MCTwoCallers == {t1, t2}

CallerSymmetry == Permutations(MCTwoCallers)

MCHosts == {"java", "c"}

MCMaxCreates == 3

\* One vector function of each outcome shape, and JNI entries of each
\* shape: arrays all needed (delete), status codes not tested
\* (exchangeHandles), container values (write), an ASSERTed string
\* (putEnv), a returned string freed (supportedValueTypeCodes).
MCCallOps == {"connect", "read", "putEnv", "delete",
              "exchangeHandles", "write", "supportedValueTypeCodes"}

MCAttach == BOOLEAN

MCPin == BOOLEAN

MCLibraries == {"proxy", "null"}
=============================================================================
