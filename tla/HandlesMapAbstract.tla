------------------------- MODULE HandlesMapAbstract -------------------------
(***************************************************************************)
(* What the handles map of store/HandlesMap.h promises its callers: an     *)
(* int -> int partial function in which 0 stands for "absent".  put and    *)
(* remove return the previous value, get the current one, size the number  *)
(* of present keys; keys and values list the present keys and their       *)
(* values in some order.                                                   *)
(*                                                                         *)
(* contents  the value of every key, 0 when the key is absent;             *)
(* ret       the value the last integer-returning call gave back;          *)
(* listed    the array the last keys or values call gave back.             *)
(***************************************************************************)
EXTENDS Integers, Sequences, FiniteSets

CONSTANTS Keys, Values

VARIABLES contents, ret, listed

absVars == <<contents, ret, listed>>

Present == {k \in Keys : contents[k] # 0}

\* How often x occurs in the sequence s.
Occurrences(x, s) == Cardinality({i \in 1..Len(s) : s[i] = x})

AbsInit ==
    /\ contents = [k \in Keys |-> 0]
    /\ ret = 0
    /\ listed = <<>>

Put(k, v) ==
    /\ ret' = contents[k]
    /\ contents' = [contents EXCEPT ![k] = v]
    /\ UNCHANGED listed

Remove(k) ==
    /\ ret' = contents[k]
    /\ contents' = [contents EXCEPT ![k] = 0]
    /\ UNCHANGED listed

Get(k) ==
    /\ ret' = contents[k]
    /\ UNCHANGED <<contents, listed>>

Size ==
    /\ ret' = Cardinality(Present)
    /\ UNCHANGED <<contents, listed>>

Clear ==
    /\ contents' = [k \in Keys |-> 0]
    /\ UNCHANGED <<ret, listed>>

\* keys: every present key exactly once.
ListKeys ==
    /\ Len(listed') = Cardinality(Present)
    /\ \A k \in Present : Occurrences(k, listed') = 1
    /\ UNCHANGED <<contents, ret>>

\* values: the values of the present keys, each as often as it is held.
ListValues ==
    /\ Len(listed') = Cardinality(Present)
    /\ \A v \in Values :
          Occurrences(v, listed') = Cardinality({k \in Present : contents[k] = v})
    /\ UNCHANGED <<contents, ret>>

AbsNext ==
    \/ \E k \in Keys, v \in Values : Put(k, v)
    \/ \E k \in Keys : Remove(k) \/ Get(k)
    \/ Size \/ Clear \/ ListKeys \/ ListValues

AbsSpec == AbsInit /\ [][AbsNext]_absVars
=============================================================================
