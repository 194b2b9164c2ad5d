---------------------------- MODULE MCHandlesMap ----------------------------
(***************************************************************************)
(* Bounds for HandlesMap.  Keys 8 and 9 share a bucket at capacities 1, 2, *)
(* 4 and 8; key 1 joins them at capacity 4, and the negative key -2 checks *)
(* the conversion to hash_t.  With a MAXIMUM_CAPACITY of 4, the fourth put *)
(* reaches the branch of _rehash that only raises the threshold.           *)
(***************************************************************************)
EXTENDS HandlesMap

MCKeys == {1, 8, 9, -2}

MCValues == {1, 2}

\* 0 gives capacity 1, 1 gives 2, 2 gives 4, 3 would fail the ASSERT.
MCInitialLoads == {0, 1, 2}

MCMaximumCapacity == 4

MCMaxSize == 5
=============================================================================
