--------------------------- MODULE MCCoroutinePool --------------------------
(***************************************************************************)
(* An instance of module CoroutinePool for TLC.                            *)
(***************************************************************************)
EXTENDS CoroutinePool

CONSTANTS c1, c2, c3, x1, x2, t1, t2, i1, i2, i3

(* Two threads hand over a context each, and one posts functions; the pool *)
(* size is set again.                                                      *)
PoolCalls == {<<t1, "pool", x1>>, <<t2, "pool", x2>>, <<t2, "pool", Nil>>,
              <<t1, "size", 3>>}

(* No call names a coroutine or an id, and nothing is chosen of them.      *)
Symmetry == Permutations(Coroutines) \cup Permutations(Ids)
=============================================================================
