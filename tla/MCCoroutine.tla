----------------------------- MODULE MCCoroutine ----------------------------
(***************************************************************************)
(* Instances of module Coroutine for TLC.                                  *)
(***************************************************************************)
EXTENDS CoroutineProperties

CONSTANTS c1, c2, x1, x2, t1, i1, i2

(* x1 joins x2 of the same or the other coroutine, yields or waits for a   *)
(* timer; x2 waits to be resumed; the thread joins, resumes and deletes.   *)
MixedCalls ==
  {<<t1, "new", c1>>, <<t1, "new", c2>>,
   <<t1, "work", <<x1, c1>>>>, <<x1, "work", <<x2, c1>>>>,
   <<t1, "work", <<x2, c2>>>>,
   <<t1, "join", x1>>, <<t1, "resume", x2>>, <<t1, "delete", c2>>,
   <<x1, "yield", Nil>>, <<x1, "yieldFor", Nil>>, <<x1, "resume", x2>>,
   <<x1, "join", x2>>, <<x2, "pending", Nil>>, <<x2, "yieldFor", Nil>>}

(* test/testCoroutine.cc:34, testJoin1.                                    *)
TestCalls == {<<t1, "new", c1>>, <<t1, "work", <<x1, c1>>>>, <<t1, "join", x1>>}
=============================================================================
