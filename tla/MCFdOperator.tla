---------------------------- MODULE MCFdOperator ----------------------------
(***************************************************************************)
(* Instances of module FdOperator for TLC.                                 *)
(***************************************************************************)
EXTENDS FdOperator

CONSTANTS o1, o2

(* Both may make inotify watches of the shared thread and of their own;    *)
(* o1 may be closed by hand and destroyed; o2's slot answers, and it stays. *)
MixedCalls ==
  {<<o1, "isolate", "inotify">>, <<o1, "watch", "inotify">>,
   <<o1, "close", Nil>>, <<o1, "destroy", Nil>>,
   <<o2, "isolate", "inotify">>, <<o2, "watch", "inotify">>, <<o2, "read", "inotify">>}

MixedSources == {<<o1, "inotify">>, <<o2, "inotify">>}
=============================================================================
