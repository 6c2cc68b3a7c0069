------------------------------- MODULE MCTimer ------------------------------
(***************************************************************************)
(* Instances of module Timer for TLC.                                      *)
(***************************************************************************)
EXTENDS TimerProperties

CONSTANTS l, c, t1, t2  \* the loop's thread, a client, two timers

(* The client starts and stops t1, single or as an interval; the loop's    *)
(* thread deletes it, and calls setTimeout for t2.                         *)
SharedCalls ==
  {<<c, "start", t1>>, <<c, "interval", t1>>, <<c, "stop", t1>>,
   <<l, "delete", t1>>, <<l, "start", t2>>}

SharedStarts == [x \in {t1, t2} |-> IF x = t1 THEN 2 ELSE 1]
=============================================================================
