------------------------------- MODULE MCLoop -------------------------------
(***************************************************************************)
(* Instances of module Loop for TLC: who calls what in each run.           *)
(***************************************************************************)
EXTENDS LoopProperties

CONSTANTS d, m, c, o, conn  \* the default loop, another one, a client, ...

SenderOf == [x \in {conn} |-> o]
NoSender == [x \in {} |-> o]

(* Posts, synchronous calls to loop m only, nested processing.             *)
ExecCalls ==
  {<<c, "work", d>>, <<c, "workSync", m>>, <<d, "workSync", m>>,
   <<d, "workSync", d>>, <<d, "process", d>>, <<m, "work", d>>}

(* A client synchronises with the default loop, as main does in            *)
(* test/test.cc, beside that loop's thread.                                *)
MainCalls ==
  {<<c, "work", d>>, <<c, "workSync", d>>, <<c, "process", d>>, <<m, "work", d>>}

(* The client deletes m, which owners keep; a connection of a sender on m  *)
(* or d with a receiver on m; m is paused twice; the client waits on d,    *)
(* and may not on m.                                                       *)
DeleteCalls ==
  {<<c, "work", m>>, <<c, "deleteLater", m>>, <<m, "hold", m>>,
   <<m, "connect", m>>, <<c, "disconnect", m>>, <<c, "drop", m>>,
   <<m, "pause", m>>, <<c, "pause", m>>, <<c, "resume", m>>,
   <<c, "hold", d>>, <<c, "drop", d>>,
   <<c, "waitEvent", d>>, <<c, "waitProcess", d>>, <<c, "waitProcess", m>>}
=============================================================================
