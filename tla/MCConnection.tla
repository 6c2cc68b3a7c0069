---------------------------- MODULE MCConnection ----------------------------
(***************************************************************************)
(* Instances of module Connection for TLC.                                 *)
(***************************************************************************)
EXTENDS ConnectionProperties

CONSTANTS la, lb, lc, snd, rcv, sig, k1, k2  \* loops, objects, a signal, connections

(* The signal of snd, in loop la.  k1 has the receiver rcv, in loop lb; k2 *)
(* has none.                                                               *)
ContainerOf == [x \in {sig} |-> snd]
HomeOf == [x \in {snd, rcv} |-> IF x = snd THEN la ELSE lb]
SignalOfConn == [x \in {k1, k2} |-> sig]
SlotOfConn == [x \in {k1, k2} |-> Nil]
OneReceiver == [x \in {k1, k2} |-> IF x = k1 THEN rcv ELSE Nil]

(* disconnect(snd, rcv)                                                    *)
Pair == [fn |-> "pair", object |-> snd, signal |-> Nil, peer |-> rcv,
         slot |-> Nil]

ConnCalls ==
  {<<lc, "connect", k1>>, <<la, "connect", k2>>, <<la, "emit", sig>>,
   <<lc, "emitSync", sig>>, <<lc, "disconnect", k1>>,
   <<la, "destroy", snd>>, <<lb, "destroy", rcv>>, <<lc, "query", Pair>>,
   <<la, "query", Pair>>, <<la, "move", snd>>}
=============================================================================
