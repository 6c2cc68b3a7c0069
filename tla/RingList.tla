------------------------------ MODULE RingList ------------------------------
(***************************************************************************)
(* The high priority queue: ring_list (inc/SpaE/ring_list.h), nodes linked *)
(* in a ring that grows by chunks.  Writers push under the loop's          *)
(* m_operateMutex, so they are one writer here; pop takes no lock, so its  *)
(* steps interleave with the writer's.  Between two accesses to memory     *)
(* both sides share there is a state.                                      *)
(*                                                                         *)
(* m_available and m_size are atomic (sequentially consistent); the nodes  *)
(* are not, so two accesses to one node at the same time, one a write, are *)
(* undefined behaviour: RaceFree says there are none.                      *)
(***************************************************************************)
EXTENDS Naturals, Sequences

CONSTANTS
  Chunk,      \* nodes per allocation, 64 in the code
  MaxPushes,  \* bound on the pushes of a behaviour
  Nothing     \* the value of a node never written, or moved from

ASSUME RingAssumption ==
  /\ Chunk \in Nat /\ Chunk > 1
  /\ MaxPushes \in Nat
  /\ Nothing \notin 1 .. MaxPushes

Values == 1 .. MaxPushes

VARIABLES
  item, next,   \* Item::t, Item::next of the nodes
  available,    \* m_available
  size,         \* m_size: the nodes 0 .. size - 1 are allocated
  itemWrite,    \* m_itemWrite
  itemRead,     \* m_itemRead
  writer,       \* where the writer is
  reader,       \* where the reader is
  pushes,       \* pushes begun; the n-th pushes the value n
  out           \* the reader's variable

nodes == <<item, next>>
vars == <<nodes, available, size, itemWrite, itemRead, writer, reader, pushes,
          out>>

Nodes == 0 .. size - 1

(* newItems: the links inside a new chunk that begins at node n.           *)
Chained(n) == [k \in n .. n + Chunk - 2 |-> k + 1]

(* A function extended, or overridden, by another.                         *)
Over(f, g) == [k \in DOMAIN f \cup DOMAIN g |->
                 IF k \in DOMAIN g THEN g[k] ELSE f[k]]

FreshItems(n) == [k \in n .. n + Chunk - 1 |-> Nothing]

Init ==
  /\ item = FreshItems(0)
  /\ next = Over(Chained(0), [k \in {Chunk - 1} |-> 0])
  /\ available = 0
  /\ size = Chunk
  /\ itemWrite = 0
  /\ itemRead = 0
  /\ writer = "idle"
  /\ reader = "idle"
  /\ pushes = 0
  /\ out = Nothing
-----------------------------------------------------------------------------
(* push.                                                                   *)

(* Mutant: one node too late.                                              *)
FullLate == available = size

Full == available = size - 1

PushBegin ==
  /\ writer = "idle"
  /\ pushes < MaxPushes
  /\ pushes' = pushes + 1
  /\ writer' = IF Full THEN "chain" ELSE "write"
  /\ UNCHANGED <<nodes, available, size, itemWrite, itemRead, reader, out>>

(* Mutant: the last new node closes a ring of the new chunk alone.         *)
ChainAlone ==
  /\ writer = "chain"
  /\ item' = Over(item, FreshItems(size))
  /\ next' = Over(Over(next, Chained(size)),
                  [k \in {size + Chunk - 1} |-> size])
  /\ writer' = "splice"
  /\ UNCHANGED <<available, size, itemWrite, itemRead, reader, pushes, out>>

Chain ==
  /\ writer = "chain"
  /\ item' = Over(item, FreshItems(size))
  /\ next' = Over(Over(next, Chained(size)),
                  [k \in {size + Chunk - 1} |-> next[itemWrite]])
  /\ writer' = "splice"
  /\ UNCHANGED <<available, size, itemWrite, itemRead, reader, pushes, out>>

Splice ==
  /\ writer = "splice"
  /\ next' = [next EXCEPT ![itemWrite] = size]
  /\ size' = size + Chunk
  /\ writer' = "write"
  /\ UNCHANGED <<item, available, itemWrite, itemRead, reader, pushes, out>>

Write ==
  /\ writer = "write"
  /\ item' = [item EXCEPT ![itemWrite] = pushes]
  /\ writer' = "step"
  /\ UNCHANGED <<next, available, size, itemWrite, itemRead, reader, pushes,
                 out>>

WriteStep ==
  /\ writer = "step"
  /\ itemWrite' = next[itemWrite]
  /\ writer' = "count"
  /\ UNCHANGED <<nodes, available, size, itemRead, reader, pushes, out>>

Count ==
  /\ writer = "count"
  /\ available' = available + 1
  /\ writer' = "idle"
  /\ UNCHANGED <<nodes, size, itemWrite, itemRead, reader, pushes, out>>
-----------------------------------------------------------------------------
(* pop.                                                                    *)

(* Mutant: an empty queue is not noticed.                                  *)
PopBeginUnchecked ==
  /\ reader = "idle"
  /\ reader' = "take"
  /\ UNCHANGED <<nodes, available, size, itemWrite, itemRead, writer, pushes,
                 out>>

PopBegin ==
  /\ reader = "idle"
  /\ available > 0
  /\ reader' = "take"
  /\ UNCHANGED <<nodes, available, size, itemWrite, itemRead, writer, pushes,
                 out>>

Take ==
  /\ reader = "take"
  /\ out' = item[itemRead]
  /\ item' = [item EXCEPT ![itemRead] = Nothing]
  /\ reader' = "step"
  /\ UNCHANGED <<next, available, size, itemWrite, itemRead, writer, pushes>>

ReadStep ==
  /\ reader = "step"
  /\ itemRead' = next[itemRead]
  /\ reader' = "uncount"
  /\ UNCHANGED <<nodes, available, size, itemWrite, writer, pushes, out>>

Uncount ==
  /\ reader = "uncount"
  /\ available' = available - 1
  /\ reader' = "idle"
  /\ UNCHANGED <<nodes, size, itemWrite, itemRead, writer, pushes, out>>
-----------------------------------------------------------------------------
Push == PushBegin \/ Chain \/ Splice \/ Write \/ WriteStep \/ Count
Pop  == PopBegin \/ Take \/ ReadStep \/ Uncount

Next == Push \/ Pop

Spec == Init /\ [][Next]_vars
-----------------------------------------------------------------------------
(* What must hold.                                                         *)

(* The node k links after n.                                               *)
After(n, k) ==
  LET walk[i \in 0 .. k] == IF i = 0 THEN n ELSE next[walk[i - 1]]
  IN walk[k]

(* Every variable has its type.                                            *)
TypeOK ==
  /\ DOMAIN item = DOMAIN next
  /\ \A n \in DOMAIN item : /\ item[n] \in Values \cup {Nothing}
                            /\ next[n] \in DOMAIN item
  /\ available \in Nat
  /\ itemWrite \in Nodes /\ itemRead \in Nodes
  /\ writer \in {"idle", "chain", "splice", "write", "step", "count"}
  /\ reader \in {"idle", "take", "step", "uncount"}
  /\ pushes \in 0 .. MaxPushes
  /\ out \in Values \cup {Nothing}

(* The writer and the reader never touch the same field of one node at the *)
(* same time, although pop takes no lock (ring_list.h:54, 68).             *)
RaceFree ==
  itemRead = itemWrite =>
    /\ ~(reader = "take" /\ writer = "write")
    /\ ~(reader = "step" /\ writer = "splice")

(* However often the ring grew, and wherever its writer then was, its      *)
(* nodes are one ring: no node is lost, none is met twice.                 *)
OneRing ==
  writer # "splice" =>
    \A n \in Nodes : {After(n, k) : k \in 0 .. size - 1} = Nodes

(* The queue: the counted items from the reader on, without the one it has *)
(* taken and not yet counted off.                                          *)
Contents ==
  LET taken == IF reader \in {"step", "uncount"} THEN 1 ELSE 0
      first == IF reader = "step" THEN next[itemRead] ELSE itemRead
  IN [i \in 1 .. available - taken |-> item[After(first, i - 1)]]

Queue == INSTANCE Fifo WITH queue <- Contents

(* The ring is a FIFO queue: what is popped is what was pushed, in order,  *)
(* nothing lost, nothing twice, over any number of growths.                *)
ImplementsFifo == Queue!Spec
=============================================================================
