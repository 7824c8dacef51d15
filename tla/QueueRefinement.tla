-------------------------- MODULE QueueRefinement --------------------------
(***************************************************************************)
(* queue-add and queue-worker implement the queue of QueueAbs.             *)
(***************************************************************************)
EXTENDS Queue

Visible == {i \in Items : name[i] = "queued"}
Removed == {i \in Items : name[i] = "gone"}
Busy    == {i \in Items : \E w \in Workers : child[w] = "running" /\ file[w] = i}
Accepted == {i \in Items : \E w \in Workers : <<w, i>> \in done}

Abs == INSTANCE QueueAbs WITH Items <- Items, visible <- Visible,
         removed <- Removed, busy <- Busy, handled <- Accepted

(* Every behaviour of the processes, deaths of workers included, is one of *)
(* an exclusive at-least-once queue: items appear once, at the rename of   *)
(* queue-add; a program is started only on an item no other is working on; *)
(* and only an accepted item is removed.                                   *)
ImplementsQueueAbs == Abs!Spec
=============================================================================
