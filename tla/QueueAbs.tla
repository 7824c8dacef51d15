------------------------------ MODULE QueueAbs ------------------------------
(***************************************************************************)
(* What the queue of src/queue promises, with no processes, files or       *)
(* locks: every item is handled at least once before it disappears, and    *)
(* never by two programs at a time.  That an item may be handled again     *)
(* after it was removed is part of the promise: the program must be        *)
(* prepared for it.                                                        *)
(***************************************************************************)
CONSTANT Items

VARIABLES
  visible,  (* items in the queue                      *)
  removed,  (* items that have left it                 *)
  busy,     (* items a program is being fed right now  *)
  handled   (* items some program has accepted         *)

vars == <<visible, removed, busy, handled>>

Init == visible = {} /\ removed = {} /\ busy = {} /\ handled = {}

Add(i) ==
  /\ i \notin visible \cup removed
  /\ visible' = visible \cup {i}
  /\ UNCHANGED <<removed, busy, handled>>

Begin(i) ==
  /\ i \in (visible \cup removed) \ busy
  /\ busy' = busy \cup {i}
  /\ UNCHANGED <<visible, removed, handled>>

Reject(i) ==
  /\ i \in busy
  /\ busy' = busy \ {i}
  /\ UNCHANGED <<visible, removed, handled>>

Accept(i) ==
  /\ i \in busy
  /\ busy' = busy \ {i}
  /\ handled' = handled \cup {i}
  /\ UNCHANGED <<visible, removed>>

Remove(i) ==
  /\ i \in visible \cap handled
  /\ visible' = visible \ {i}
  /\ removed' = removed \cup {i}
  /\ UNCHANGED <<busy, handled>>

Next == \E i \in Items : Add(i) \/ Begin(i) \/ Reject(i) \/ Accept(i) \/ Remove(i)

Spec == Init /\ [][Next]_vars
=============================================================================
