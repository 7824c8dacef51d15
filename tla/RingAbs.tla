------------------------------ MODULE RingAbs ------------------------------
(* The bounded queue that a ring buffer of src/c/ring.c stands for.        *)
EXTENDS Naturals, Sequences

CONSTANTS Values, Zero, Capacity

VARIABLES
  queue,     (* the characters in the ring                            *)
  writing,   (* whether the writer is inside of ring_write ...        *)
  in,        (* ... and the character of its last call                *)
  clearing,  (* whether the reader is inside of ring_clear ...        *)
  cut,       (* ... and how many characters were there when it began  *)
  out        (* the character the reader got last                     *)

vars == <<queue, writing, in, clearing, cut, out>>

Init ==
  /\ queue = <<>>
  /\ writing = FALSE /\ in = Zero
  /\ clearing = FALSE /\ cut = 0
  /\ out = Zero

BeginPut(v) ==
  /\ ~ writing
  /\ Len(queue) < Capacity
  /\ writing' = TRUE /\ in' = v
  /\ UNCHANGED <<queue, clearing, cut, out>>

EndPut ==
  /\ writing
  /\ Len(queue) < Capacity
  /\ writing' = FALSE
  /\ queue' = Append(queue, in)
  /\ UNCHANGED <<in, clearing, cut, out>>

Get ==
  /\ ~ clearing
  /\ queue # <<>>
  /\ out' = Head(queue)
  /\ queue' = Tail(queue)
  /\ UNCHANGED <<writing, in, clearing, cut>>

(* Clearing drops what was in the queue when it began; what is put in      *)
(* meanwhile stays.                                                        *)
BeginClear ==
  /\ ~ clearing
  /\ clearing' = TRUE /\ cut' = Len(queue)
  /\ UNCHANGED <<queue, writing, in, out>>

EndClear ==
  /\ clearing
  /\ clearing' = FALSE /\ cut' = 0
  /\ queue' = SubSeq(queue, cut + 1, Len(queue))
  /\ UNCHANGED <<writing, in, out>>

Next ==
  \/ \E v \in Values : BeginPut(v)
  \/ EndPut \/ Get \/ BeginClear \/ EndClear

Spec == Init /\ [][Next]_vars
=============================================================================
