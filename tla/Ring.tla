-------------------------------- MODULE Ring --------------------------------
(***************************************************************************)
(* The ring buffer of src/c/ring.c, shared by one context that writes and  *)
(* one that reads (a thread and an interrupt or signal handler, say): the  *)
(* pointers r and w are plain memory, there is no lock, and either side    *)
(* may be stopped between any two of its memory accesses.                  *)
(*                                                                         *)
(* The functions check nothing; as their interface asks, the writer calls  *)
(* ring_write after ring_is_full said no, and the reader calls ring_read   *)
(* after ring_is_empty said no.  ring_clear is called by the reader.       *)
(* Stores take effect in program order.                                    *)
(***************************************************************************)
EXTENDS Integers, Sequences

CONSTANTS Size, Values, Zero

ASSUME RingParameters == Size \in Nat \ {0} /\ Zero \in Values

VARIABLES
  buf,   (* the array behind ring->buf                            *)
  r, w,  (* ring->r and ring->w, as offsets into buf              *)
  wpc,   (* what the writer does next                             *)
  val,   (* the argument of ring_write                            *)
  rpc,   (* what the reader does next                             *)
  ret,   (* ret of ring_read                                      *)
  seen,  (* the value of ring->w that ring_clear has loaded       *)
  out    (* what the last ring_read returned                      *)

writer == <<w, wpc, val>>
reader == <<r, rpc, ret, seen, out>>
vars == <<buf, r, w, wpc, val, rpc, ret, seen, out>>

Slots == 0..Size-1

(* ring_next_r and ring_next_w *)
Succ(p) == IF p + 1 < Size THEN p + 1 ELSE 0

Empty == r = w
Full == Succ(w) = r

Init ==
  /\ buf = [p \in Slots |-> Zero]
  /\ r = 0 /\ w = 0 /\ seen = 0
  /\ wpc = "idle" /\ rpc = "idle"
  /\ val = Zero /\ ret = Zero /\ out = Zero

WriteBegin ==
  /\ wpc = "idle" /\ ~ Full
  /\ wpc' = "store"
  /\ val' \in Values
  /\ UNCHANGED <<buf, w, reader>>

WriteStore ==
  /\ wpc = "store"
  /\ wpc' = "advance"
  /\ buf' = [buf EXCEPT ![w] = val]
  /\ UNCHANGED <<w, val, reader>>

WriteAdvance ==
  /\ wpc = "advance"
  /\ wpc' = "idle"
  /\ w' = Succ(w)
  /\ UNCHANGED <<buf, val, reader>>

(* Mutant of ReadBegin: the caller does not look.                          *)
ReadBeginAnyway ==
  /\ rpc = "idle"
  /\ rpc' = "load"
  /\ UNCHANGED <<buf, r, ret, seen, out, writer>>

ReadBegin ==
  /\ rpc = "idle" /\ ~ Empty
  /\ rpc' = "load"
  /\ UNCHANGED <<buf, r, ret, seen, out, writer>>

ReadLoad ==
  /\ rpc = "load"
  /\ rpc' = "advance"
  /\ ret' = buf[r]
  /\ UNCHANGED <<buf, r, seen, out, writer>>

ReadAdvance ==
  /\ rpc = "advance"
  /\ rpc' = "idle"
  /\ r' = Succ(r)
  /\ out' = ret
  /\ UNCHANGED <<buf, ret, seen, writer>>

ClearLoad ==
  /\ rpc = "idle"
  /\ rpc' = "clear"
  /\ seen' = w
  /\ UNCHANGED <<buf, r, ret, out, writer>>

(* Mutant of ClearStore: it moves the writer's pointer, ring->w = ring->r. *)
ClearMovesW ==
  /\ rpc = "clear"
  /\ rpc' = "idle"
  /\ w' = r
  /\ UNCHANGED <<buf, r, ret, seen, out, wpc, val>>

ClearStore ==
  /\ rpc = "clear"
  /\ rpc' = "idle"
  /\ r' = seen
  /\ UNCHANGED <<buf, ret, seen, out, writer>>

Next ==
  \/ WriteBegin \/ WriteStore \/ WriteAdvance
  \/ ReadBegin \/ ReadLoad \/ ReadAdvance
  \/ ClearLoad \/ ClearStore

Spec == Init /\ [][Next]_vars

-----------------------------------------------------------------------------
(* The pointers stay in the array.                                         *)
TypeOK ==
  /\ buf \in [Slots -> Values]
  /\ r \in Slots /\ w \in Slots /\ seen \in Slots
  /\ wpc \in {"idle", "store", "advance"}
  /\ rpc \in {"idle", "load", "advance", "clear"}
  /\ val \in Values /\ ret \in Values /\ out \in Values

(* The writer never stores into the slot the reader is about to load, even *)
(* though each side looked at the other's pointer some steps ago.          *)
SlotsDisjoint == ~ (wpc = "store" /\ rpc \in {"load", "advance"} /\ r = w)

(* How far p is ahead of r, and what is that far ahead of r.               *)
Ahead(p) == IF p >= r THEN p - r ELSE p - r + Size
At(k) == IF r + k < Size THEN r + k ELSE r + k - Size

Contents == [k \in 1..Ahead(w) |-> buf[At(k - 1)]]

Fifo == INSTANCE RingAbs
          WITH Capacity <- Size - 1, queue <- Contents,
               writing <- wpc # "idle", in <- val, clearing <- rpc = "clear",
               cut <- IF rpc = "clear" THEN Ahead(seen) ELSE 0

(* The two sides together are a bounded queue of Size - 1 characters:      *)
(* ring_read returns what ring_write was given, in order, none twice, and  *)
(* none is missing but those that were there when ring_clear began.        *)
ImplementsFifo == Fifo!Spec
=============================================================================
