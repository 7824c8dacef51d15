----------------------------- MODULE RingProofs -----------------------------
(***************************************************************************)
(* The ring buffer is a bounded queue for every size and every set of      *)
(* values.                                                                 *)
(***************************************************************************)
EXTENDS Ring, TLAPS

(* What each side has checked stays true while it acts on it: the other    *)
(* side only moves its own pointer, and never past this one.               *)
SideInv ==
  /\ wpc # "idle" => Succ(w) # r
  /\ wpc = "advance" => buf[w] = val
  /\ rpc \in {"load", "advance"} => r # w
  /\ rpc = "advance" => ret = buf[r]
  /\ rpc = "clear" => Ahead(seen) <= Ahead(w)

IInv == TypeOK /\ SideInv

(* Successors and distances in a ring of Size slots.                       *)
LEMMA RingArithmetic ==
  ASSUME TypeOK
  PROVE  /\ \A p \in Slots : /\ Succ(p) \in Slots
                             /\ Ahead(p) \in Slots
                             /\ (Ahead(p) = 0) <=> (p = r)
                             /\ Succ(p) # r => Ahead(Succ(p)) = Ahead(p) + 1
         /\ \A k \in Slots : At(k) \in Slots /\ Ahead(At(k)) = k
         /\ At(0) = r
         /\ \A p \in Slots : At(Ahead(p)) = p
  BY RingParameters DEF TypeOK, Slots, Succ, Ahead, At

(* The pointers stay in range and neither side loses what it has checked.  *)
LEMMA InvCorrect == Spec => []IInv
  <1>1. Init => IInv
    BY RingParameters DEF Init, IInv, TypeOK, SideInv, Slots
  <1>2. IInv /\ [Next]_vars => IInv'
    <2> SUFFICES ASSUME IInv, [Next]_vars PROVE IInv'
      OBVIOUS
    <2> USE RingParameters DEF IInv, TypeOK, SideInv, Slots, Succ, Ahead,
                               reader, writer
    <2>1. CASE WriteBegin  BY <2>1 DEF WriteBegin, Full
    <2>2. CASE WriteStore  BY <2>2 DEF WriteStore
    <2>3. CASE WriteAdvance  BY <2>3 DEF WriteAdvance
    <2>4. CASE ReadBegin  BY <2>4 DEF ReadBegin, Empty
    <2>5. CASE ReadLoad  BY <2>5 DEF ReadLoad
    <2>6. CASE ReadAdvance  BY <2>6 DEF ReadAdvance
    <2>7. CASE ClearLoad  BY <2>7 DEF ClearLoad
    <2>8. CASE ClearStore  BY <2>8 DEF ClearStore
    <2>9. CASE UNCHANGED vars  BY <2>9 DEF vars
    <2> QED
      BY <2>1, <2>2, <2>3, <2>4, <2>5, <2>6, <2>7, <2>8, <2>9 DEF Next
  <1>3. QED BY <1>1, <1>2, PTL DEF Spec

(* The pointers never leave the array, and the array keeps its shape.      *)
THEOREM PointersInRange == Spec => []TypeOK
  <1>1. IInv => TypeOK
    BY DEF IInv
  <1>2. QED BY <1>1, InvCorrect, PTL

(* The writer and the reader are never in the same slot.                   *)
THEOREM Disjoint == Spec => []SlotsDisjoint
  <1>1. IInv => SlotsDisjoint
    BY DEF IInv, SideInv, SlotsDisjoint
  <1>2. QED BY <1>1, InvCorrect, PTL

(* What the reader takes out is what the writer put in, in order.          *)
THEOREM RingIsFifo == Spec => ImplementsFifo
  <1>1. Init => Fifo!Init
    BY RingParameters DEF Init, Fifo!Init, Contents, Ahead, At
  <1> DEFINE cut == IF rpc = "clear" THEN Ahead(seen) ELSE 0
             Same == UNCHANGED <<Contents, wpc # "idle", val, rpc = "clear",
                                 cut, out>>
  <1>2. IInv /\ [Next]_vars => [Fifo!Next]_(Fifo!vars)
    <2> SUFFICES ASSUME IInv, [Next]_vars
                 PROVE  Fifo!Next \/ Same
      BY DEF Fifo!vars
    <2> USE DEF IInv
    <2>0. CASE WriteBegin
      <3>1. /\ UNCHANGED <<buf, r, w, rpc, seen, out>> /\ wpc = "idle"
            /\ wpc' = "store" /\ val' \in Values /\ Succ(w) # r
        BY <2>0 DEF WriteBegin, Full, reader
      <3>2. Contents' = Contents /\ cut' = cut
        BY <3>1 DEF Contents, Ahead, At
      <3>3. Ahead(w) \in Nat /\ Ahead(w) < Size - 1
        BY <3>1, RingParameters DEF TypeOK, Slots, Ahead, Succ
      <3>4. Len(Contents) < Size - 1
        BY <3>3 DEF Contents
      <3>5. Fifo!BeginPut(val')
        BY <3>1, <3>2, <3>4 DEF Fifo!BeginPut
      <3> QED BY <3>1, <3>5 DEF Fifo!Next
    <2>1. CASE WriteStore
      <3>1. \A k \in 1..Ahead(w) : At(k - 1) # w
        BY RingParameters DEF TypeOK, Slots, At, Ahead
      <3>2. UNCHANGED <<r, w, val, rpc, seen, out, wpc # "idle">>
        BY <2>1 DEF WriteStore, reader
      <3>3. \A k \in 1..Ahead(w) : At(k - 1) \in Slots
        BY RingParameters DEF TypeOK, Slots, At, Ahead
      <3>4. Contents' = Contents
        BY <2>1, <3>1, <3>2, <3>3 DEF WriteStore, Contents, At, Ahead, TypeOK
      <3> QED BY <3>2, <3>4 DEF Ahead
    <2>2. CASE WriteAdvance
      <3>1. /\ UNCHANGED <<buf, r, val, rpc, seen, out>> /\ w' = Succ(w)
            /\ Succ(w) # r /\ buf[w] = val /\ wpc # "idle" /\ wpc' = "idle"
        BY <2>2 DEF WriteAdvance, reader, SideInv
      <3>2. Ahead(w)' = Ahead(w) + 1 /\ Ahead(w) \in 0..Size-2
        BY <3>1, RingParameters DEF TypeOK, Slots, Ahead, Succ
      <3>3. Contents' = Append(Contents, val)
        BY <3>1, <3>2, RingArithmetic DEF Contents, At, TypeOK
      <3>4. Len(Contents) < Size - 1
        BY <3>2, RingParameters DEF Contents
      <3>5. cut' = cut
        BY <3>1 DEF Ahead
      <3>6. Fifo!EndPut
        BY <3>1, <3>3, <3>4, <3>5 DEF Fifo!EndPut
      <3> QED BY <3>6 DEF Fifo!Next
    <2>3. CASE ReadAdvance
      <3>1. /\ UNCHANGED <<buf, w, val, wpc>> /\ r' = Succ(r) /\ out' = buf[r]
            /\ r # w /\ rpc = "advance" /\ rpc' = "idle"
        BY <2>3 DEF ReadAdvance, writer, SideInv
      <3>2. Ahead(w)' = Ahead(w) - 1 /\ Ahead(w) \in 1..Size-1
        BY <3>1, RingParameters DEF TypeOK, Slots, Ahead, Succ
      <3>3. \A k \in 1..Ahead(w)-1 : At(k-1)' = At(k)
        BY <3>1, <3>2, RingParameters DEF TypeOK, Slots, At, Succ
      <3>4. Contents # <<>> /\ out' = Head(Contents)
        BY <3>1, <3>2, RingArithmetic DEF Contents
      <3>5. Contents' = Tail(Contents)
        BY <3>1, <3>2, <3>3 DEF Contents
      <3> QED BY <3>1, <3>4, <3>5 DEF Fifo!Get, Fifo!Next
    <2>4. CASE ClearStore
      <3> DEFINE k == Ahead(seen)
      <3>1. /\ UNCHANGED <<buf, w, val, wpc, out>> /\ r' = seen
            /\ k \in 0..Size-1 /\ k <= Ahead(w)
            /\ rpc = "clear" /\ rpc' = "idle"
        BY <2>4, RingArithmetic, RingParameters
        DEF ClearStore, writer, SideInv, TypeOK, Slots
      <3>2. Ahead(w)' = Ahead(w) - k /\ Ahead(w) \in 0..Size-1
        BY <3>1, RingParameters DEF TypeOK, Slots, Ahead
      <3>3. \A j \in 1..Ahead(w)-k : At(j-1)' = At(j+k-1)
        BY <3>1, <3>2, RingParameters DEF TypeOK, Slots, At, Ahead
      <3>4. Len(Contents) = Ahead(w)
        BY <3>2 DEF Contents
      <3> HIDE DEF k
      <3>5. Contents' = SubSeq(Contents, k + 1, Len(Contents))
        BY <3>1, <3>2, <3>3, <3>4 DEF Contents
      <3> QED BY <3>1, <3>5 DEF Fifo!EndClear, Fifo!Next, k
    <2>5. CASE ClearLoad
      <3>1. /\ UNCHANGED <<buf, r, w, val, wpc, out>> /\ seen' = w
            /\ rpc = "idle" /\ rpc' = "clear"
        BY <2>5 DEF ClearLoad, writer
      <3>2. Contents' = Contents /\ cut' = Ahead(w)
        BY <3>1 DEF Contents, Ahead, At
      <3>3. Len(Contents) = Ahead(w)
        BY RingArithmetic, RingParameters DEF Contents, TypeOK, Slots
      <3> QED BY <3>1, <3>2, <3>3 DEF Fifo!BeginClear, Fifo!Next
    <2>6. CASE ReadBegin \/ ReadLoad \/ UNCHANGED vars
      BY <2>6 DEF ReadBegin, ReadLoad, vars, writer, Contents, Ahead, At
    <2> QED BY <2>0, <2>1, <2>2, <2>3, <2>4, <2>5, <2>6 DEF Next
  <1>3. QED BY <1>1, <1>2, InvCorrect, PTL DEF Spec, ImplementsFifo, Fifo!Spec
=============================================================================
