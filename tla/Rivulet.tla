------------------------------ MODULE Rivulet ------------------------------
(***************************************************************************)
(* The byte stream of src/rivulet: a struct over a caller's buffer, read   *)
(* and written from the front, popped from the tail.  Words are big-endian *)
(* and each is moved one byte at a time, so a word that does not fit is    *)
(* moved in part.  Bytes are digits of base Base (256 in the code).        *)
(***************************************************************************)
EXTENDS Integers

CONSTANTS Alloc, Base, MaxOverruns

ASSUME RivuletParameters ==
  Alloc \in Nat /\ Base \in Nat \ {0, 1} /\ MaxOverruns \in Nat

Bytes == 0..Base-1

(* @pos, @len, @overruns and @eof of the struct, the bytes behind @buf,    *)
(* and the result of the last call.                                        *)
VARIABLE riv

Struct(b, n) ==
  [buf |-> b, len |-> n, pos |-> 0, overruns |-> 0,
   eof |-> IF n > 0 THEN 0 ELSE 1, ret |-> 0]

AtEnd(s) == s.pos + 1 = s.len
Overrun(s) == [s EXCEPT !.overruns = @ + 1]

-----------------------------------------------------------------------------
(* The u8 functions on a struct.  ret collects the word that is being read *)
(* (shifted left by one byte) or counts the bytes written.                 *)

ReadByte(s) ==
  IF s.pos < s.len
    THEN [s EXCEPT !.pos = @ + 1, !.eof = IF AtEnd(s) THEN 1 ELSE @,
                   !.ret = Base * @ + s.buf[s.pos]]
    ELSE [Overrun(s) EXCEPT !.ret = Base * @]

(* Mutant of WriteByte: the bound is the buffer's, not what pop has left.  *)
WriteToAlloc(s, b) ==
  IF s.pos < Alloc
    THEN [s EXCEPT !.pos = @ + 1, !.eof = IF AtEnd(s) THEN 1 ELSE @,
                   !.ret = @ + 1, !.buf[s.pos] = b]
    ELSE Overrun(s)

WriteByte(s, b) ==
  IF s.pos < s.len
    THEN [s EXCEPT !.pos = @ + 1, !.eof = IF AtEnd(s) THEN 1 ELSE @,
                   !.ret = @ + 1, !.buf[s.pos] = b]
    ELSE Overrun(s)

(* Mutant of UnreadByte: the flag is left as it was.                       *)
UnreadKeepsEof(s) ==
  [s EXCEPT !.pos = IF @ > 0 THEN @ - 1 ELSE 0]

UnreadByte(s) ==
  LET p == IF s.pos > 0 THEN s.pos - 1 ELSE 0
  IN  [s EXCEPT !.pos = p, !.eof = IF p < s.len THEN 0 ELSE 1]

PopByte(s) ==
  IF s.pos < s.len
    THEN [s EXCEPT !.len = @ - 1, !.eof = IF AtEnd(s) THEN 1 ELSE @,
                   !.ret = Base * @ + s.buf[s.len - 1]]
    ELSE [Overrun(s) EXCEPT !.ret = Base * @]

(* The u8, u16 and u32 functions. *)
Widths == {1, 2, 4}

Times(n, Op(_), s) ==
  CASE n = 1 -> Op(s)
    [] n = 2 -> Op(Op(s))
    [] n = 4 -> Op(Op(Op(Op(s))))

Fresh(s) == [s EXCEPT !.ret = 0]

(* Mutant of ReadWord: a word that does not fit is one overrun, and no     *)
(* byte of it is read.                                                     *)
ReadAllOrNothing(n, s) ==
  IF s.pos + n <= s.len THEN Times(n, ReadByte, Fresh(s)) ELSE Overrun(Fresh(s))

ReadWord(n, s) == Times(n, ReadByte, Fresh(s))
PopWord(n, s) == Times(n, PopByte, Fresh(s))
UnreadWord(n, s) == Times(n, UnreadByte, Fresh(s))

Low(v) == v % Base
Shift(v) == v \div Base

(* Mutant of WriteWord: the low byte first.                                *)
WriteLittleEndian(n, v, s) ==
  CASE n = 1 -> WriteByte(Fresh(s), v)
    [] n = 2 -> WriteByte(WriteByte(Fresh(s), Low(v)), Low(Shift(v)))
    [] n = 4 -> WriteByte(WriteByte(WriteByte(WriteByte(Fresh(s), Low(v)),
                  Low(Shift(v))), Low(Shift(Shift(v)))),
                  Low(Shift(Shift(Shift(v)))))

WriteWord(n, v, s) ==
  CASE n = 1 -> WriteByte(Fresh(s), v)
    [] n = 2 -> WriteByte(WriteByte(Fresh(s), Low(Shift(v))), Low(v))
    [] n = 4 -> WriteByte(WriteByte(WriteByte(WriteByte(Fresh(s),
                  Low(Shift(Shift(Shift(v))))), Low(Shift(Shift(v)))),
                  Low(Shift(v))), Low(v))

Words(n) ==
  CASE n = 1 -> Bytes
    [] n = 2 -> 0..Base*Base-1
    [] n = 4 -> 0..Base*Base*Base*Base-1

Remaining(s) == s.len - s.pos

-----------------------------------------------------------------------------
(* rivulet_init, of a buffer or of NULL *)
Init ==
  \E b \in [0..Alloc-1 -> Bytes], n \in {0, Alloc} : riv = Struct(b, n)

(* @overruns is a counter; the model stops there. *)
Bounded == riv'.overruns <= MaxOverruns

Read(n) == riv' = ReadWord(n, riv) /\ Bounded
Write(n, v) == riv' = WriteWord(n, v, riv) /\ Bounded
Unread(n) == riv' = UnreadWord(n, riv)
Pop(n) == riv' = PopWord(n, riv) /\ Bounded
Rewind == riv' = Struct(riv.buf, riv.len)

Next ==
  \/ Rewind
  \/ \E n \in Widths : \/ Read(n)
                       \/ Unread(n)
                       \/ Pop(n)
                       \/ \E v \in Words(n) : Write(n, v)

Spec == Init /\ [][Next]_riv

-----------------------------------------------------------------------------
StructType ==
  [buf : [0..Alloc-1 -> Bytes], len : 0..Alloc, pos : Nat, overruns : Nat,
   eof : {0, 1}, ret : Nat]

Good(s) ==
  /\ s \in StructType
  /\ s.pos <= s.len
  /\ s.eof = IF s.pos = s.len THEN 1 ELSE 0

(* The struct never points outside of the buffer it was given, and the end *)
(* of file flag is exactly "nothing left to read, no room left to write"   *)
(* (rivulet.h lines 15-16), although the calls that fail and those that    *)
(* are not at the end do not compute it anew.                              *)
Consistent == Good(riv)

(* A word that was written where it fits, and unread, reads back as the    *)
(* same word and leaves the struct where it was after the write.           *)
RoundTrip ==
  \A n \in Widths : \A v \in Words(n) :
    Remaining(riv) >= n =>
      LET written == WriteWord(n, v, riv)
          again == ReadWord(n, UnreadWord(n, written))
      IN  /\ again.ret = v
          /\ again = [written EXCEPT !.ret = v]

(* What a call of n bytes has moved, and what it has counted. *)
Moved == (riv.len - riv'.len) + (riv'.pos - riv.pos)

Counted ==
  \A n \in Widths :
    Read(n) \/ Pop(n) \/ (\E v \in Words(n) : Write(n, v))
      => Moved + (riv'.overruns - riv.overruns) = n

(* Every byte asked for is either moved or counted in @overruns, also when *)
(* a word fits only in part (rivulet.c lines 61-64, 107-109).              *)
EveryByteCounted == [][Counted]_riv

(* Bytes popped off the tail are out of reach: no later call gives them    *)
(* back or changes them, rewinding included (rivulet.c lines 175-176).     *)
PoppedBytesStay ==
  [][/\ riv'.len <= riv.len
     /\ \A i \in riv.len..Alloc-1 : riv'.buf[i] = riv.buf[i]]_riv
=============================================================================
