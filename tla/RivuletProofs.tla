--------------------------- MODULE RivuletProofs ---------------------------
(***************************************************************************)
(* The byte stream keeps its promises for buffers of any length and bytes  *)
(* of any base.  What a call does to one byte is stated once per function; *)
(* the words follow by composition.                                        *)
(***************************************************************************)
EXTENDS Rivulet, TLAPS

SameBuffer(s, t) == t.buf = s.buf /\ t.len = s.len

(* The fields of a good struct, without the record they make up.           *)
LEMMA Fields ==
  ASSUME NEW s, Good(s)
  PROVE  /\ s.buf \in [0..Alloc-1 -> Bytes]
         /\ s.len \in Nat /\ s.len <= Alloc
         /\ s.pos \in Nat /\ s.pos <= s.len
         /\ s.overruns \in Nat /\ s.ret \in Nat
  BY RivuletParameters DEF Good, StructType

(* The word being read starts at 0; nothing else changes.                  *)
LEMMA FreshByte ==
  ASSUME NEW s, Good(s)
  PROVE  /\ Good(Fresh(s)) /\ SameBuffer(s, Fresh(s))
         /\ Fresh(s).pos = s.pos /\ Fresh(s).overruns = s.overruns
         /\ Fresh(s).ret = 0
  BY DEF Good, Fresh, StructType, SameBuffer

(* The end of file flag after pos has been moved up, or len down, by one.  *)
LEMMA EofFlag ==
  ASSUME NEW s, Good(s), s.pos < s.len
  PROVE  (IF AtEnd(s) THEN 1 ELSE s.eof) = IF s.pos + 1 = s.len THEN 1 ELSE 0
  BY DEF Good, StructType, AtEnd

(* Reading a byte.                                                         *)
LEMMA ReadByteGood ==
  ASSUME NEW s, Good(s)
  PROVE  /\ Good(ReadByte(s)) /\ SameBuffer(s, ReadByte(s))
         /\ ReadByte(s).pos + ReadByte(s).overruns = s.pos + s.overruns + 1
         /\ s.pos < s.len => /\ ReadByte(s).pos = s.pos + 1
                             /\ ReadByte(s).overruns = s.overruns
                             /\ ReadByte(s).ret = Base * s.ret + s.buf[s.pos]
  <1> DEFINE t == ReadByte(s)
             e == IF AtEnd(s) THEN 1 ELSE s.eof
             v == Base * s.ret
  <1>0. s \in StructType
    BY DEF Good
  <1>1. v \in Nat
    BY RivuletParameters DEF Good, StructType
  <1>2. CASE s.pos < s.len
    <2> DEFINE c == s.buf[s.pos]
    <2>1. c \in Nat
      BY <1>2, RivuletParameters DEF Good, StructType, Bytes
    <2>2. e = IF s.pos + 1 = s.len THEN 1 ELSE 0
      BY <1>2, EofFlag
    <2>3. t = [s EXCEPT !.pos = s.pos + 1, !.eof = e, !.ret = v + c]
      BY <1>2 DEF ReadByte
    <2> HIDE DEF t, e, v, c
    <2>a. s.pos + 1 \in Nat /\ e \in {0, 1} /\ v + c \in Nat
      BY <1>0, <1>1, <2>1, <2>2 DEF StructType
    <2>4. /\ t \in StructType /\ t.buf = s.buf /\ t.len = s.len
          /\ t.pos = s.pos + 1 /\ t.eof = e /\ t.ret = v + c
          /\ t.overruns = s.overruns
      BY <1>0, <2>3, <2>a DEF StructType
    <2>5. Good(t) /\ t.pos + t.overruns = s.pos + s.overruns + 1
      BY <1>2, <2>2, <2>4 DEF Good, StructType
    <2> QED BY <2>4, <2>5 DEF t, v, c, SameBuffer
  <1>3. CASE ~ (s.pos < s.len)
    <2>1. t = [s EXCEPT !.overruns = s.overruns + 1, !.ret = v]
      BY <1>3 DEF ReadByte, Overrun, Good, StructType
    <2> HIDE DEF t, v
    <2>a. s.overruns + 1 \in Nat
      BY <1>0 DEF StructType
    <2>2. /\ t \in StructType /\ t.buf = s.buf /\ t.len = s.len
          /\ t.pos = s.pos /\ t.eof = s.eof /\ t.overruns = s.overruns + 1
      BY <1>0, <1>1, <2>1, <2>a DEF StructType
    <2>3. Good(t) /\ t.pos + t.overruns = s.pos + s.overruns + 1
      BY <2>2 DEF Good, StructType
    <2> QED BY <1>3, <2>2, <2>3 DEF t, SameBuffer
  <1> QED BY <1>2, <1>3

(* Popping a byte.                                                         *)
LEMMA PopByteGood ==
  ASSUME NEW s, Good(s)
  PROVE  /\ Good(PopByte(s)) /\ PopByte(s).buf = s.buf
         /\ PopByte(s).pos = s.pos /\ PopByte(s).len <= s.len
         /\ PopByte(s).overruns - PopByte(s).len = s.overruns - s.len + 1
  <1> DEFINE t == PopByte(s)
             e == IF AtEnd(s) THEN 1 ELSE s.eof
             v == Base * s.ret
  <1>0. s \in StructType
    BY DEF Good
  <1>1. v \in Nat
    BY RivuletParameters DEF Good, StructType
  <1>2. CASE s.pos < s.len
    <2> DEFINE c == s.buf[s.len - 1]
    <2>1. c \in Nat
      BY <1>2, RivuletParameters DEF Good, StructType, Bytes
    <2>2. e = IF s.pos = s.len - 1 THEN 1 ELSE 0
      BY <1>2, EofFlag DEF Good, StructType
    <2>3. t = [s EXCEPT !.len = s.len - 1, !.eof = e, !.ret = v + c]
      BY <1>2 DEF PopByte
    <2> HIDE DEF t, e, v, c
    <2>a. s.len - 1 \in 0..Alloc /\ e \in {0, 1} /\ v + c \in Nat
      BY <1>0, <1>1, <1>2, <2>1, <2>2, RivuletParameters DEF StructType
    <2>4. /\ t \in StructType /\ t.buf = s.buf /\ t.len = s.len - 1
          /\ t.pos = s.pos /\ t.eof = e /\ t.overruns = s.overruns
      BY <1>0, <2>3, <2>a DEF StructType
    <2>5. Good(t) /\ t.overruns - t.len = s.overruns - s.len + 1 /\ t.len <= s.len
      BY <1>2, <2>2, <2>4 DEF Good, StructType
    <2> QED BY <2>4, <2>5 DEF t
  <1>3. CASE ~ (s.pos < s.len)
    <2>1. t = [s EXCEPT !.overruns = s.overruns + 1, !.ret = v]
      BY <1>3 DEF PopByte, Overrun, Good, StructType
    <2> HIDE DEF t, v
    <2>a. s.overruns + 1 \in Nat
      BY <1>0 DEF StructType
    <2>2. /\ t \in StructType /\ t.buf = s.buf /\ t.len = s.len
          /\ t.pos = s.pos /\ t.eof = s.eof /\ t.overruns = s.overruns + 1
      BY <1>0, <1>1, <2>1, <2>a DEF StructType
    <2>3. Good(t) /\ t.overruns - t.len = s.overruns - s.len + 1 /\ t.len <= s.len
      BY <2>2 DEF Good, StructType
    <2> QED BY <2>2, <2>3 DEF t
  <1> QED BY <1>2, <1>3

(* Writing a byte.                                                         *)
LEMMA WriteByteGood ==
  ASSUME NEW s, NEW b \in Bytes, Good(s)
  PROVE  /\ Good(WriteByte(s, b)) /\ WriteByte(s, b).len = s.len
         /\ WriteByte(s, b).pos + WriteByte(s, b).overruns
              = s.pos + s.overruns + 1
         /\ s.pos >= s.len => WriteByte(s, b).buf = s.buf
         /\ s.pos < s.len => /\ WriteByte(s, b).pos = s.pos + 1
                             /\ WriteByte(s, b).buf = [s.buf EXCEPT ![s.pos] = b]
                             /\ WriteByte(s, b).overruns = s.overruns
  <1> DEFINE t == WriteByte(s, b)
             e == IF AtEnd(s) THEN 1 ELSE s.eof
             a == [s.buf EXCEPT ![s.pos] = b]
  <1>0. s \in StructType
    BY DEF Good
  <1>1. CASE s.pos < s.len
    <2>1. e = IF s.pos + 1 = s.len THEN 1 ELSE 0
      BY <1>1, EofFlag
    <2>2. a \in [0..Alloc-1 -> Bytes]
      BY DEF Good, StructType
    <2>3. t = [s EXCEPT !.pos = s.pos + 1, !.eof = e, !.ret = s.ret + 1, !.buf = a]
      BY <1>1 DEF WriteByte
    <2> HIDE DEF t, e, a
    <2>a. s.pos + 1 \in Nat /\ e \in {0, 1} /\ s.ret + 1 \in Nat
      BY <1>0, <2>1 DEF StructType
    <2>4. /\ t \in StructType /\ t.buf = a /\ t.len = s.len
          /\ t.pos = s.pos + 1 /\ t.eof = e /\ t.overruns = s.overruns
      BY <1>0, <2>2, <2>3, <2>a DEF StructType
    <2>5. Good(t) /\ t.pos + t.overruns = s.pos + s.overruns + 1
      BY <1>1, <2>1, <2>4 DEF Good, StructType
    <2>6. ~ (s.pos >= s.len)
      BY <1>1 DEF Good, StructType
    <2> QED BY <2>4, <2>5, <2>6 DEF t, a
  <1>2. CASE ~ (s.pos < s.len)
    <2>1. t = [s EXCEPT !.overruns = s.overruns + 1]
      BY <1>2 DEF WriteByte, Overrun
    <2> HIDE DEF t
    <2>2. /\ t \in StructType /\ t.buf = s.buf /\ t.len = s.len
          /\ t.pos = s.pos /\ t.eof = s.eof /\ t.overruns = s.overruns + 1
      BY <2>1 DEF Good, StructType
    <2>3. Good(t) /\ t.pos + t.overruns = s.pos + s.overruns + 1
      BY <2>2 DEF Good, StructType
    <2> QED BY <1>2, <2>2, <2>3 DEF t
  <1> QED BY <1>1, <1>2

(* Going back a byte.                                                      *)
LEMMA UnreadByteGood ==
  ASSUME NEW s, Good(s)
  PROVE  /\ Good(UnreadByte(s)) /\ SameBuffer(s, UnreadByte(s))
         /\ UnreadByte(s).overruns = s.overruns
         /\ s.pos > 0 => UnreadByte(s).pos = s.pos - 1
  <1> DEFINE t == UnreadByte(s)
             p == IF s.pos > 0 THEN s.pos - 1 ELSE 0
             e == IF p < s.len THEN 0 ELSE 1
  <1>1. p \in Nat /\ p <= s.len /\ e = IF p = s.len THEN 1 ELSE 0
    BY DEF Good, StructType
  <1>2. t = [s EXCEPT !.pos = p, !.eof = e]
    BY DEF UnreadByte
  <1> HIDE DEF t, p, e
  <1>3. /\ t \in StructType /\ t.buf = s.buf /\ t.len = s.len
        /\ t.pos = p /\ t.eof = e /\ t.overruns = s.overruns
    BY <1>1, <1>2 DEF Good, StructType
  <1>4. Good(t)
    BY <1>1, <1>3 DEF Good
  <1> QED BY <1>3, <1>4 DEF t, p, SameBuffer

-----------------------------------------------------------------------------
(* The words. *)

(* Reading a word of n bytes.                                              *)
LEMMA ReadWordGood ==
  ASSUME NEW n \in Widths, NEW s, Good(s)
  PROVE  /\ Good(ReadWord(n, s)) /\ SameBuffer(s, ReadWord(n, s))
         /\ ReadWord(n, s).pos + ReadWord(n, s).overruns
              = s.pos + s.overruns + n
  <1> DEFINE f0 == Fresh(s)
             f1 == ReadByte(f0)
             f2 == ReadByte(f1)
             f3 == ReadByte(f2)
             f4 == ReadByte(f3)
  <1>0. Good(f0) /\ SameBuffer(s, f0) /\ f0.pos = s.pos /\ f0.overruns = s.overruns
    BY FreshByte
  <1>1. Good(f1) /\ SameBuffer(f0, f1) /\ f1.pos + f1.overruns = f0.pos + f0.overruns + 1
    BY <1>0, ReadByteGood
  <1>2. Good(f2) /\ SameBuffer(f1, f2) /\ f2.pos + f2.overruns = f1.pos + f1.overruns + 1
    BY <1>1, ReadByteGood
  <1>3. Good(f3) /\ SameBuffer(f2, f3) /\ f3.pos + f3.overruns = f2.pos + f2.overruns + 1
    BY <1>2, ReadByteGood
  <1>4. Good(f4) /\ SameBuffer(f3, f4) /\ f4.pos + f4.overruns = f3.pos + f3.overruns + 1
    BY <1>3, ReadByteGood
  <1>5. ReadWord(n, s) = IF n = 1 THEN f1 ELSE IF n = 2 THEN f2 ELSE f4
    BY DEF ReadWord, Times, Widths
  <1> HIDE DEF f0, f1, f2, f3, f4
  <1>6. \A f \in {s, f0, f1, f2, f3, f4} :
          f.pos \in Nat /\ f.overruns \in Nat /\ f.len \in Nat
    BY <1>0, <1>1, <1>2, <1>3, <1>4, Fields
  <1> QED
    <2>1. CASE n = 1
      BY <1>0, <1>1, <1>5, <1>6, <2>1 DEF SameBuffer
    <2>2. CASE n = 2
      BY <1>0, <1>1, <1>2, <1>5, <1>6, <2>2 DEF SameBuffer
    <2>3. CASE n = 4
      BY <1>0, <1>1, <1>2, <1>3, <1>4, <1>5, <1>6, <2>3 DEF SameBuffer
    <2> QED BY <2>1, <2>2, <2>3 DEF Widths

(* Popping a word of n bytes.                                              *)
LEMMA PopWordGood ==
  ASSUME NEW n \in Widths, NEW s, Good(s)
  PROVE  /\ Good(PopWord(n, s)) /\ PopWord(n, s).buf = s.buf
         /\ PopWord(n, s).pos = s.pos /\ PopWord(n, s).len <= s.len
         /\ PopWord(n, s).overruns - PopWord(n, s).len = s.overruns - s.len + n
  <1> DEFINE f0 == Fresh(s)
             f1 == PopByte(f0)
             f2 == PopByte(f1)
             f3 == PopByte(f2)
             f4 == PopByte(f3)
             Popped(f, g) == /\ Good(g) /\ g.buf = f.buf
                             /\ g.pos = f.pos /\ g.len <= f.len
                             /\ g.overruns - g.len = f.overruns - f.len + 1
  <1>0. Good(f0) /\ SameBuffer(s, f0) /\ f0.pos = s.pos /\ f0.overruns = s.overruns
    BY FreshByte
  <1>1. Popped(f0, f1)
    BY <1>0, PopByteGood
  <1>2. Popped(f1, f2)
    BY <1>1, PopByteGood
  <1>3. Popped(f2, f3)
    BY <1>2, PopByteGood
  <1>4. Popped(f3, f4)
    BY <1>3, PopByteGood
  <1>5. PopWord(n, s) = IF n = 1 THEN f1 ELSE IF n = 2 THEN f2 ELSE f4
    BY DEF PopWord, Times, Widths
  <1> HIDE DEF f0, f1, f2, f3, f4
  <1>6. \A f \in {s, f0, f1, f2, f3, f4} :
          f.pos \in Nat /\ f.overruns \in Nat /\ f.len \in Nat
    BY <1>0, <1>1, <1>2, <1>3, <1>4, Fields
  <1> QED
    <2>1. CASE n = 1
      BY <1>0, <1>1, <1>5, <1>6, <2>1 DEF SameBuffer
    <2>2. CASE n = 2
      BY <1>0, <1>1, <1>2, <1>5, <1>6, <2>2 DEF SameBuffer
    <2>3. CASE n = 4
      BY <1>0, <1>1, <1>2, <1>3, <1>4, <1>5, <1>6, <2>3 DEF SameBuffer
    <2> QED BY <2>1, <2>2, <2>3 DEF Widths

(* Going back a word of n bytes.                                           *)
LEMMA UnreadWordGood ==
  ASSUME NEW n \in Widths, NEW s, Good(s)
  PROVE  /\ Good(UnreadWord(n, s)) /\ SameBuffer(s, UnreadWord(n, s))
         /\ UnreadWord(n, s).overruns = s.overruns
         /\ s.pos >= n => UnreadWord(n, s).pos = s.pos - n
  <1> DEFINE f0 == Fresh(s)
             f1 == UnreadByte(f0)
             f2 == UnreadByte(f1)
             f3 == UnreadByte(f2)
             f4 == UnreadByte(f3)
             Back(f, g) == /\ Good(g) /\ SameBuffer(f, g)
                           /\ g.overruns = f.overruns
                           /\ f.pos > 0 => g.pos = f.pos - 1
  <1>0. Good(f0) /\ SameBuffer(s, f0) /\ f0.pos = s.pos /\ f0.overruns = s.overruns
    BY FreshByte
  <1>1. Back(f0, f1)
    BY <1>0, UnreadByteGood
  <1>2. Back(f1, f2)
    BY <1>1, UnreadByteGood
  <1>3. Back(f2, f3)
    BY <1>2, UnreadByteGood
  <1>4. Back(f3, f4)
    BY <1>3, UnreadByteGood
  <1>5. UnreadWord(n, s) = IF n = 1 THEN f1 ELSE IF n = 2 THEN f2 ELSE f4
    BY DEF UnreadWord, Times, Widths
  <1> HIDE DEF f0, f1, f2, f3, f4
  <1>6. \A f \in {s, f0, f1, f2, f3, f4} :
          f.pos \in Nat /\ f.overruns \in Nat /\ f.len \in Nat
    BY <1>0, <1>1, <1>2, <1>3, <1>4, Fields
  <1> QED
    <2>1. CASE n = 1
      BY <1>0, <1>1, <1>5, <1>6, <2>1 DEF SameBuffer
    <2>2. CASE n = 2
      BY <1>0, <1>1, <1>2, <1>5, <1>6, <2>2 DEF SameBuffer
    <2>3. CASE n = 4
      BY <1>0, <1>1, <1>2, <1>3, <1>4, <1>5, <1>6, <2>3 DEF SameBuffer
    <2> QED BY <2>1, <2>2, <2>3 DEF Widths

(* The bytes of a word are digits of the base, and the word is their value. *)
LEMMA Digit ==
  ASSUME NEW v \in Nat
  PROVE  Low(v) \in Bytes /\ Shift(v) \in Nat /\ v = Base * Shift(v) + Low(v)
  BY RivuletParameters DEF Low, Shift, Bytes

(* What writing k bytes does, whether they fit or not.                     *)
Wrote(k, f, g) ==
  /\ Good(g) /\ g.len = f.len
  /\ g.pos + g.overruns = f.pos + f.overruns + k
  /\ f.pos <= g.pos
  /\ \A i \in 0..Alloc-1 : i < f.pos \/ f.len <= i => g.buf[i] = f.buf[i]

LEMMA WriteByteWrote ==
  ASSUME NEW s, NEW b \in Bytes, Good(s)
  PROVE  Wrote(1, s, WriteByte(s, b))
  <1>1. /\ Good(WriteByte(s, b)) /\ WriteByte(s, b).len = s.len
        /\ WriteByte(s, b).pos + WriteByte(s, b).overruns = s.pos + s.overruns + 1
    BY WriteByteGood
  <1> DEFINE g == WriteByte(s, b)
  <1>2. s.pos < s.len => g.pos = s.pos + 1 /\ g.buf = [s.buf EXCEPT ![s.pos] = b]
    BY WriteByteGood
  <1>3. s.pos >= s.len => g.buf = s.buf /\ g.pos = s.pos
    <2> SUFFICES ASSUME s.pos >= s.len PROVE g.buf = s.buf /\ g.pos = s.pos
      OBVIOUS
    <2>1. s \in StructType /\ g = [s EXCEPT !.overruns = s.overruns + 1]
      BY Fields DEF WriteByte, Overrun, Good
    <2> QED BY <2>1 DEF StructType
  <1>4. /\ s.buf \in [0..Alloc-1 -> Bytes] /\ Alloc \in Nat
        /\ s.pos \in Nat /\ s.len \in Nat
    BY Fields, RivuletParameters
  <1> HIDE DEF g
  <1>5. s.pos <= g.pos
    BY <1>2, <1>3, <1>4
  <1>6. ASSUME NEW i \in 0..Alloc-1, i < s.pos \/ s.len <= i
        PROVE  g.buf[i] = s.buf[i]
    BY <1>2, <1>3, <1>4, <1>6
  <1> QED BY <1>1, <1>5, <1>6 DEF Wrote, g

(* Writing j bytes and then k bytes writes j + k bytes.                    *)
LEMMA WroteMore ==
  ASSUME NEW f, NEW g, NEW h, NEW j \in Nat, NEW k \in Nat,
         Good(f), Wrote(j, f, g), Wrote(k, g, h)
  PROVE  Wrote(j + k, f, h)
  <1>1. Good(g) /\ Good(h) /\ g.len = f.len /\ h.len = g.len
    BY DEF Wrote
  <1>2. /\ f.pos \in Nat /\ g.pos \in Nat /\ h.pos \in Nat
        /\ f.overruns \in Nat /\ g.overruns \in Nat /\ h.overruns \in Nat
        /\ f.len \in Nat /\ Alloc \in Nat
    BY <1>1, Fields, RivuletParameters
  <1>3. h.pos + h.overruns = f.pos + f.overruns + (j + k) /\ f.pos <= h.pos
    BY <1>2 DEF Wrote
  <1>4. ASSUME NEW i \in 0..Alloc-1, i < f.pos \/ f.len <= i
        PROVE  h.buf[i] = f.buf[i]
    BY <1>1, <1>2, <1>4 DEF Wrote
  <1> QED BY <1>1, <1>3, <1>4 DEF Wrote

(* The bytes that WriteWord writes one after the other.                    *)
LEMMA WordBytes ==
  ASSUME NEW n \in Widths, NEW v \in Words(n)
  PROVE  /\ v \in Nat
         /\ n = 1 => v \in Bytes
         /\ Low(v) \in Bytes /\ Low(Shift(v)) \in Bytes
         /\ Low(Shift(Shift(v))) \in Bytes /\ Low(Shift(Shift(Shift(v)))) \in Bytes
  <1>1. v \in Nat /\ (n = 1 => v \in Bytes)
    BY RivuletParameters DEF Words, Widths, Bytes
  <1> QED BY <1>1, Digit

(* Writing a word of n bytes.                                              *)
LEMMA WriteWordGood ==
  ASSUME NEW n \in Widths, NEW v \in Words(n), NEW s, Good(s)
  PROVE  Wrote(n, Fresh(s), WriteWord(n, v, s))
  <1> DEFINE f0 == Fresh(s)
             c0 == Low(v)
             c1 == Low(Shift(v))
             c2 == Low(Shift(Shift(v)))
             c3 == Low(Shift(Shift(Shift(v))))
  <1>0. Good(f0)
    BY FreshByte
  <1>1. c0 \in Bytes /\ c1 \in Bytes /\ c2 \in Bytes /\ c3 \in Bytes
    BY WordBytes
  <1>2. CASE n = 1
    <2>1. WriteWord(n, v, s) = WriteByte(f0, v) /\ v \in Bytes
      BY <1>2, WordBytes DEF WriteWord
    <2> QED BY <1>0, <1>2, <2>1, WriteByteWrote
  <1>3. CASE n = 2
    <2> DEFINE f1 == WriteByte(f0, c1)
               f2 == WriteByte(f1, c0)
    <2>1. WriteWord(n, v, s) = f2
      BY <1>3 DEF WriteWord
    <2> HIDE DEF c0, c1
    <2>2. Wrote(1, f0, f1)
      BY <1>0, <1>1, WriteByteWrote
    <2>3. Wrote(1, f1, f2)
      BY <1>1, <2>2, WriteByteWrote DEF Wrote
    <2>4. Wrote(1 + 1, f0, f2)
      BY <1>0, <2>2, <2>3, WroteMore
    <2> QED BY <1>3, <2>1, <2>4
  <1>4. CASE n = 4
    <2> DEFINE f1 == WriteByte(f0, c3)
               f2 == WriteByte(f1, c2)
               f3 == WriteByte(f2, c1)
               f4 == WriteByte(f3, c0)
    <2>1. WriteWord(n, v, s) = f4
      BY <1>4 DEF WriteWord
    <2> HIDE DEF c0, c1, c2, c3
    <2>2. Wrote(1, f0, f1)
      BY <1>0, <1>1, WriteByteWrote
    <2>3. Wrote(1, f1, f2)
      BY <1>1, <2>2, WriteByteWrote DEF Wrote
    <2>4. Wrote(1, f2, f3)
      BY <1>1, <2>3, WriteByteWrote DEF Wrote
    <2>5. Wrote(1, f3, f4)
      BY <1>1, <2>4, WriteByteWrote DEF Wrote
    <2>6. Wrote(1 + 1, f0, f2) /\ Wrote(1 + 1, f2, f4) /\ Good(f2)
      BY <1>0, <2>2, <2>3, <2>4, <2>5, WroteMore DEF Wrote
    <2> HIDE DEF f1, f2, f3, f4
    <2>7. Wrote(2 + 2, f0, f4)
      BY <1>0, <2>6, WroteMore
    <2> QED BY <1>4, <2>1, <2>7
  <1> QED BY <1>2, <1>3, <1>4 DEF Widths

-----------------------------------------------------------------------------
(* The struct is consistent at every call: pos never passes len, len never *)
(* passes the buffer, and eof says exactly whether they have met.          *)
THEOREM StructConsistent == Spec => []Consistent
  <1>1. Init => Consistent
    BY RivuletParameters DEF Init, Consistent, Good, StructType, Struct
  <1>2. Consistent /\ [Next]_riv => Consistent'
    <2> SUFFICES ASSUME Good(riv), [Next]_riv PROVE Good(riv')
      BY DEF Consistent
    <2>1. ASSUME NEW n \in Widths, Read(n) PROVE Good(riv')
      BY <2>1, ReadWordGood DEF Read
    <2>2. ASSUME NEW n \in Widths, NEW v \in Words(n), Write(n, v) PROVE Good(riv')
      BY <2>2, WriteWordGood DEF Write, Wrote
    <2>3. ASSUME NEW n \in Widths, Unread(n) PROVE Good(riv')
      BY <2>3, UnreadWordGood DEF Unread
    <2>4. ASSUME NEW n \in Widths, Pop(n) PROVE Good(riv')
      BY <2>4, PopWordGood DEF Pop
    <2>5. CASE Rewind
      BY <2>5 DEF Rewind, Struct, Good, StructType
    <2> QED BY <2>1, <2>2, <2>3, <2>4, <2>5 DEF Next
  <1> QED BY <1>1, <1>2, PTL DEF Spec

(* Every byte of every call is moved or counted as an overrun.             *)
THEOREM BytesCounted == Spec => EveryByteCounted
  <1>1. ASSUME Consistent, Consistent' PROVE Counted
    <2>1. \A f \in {riv, riv'} :
            f.pos \in Nat /\ f.overruns \in Nat /\ f.len \in Nat
      BY <1>1, Fields DEF Consistent
    <2> SUFFICES ASSUME NEW n \in Widths,
                        Read(n) \/ Pop(n) \/ (\E v \in Words(n) : Write(n, v))
                 PROVE  Moved + (riv'.overruns - riv.overruns) = n
      BY DEF Counted
    <2>2. n \in Nat
      BY DEF Widths
    <2>3. CASE Read(n)
      <3>1. /\ riv'.len = riv.len
            /\ riv'.pos + riv'.overruns = riv.pos + riv.overruns + n
        BY <1>1, <2>3, ReadWordGood DEF Read, Consistent, SameBuffer
      <3> QED BY <2>1, <2>2, <3>1 DEF Moved
    <2>4. CASE Pop(n)
      <3>1. /\ riv'.pos = riv.pos
            /\ riv'.overruns - riv'.len = riv.overruns - riv.len + n
        BY <1>1, <2>4, PopWordGood DEF Pop, Consistent
      <3> QED BY <2>1, <2>2, <3>1 DEF Moved
    <2>5. ASSUME NEW v \in Words(n), Write(n, v)
          PROVE  Moved + (riv'.overruns - riv.overruns) = n
      <3>1. /\ riv'.len = riv.len
            /\ riv'.pos + riv'.overruns = riv.pos + riv.overruns + n
        BY <1>1, <2>5, WriteWordGood, FreshByte
        DEF Write, Wrote, Consistent, SameBuffer
      <3> QED BY <2>1, <2>2, <3>1 DEF Moved
    <2> QED BY <2>3, <2>4, <2>5
  <1> QED BY <1>1, StructConsistent, PTL DEF EveryByteCounted

(* Popped bytes are out of reach for good.                                 *)
THEOREM PoppedStay == Spec => PoppedBytesStay
  <1> DEFINE Stay == /\ riv'.len <= riv.len
                     /\ \A i \in riv.len..Alloc-1 : riv'.buf[i] = riv.buf[i]
  <1>1. ASSUME Consistent, [Next]_riv PROVE Stay
    <2>0. riv.len \in Nat
      BY <1>1, Fields DEF Consistent
    <2>1. ASSUME NEW n \in Widths, Read(n) PROVE Stay
      BY <1>1, <2>0, <2>1, ReadWordGood DEF Read, SameBuffer, Consistent
    <2>2. ASSUME NEW n \in Widths, NEW v \in Words(n), Write(n, v) PROVE Stay
      <3>1. Wrote(n, Fresh(riv), riv') /\ SameBuffer(riv, Fresh(riv))
        BY <1>1, <2>2, WriteWordGood, FreshByte DEF Write, Consistent
      <3> QED BY <2>0, <3>1, RivuletParameters DEF Wrote, SameBuffer
    <2>3. ASSUME NEW n \in Widths, Unread(n) PROVE Stay
      BY <1>1, <2>0, <2>3, UnreadWordGood DEF Unread, SameBuffer, Consistent
    <2>4. ASSUME NEW n \in Widths, Pop(n) PROVE Stay
      BY <1>1, <2>4, PopWordGood DEF Pop, Consistent
    <2>5. CASE Rewind
      BY <2>0, <2>5 DEF Rewind, Struct
    <2>6. CASE riv' = riv
      BY <2>0, <2>6
    <2> QED BY <1>1, <2>1, <2>2, <2>3, <2>4, <2>5, <2>6 DEF Next
  <1> QED BY <1>1, StructConsistent, PTL DEF Spec, PoppedBytesStay

-----------------------------------------------------------------------------
(* A word that was written reads back. *)

(* Dropping the last digit divides a bound of the form Base * m by Base.   *)
LEMMA ShiftBound ==
  ASSUME NEW m \in Nat, NEW v \in 0..Base*m-1
  PROVE  Shift(v) \in 0..m-1
  <1> DEFINE q == Shift(v)
             c == Low(v)
             bm == Base * m
             bq == Base * q
  <1>1. v \in Nat /\ bm \in Nat /\ v < bm
    BY RivuletParameters
  <1>2. q \in Nat /\ c \in Nat /\ bq \in Nat /\ v = bq + c
    BY <1>1, Digit, RivuletParameters DEF Bytes
  <1>3. bq < bm
    <2> HIDE DEF bq, bm, c
    <2> QED BY <1>1, <1>2
  <1>4. \A a \in Nat : a >= m => Base * a >= Base * m
    BY RivuletParameters
  <1>5. ~ (q >= m)
    <2>1. q >= m => bq >= bm
      BY <1>2, <1>4
    <2> HIDE DEF q, bq, bm
    <2> QED BY <1>1, <1>2, <1>3, <2>1
  <1> HIDE DEF q
  <1>6. q \in 0..m-1
    BY <1>2, <1>5
  <1> QED BY <1>6 DEF q

(* The value of a word, from its first byte to its last.                   *)
LEMMA WordValue ==
  ASSUME NEW n \in Widths, NEW v \in Words(n)
  PROVE  LET c0 == Low(v)
             c1 == Low(Shift(v))
             c2 == Low(Shift(Shift(v)))
             c3 == Low(Shift(Shift(Shift(v))))
         IN  /\ n = 2 => v = Base * c1 + c0
             /\ n = 4 => v = Base * (Base * (Base * c3 + c2) + c1) + c0
  <1> DEFINE q1 == Shift(v)
             q2 == Shift(q1)
             q3 == Shift(q2)
  <1>1. v \in Nat
    BY WordBytes
  <1>2. q1 \in Nat /\ v = Base * q1 + Low(v)
    BY <1>1, Digit
  <1>3. q2 \in Nat /\ q1 = Base * q2 + Low(q1)
    BY <1>2, Digit
  <1>4. q3 \in Nat /\ q2 = Base * q3 + Low(q2)
    BY <1>3, Digit
  <1>5. \A x \in Bytes : Low(x) = x
    BY RivuletParameters DEF Low, Bytes
  <1>6. ASSUME n = 2 PROVE Low(q1) = q1
    <2>1. v \in 0..Base*Base-1
      BY <1>6 DEF Words
    <2>2. q1 \in Bytes
      BY <2>1, ShiftBound, RivuletParameters DEF Bytes
    <2> QED BY <1>5, <2>2
  <1>7. ASSUME n = 4 PROVE Low(q3) = q3
    <2>1. v \in 0..Base*(Base*(Base*Base))-1
      BY <1>7, RivuletParameters DEF Words
    <2>2. q1 \in 0..Base*(Base*Base)-1
      BY <2>1, ShiftBound, RivuletParameters
    <2>3. q2 \in 0..Base*Base-1
      BY <2>2, ShiftBound, RivuletParameters
    <2>4. q3 \in Bytes
      BY <2>3, ShiftBound, RivuletParameters DEF Bytes
    <2> QED BY <1>5, <2>4
  <1> HIDE DEF q1, q2, q3
  <1>8. n = 2 => v = Base * Low(q1) + Low(v)
    BY <1>2, <1>6
  <1>9. n = 4 => v = Base * (Base * (Base * Low(q3) + Low(q2)) + Low(q1)) + Low(v)
    BY <1>2, <1>3, <1>4, <1>7
  <1> QED BY <1>8, <1>9 DEF q1, q2, q3

(* Where f is and what is in its buffer, with k bytes to go in it.         *)
Room(k, f) == Good(f) /\ f.len - f.pos >= k

(* A byte that fits is stored where f stands and nothing else changes.     *)
LEMMA WriteFits ==
  ASSUME NEW f, NEW b \in Bytes, NEW k \in Nat, Room(k + 1, f)
  PROVE  LET g == WriteByte(f, b)
         IN  /\ Room(k, g) /\ g.len = f.len /\ g.overruns = f.overruns
             /\ g.pos = f.pos + 1
             /\ g.buf[f.pos] = b
             /\ \A i \in 0..f.pos-1 : g.buf[i] = f.buf[i]
  <1> DEFINE g == WriteByte(f, b)
  <1>1. /\ f.buf \in [0..Alloc-1 -> Bytes] /\ Alloc \in Nat
        /\ f.len \in Nat /\ f.len <= Alloc /\ f.pos \in Nat
    BY Fields, RivuletParameters DEF Room
  <1>2. f.pos < f.len
    BY <1>1 DEF Room
  <1>3. /\ Good(g) /\ g.len = f.len /\ g.overruns = f.overruns
        /\ g.pos = f.pos + 1 /\ g.buf = [f.buf EXCEPT ![f.pos] = b]
    BY <1>2, WriteByteGood DEF Room
  <1> HIDE DEF g
  <1>4. Room(k, g)
    BY <1>1, <1>3 DEF Room
  <1>5. g.buf[f.pos] = b /\ \A i \in 0..f.pos-1 : g.buf[i] = f.buf[i]
    BY <1>1, <1>2, <1>3
  <1> QED BY <1>3, <1>4, <1>5 DEF g

(* A byte that is there is read into the word.                             *)
LEMMA ReadFits ==
  ASSUME NEW f, NEW k \in Nat, Room(k + 1, f)
  PROVE  LET g == ReadByte(f)
         IN  /\ Room(k, g) /\ SameBuffer(f, g) /\ g.overruns = f.overruns
             /\ g.pos = f.pos + 1 /\ g.ret = Base * f.ret + f.buf[f.pos]
  <1> DEFINE g == ReadByte(f)
  <1>1. f.len \in Nat /\ f.pos \in Nat
    BY Fields DEF Room
  <1>2. f.pos < f.len
    BY <1>1 DEF Room
  <1>3. /\ Good(g) /\ SameBuffer(f, g) /\ g.overruns = f.overruns
        /\ g.pos = f.pos + 1 /\ g.ret = Base * f.ret + f.buf[f.pos]
    BY <1>2, ReadByteGood DEF Room
  <1> HIDE DEF g
  <1>4. Room(k, g)
    BY <1>1, <1>3 DEF Room, SameBuffer
  <1> QED BY <1>3, <1>4 DEF g

(* The buffer holds the word v of n bytes at p.                            *)
Holds(n, v, b, p) ==
  /\ n = 1 => b[p] = v
  /\ n = 2 => b[p] = Low(Shift(v)) /\ b[p + 1] = Low(v)
  /\ n = 4 => /\ b[p] = Low(Shift(Shift(Shift(v))))
              /\ b[p + 1] = Low(Shift(Shift(v)))
              /\ b[p + 2] = Low(Shift(v))
              /\ b[p + 3] = Low(v)

(* A word that fits is in the buffer after it was written.                 *)
LEMMA WriteWordFits ==
  ASSUME NEW n \in Widths, NEW v \in Words(n), NEW s, Room(n, s)
  PROVE  LET g == WriteWord(n, v, s)
         IN  /\ Good(g) /\ g.len = s.len /\ g.overruns = s.overruns
             /\ g.pos = s.pos + n /\ Holds(n, v, g.buf, s.pos)
  <1> DEFINE f0 == Fresh(s)
             p == s.pos
             c0 == Low(v)
             c1 == Low(Shift(v))
             c2 == Low(Shift(Shift(v)))
             c3 == Low(Shift(Shift(Shift(v))))
  <1>0. /\ Room(n, f0) /\ f0.len = s.len /\ f0.pos = p
        /\ f0.overruns = s.overruns /\ p \in Nat
    BY FreshByte, Fields DEF Room, SameBuffer
  <1>1. c0 \in Bytes /\ c1 \in Bytes /\ c2 \in Bytes /\ c3 \in Bytes
    BY WordBytes
  <1>2. CASE n = 1
    <2>1. WriteWord(n, v, s) = WriteByte(f0, v) /\ v \in Bytes
      BY <1>2, WordBytes DEF WriteWord
    <2>2. Room(0 + 1, f0)
      BY <1>0, <1>2
    <2> QED BY <1>0, <1>2, <2>1, <2>2, WriteFits DEF Holds, Room
  <1>3. CASE n = 2
    <2> DEFINE f1 == WriteByte(f0, c1)
               f2 == WriteByte(f1, c0)
    <2>1. WriteWord(n, v, s) = f2
      BY <1>3 DEF WriteWord
    <2>a. Room(1 + 1, f0)
      BY <1>0, <1>3
    <2> HIDE DEF f0, c0, c1
    <2>2. /\ Room(0 + 1, f1) /\ f1.len = f0.len /\ f1.overruns = f0.overruns
          /\ f1.pos = f0.pos + 1 /\ f1.buf[f0.pos] = c1
      BY <1>1, <2>a, WriteFits
    <2>3. /\ Room(0, f2) /\ f2.len = f1.len /\ f2.overruns = f1.overruns
          /\ f2.pos = f1.pos + 1 /\ f2.buf[f1.pos] = c0
          /\ \A i \in 0..f1.pos-1 : f2.buf[i] = f1.buf[i]
      BY <1>1, <2>2, WriteFits
    <2> HIDE DEF f1, f2, p
    <2>4. f2.pos = p + 2 /\ f2.buf[p] = c1 /\ f2.buf[p + 1] = c0
      BY <1>0, <2>2, <2>3
    <2> QED BY <1>0, <1>3, <2>1, <2>2, <2>3, <2>4 DEF Holds, Room, p, c0, c1
  <1>4. CASE n = 4
    <2> DEFINE f1 == WriteByte(f0, c3)
               f2 == WriteByte(f1, c2)
               f3 == WriteByte(f2, c1)
               f4 == WriteByte(f3, c0)
    <2>1. WriteWord(n, v, s) = f4
      BY <1>4 DEF WriteWord
    <2>a. Room(3 + 1, f0)
      BY <1>0, <1>4
    <2> HIDE DEF f0, c0, c1, c2, c3
    <2>2. /\ Room(2 + 1, f1) /\ f1.len = f0.len /\ f1.overruns = f0.overruns
          /\ f1.pos = f0.pos + 1 /\ f1.buf[f0.pos] = c3
      BY <1>1, <2>a, WriteFits
    <2>3. /\ Room(1 + 1, f2) /\ f2.len = f1.len /\ f2.overruns = f1.overruns
          /\ f2.pos = f1.pos + 1 /\ f2.buf[f1.pos] = c2
          /\ \A i \in 0..f1.pos-1 : f2.buf[i] = f1.buf[i]
      BY <1>1, <2>2, WriteFits
    <2>4. /\ Room(0 + 1, f3) /\ f3.len = f2.len /\ f3.overruns = f2.overruns
          /\ f3.pos = f2.pos + 1 /\ f3.buf[f2.pos] = c1
          /\ \A i \in 0..f2.pos-1 : f3.buf[i] = f2.buf[i]
      BY <1>1, <2>3, WriteFits
    <2>5. /\ Room(0, f4) /\ f4.len = f3.len /\ f4.overruns = f3.overruns
          /\ f4.pos = f3.pos + 1 /\ f4.buf[f3.pos] = c0
          /\ \A i \in 0..f3.pos-1 : f4.buf[i] = f3.buf[i]
      BY <1>1, <2>4, WriteFits
    <2> HIDE DEF f1, f2, f3, f4, p
    <2>6. f2.pos = p + 2 /\ f2.buf[p] = c3 /\ f2.buf[p + 1] = c2
      BY <1>0, <2>2, <2>3
    <2>7. f3.pos = p + 3 /\ f3.buf[p] = c3 /\ f3.buf[p + 1] = c2 /\ f3.buf[p + 2] = c1
      BY <1>0, <2>6, <2>4
    <2>8. /\ f4.pos = p + 4 /\ f4.buf[p] = c3 /\ f4.buf[p + 1] = c2
          /\ f4.buf[p + 2] = c1 /\ f4.buf[p + 3] = c0
      BY <1>0, <2>7, <2>5
    <2> QED
      BY <1>0, <1>4, <2>1, <2>2, <2>3, <2>4, <2>5, <2>8
      DEF Holds, Room, p, c0, c1, c2, c3
  <1> QED BY <1>2, <1>3, <1>4 DEF Widths

(* A word that the buffer holds where s stands is what is read.            *)
LEMMA ReadWordFits ==
  ASSUME NEW n \in Widths, NEW v \in Words(n), NEW s, Room(n, s),
         Holds(n, v, s.buf, s.pos)
  PROVE  LET g == ReadWord(n, s)
         IN  /\ Good(g) /\ SameBuffer(s, g) /\ g.overruns = s.overruns
             /\ g.pos = s.pos + n /\ g.ret = v
  <1> DEFINE f0 == Fresh(s)
             f1 == ReadByte(f0)
             f2 == ReadByte(f1)
             f3 == ReadByte(f2)
             f4 == ReadByte(f3)
             p == s.pos
             c0 == Low(v)
             c1 == Low(Shift(v))
             c2 == Low(Shift(Shift(v)))
             c3 == Low(Shift(Shift(Shift(v))))
  <1>0. /\ Room(n, f0) /\ SameBuffer(s, f0) /\ f0.pos = p /\ p \in Nat
        /\ f0.overruns = s.overruns /\ f0.ret = 0
    BY FreshByte, Fields DEF Room, SameBuffer
  <1>1. /\ c0 \in Nat /\ c1 \in Nat /\ c2 \in Nat /\ c3 \in Nat /\ v \in Nat
    BY WordBytes, RivuletParameters DEF Bytes
  <1>2. /\ n = 2 => v = Base * c1 + c0
        /\ n = 4 => v = Base * (Base * (Base * c3 + c2) + c1) + c0
    BY WordValue
  <1>3. CASE n = 1
    <2>1. ReadWord(n, s) = f1
      BY <1>3 DEF ReadWord, Times
    <2>2. Room(0 + 1, f0)
      BY <1>0, <1>3
    <2> HIDE DEF f0
    <2>3. /\ Room(0, f1) /\ SameBuffer(f0, f1) /\ f1.overruns = f0.overruns
          /\ f1.pos = f0.pos + 1 /\ f1.ret = Base * f0.ret + f0.buf[f0.pos]
      BY <2>2, ReadFits
    <2>4. Base * f0.ret + f0.buf[f0.pos] = v
      BY <1>0, <1>1, <1>3, RivuletParameters DEF Holds, SameBuffer
    <2> QED BY <1>0, <1>3, <2>1, <2>3, <2>4 DEF Room, SameBuffer
  <1>4. CASE n = 2
    <2>1. ReadWord(n, s) = f2
      BY <1>4 DEF ReadWord, Times
    <2>2. Room(1 + 1, f0)
      BY <1>0, <1>4
    <2> HIDE DEF f0
    <2>3. /\ Room(0 + 1, f1) /\ SameBuffer(f0, f1) /\ f1.overruns = f0.overruns
          /\ f1.pos = f0.pos + 1 /\ f1.ret = Base * f0.ret + f0.buf[f0.pos]
      BY <2>2, ReadFits
    <2> HIDE DEF f1
    <2>4. /\ Room(0, f2) /\ SameBuffer(f1, f2) /\ f2.overruns = f1.overruns
          /\ f2.pos = f1.pos + 1 /\ f2.ret = Base * f1.ret + f1.buf[f1.pos]
      BY <2>3, ReadFits
    <2>5. f0.buf[f0.pos] = c1 /\ f1.buf[f1.pos] = c0
      BY <1>0, <1>4, <2>3 DEF Holds, SameBuffer
    <2> HIDE DEF f2, c0, c1, p
    <2>6. f1.ret = c1
      BY <1>0, <1>1, <2>3, <2>5, RivuletParameters
    <2>7. f2.ret = v /\ f2.pos = p + 2
      BY <1>0, <1>2, <1>4, <2>3, <2>4, <2>5, <2>6
    <2> QED BY <1>0, <1>4, <2>1, <2>3, <2>4, <2>7 DEF Room, SameBuffer, p
  <1>5. CASE n = 4
    <2>1. ReadWord(n, s) = f4
      BY <1>5 DEF ReadWord, Times
    <2>2. Room(3 + 1, f0)
      BY <1>0, <1>5
    <2> HIDE DEF f0
    <2>3. /\ Room(2 + 1, f1) /\ SameBuffer(f0, f1) /\ f1.overruns = f0.overruns
          /\ f1.pos = f0.pos + 1 /\ f1.ret = Base * f0.ret + f0.buf[f0.pos]
      BY <2>2, ReadFits
    <2> HIDE DEF f1
    <2>4. /\ Room(1 + 1, f2) /\ SameBuffer(f1, f2) /\ f2.overruns = f1.overruns
          /\ f2.pos = f1.pos + 1 /\ f2.ret = Base * f1.ret + f1.buf[f1.pos]
      BY <2>3, ReadFits
    <2> HIDE DEF f2
    <2>5. /\ Room(0 + 1, f3) /\ SameBuffer(f2, f3) /\ f3.overruns = f2.overruns
          /\ f3.pos = f2.pos + 1 /\ f3.ret = Base * f2.ret + f2.buf[f2.pos]
      BY <2>4, ReadFits
    <2> HIDE DEF f3
    <2>6. /\ Room(0, f4) /\ SameBuffer(f3, f4) /\ f4.overruns = f3.overruns
          /\ f4.pos = f3.pos + 1 /\ f4.ret = Base * f3.ret + f3.buf[f3.pos]
      BY <2>5, ReadFits
    <2> HIDE DEF f4, c0, c1, c2, c3
    <2>7. f1.pos = p + 1 /\ f2.pos = p + 2 /\ f3.pos = p + 3 /\ f4.pos = p + 4
      BY <1>0, <2>3, <2>4, <2>5, <2>6
    <2>8. /\ f0.buf[f0.pos] = c3 /\ f1.buf[f1.pos] = c2
          /\ f2.buf[f2.pos] = c1 /\ f3.buf[f3.pos] = c0
      BY <1>0, <1>5, <2>3, <2>4, <2>5, <2>7
      DEF Holds, SameBuffer, c0, c1, c2, c3
    <2>9. f1.ret = c3
      BY <1>0, <1>1, <2>3, <2>8, RivuletParameters
    <2>10. f4.ret = v
      BY <1>2, <1>5, <2>4, <2>5, <2>6, <2>8, <2>9
    <2> QED
      BY <1>0, <1>5, <2>1, <2>3, <2>4, <2>5, <2>6, <2>7, <2>10
      DEF Room, SameBuffer
  <1> QED BY <1>3, <1>4, <1>5 DEF Widths

(* Two structs that agree on everything but eof agree on that, too.        *)
LEMMA SameStruct ==
  ASSUME NEW f, NEW g, Good(f), Good(g), SameBuffer(f, g),
         f.pos = g.pos, f.overruns = g.overruns
  PROVE  g = [f EXCEPT !.ret = g.ret]
  <1>1. f.eof = g.eof /\ f.buf = g.buf /\ f.len = g.len
    BY DEF Good, SameBuffer
  <1>2. f \in StructType /\ g \in StructType
    BY DEF Good
  <1> QED BY <1>1, <1>2 DEF StructType

(* What is written where it fits, and unread, reads back.                  *)
THEOREM WordsRoundTrip == Spec => []RoundTrip
  <1>1. Consistent => RoundTrip
    <2> SUFFICES ASSUME Good(riv), NEW n \in Widths, NEW v \in Words(n),
                        Remaining(riv) >= n
                 PROVE  LET g == WriteWord(n, v, riv)
                            h == ReadWord(n, UnreadWord(n, g))
                        IN  h.ret = v /\ h = [g EXCEPT !.ret = v]
      BY DEF Consistent, RoundTrip
    <2> DEFINE g == WriteWord(n, v, riv)
               u == UnreadWord(n, g)
               h == ReadWord(n, u)
    <2>1. /\ Good(g) /\ g.len = riv.len /\ g.overruns = riv.overruns
          /\ g.pos = riv.pos + n /\ Holds(n, v, g.buf, riv.pos)
      BY WriteWordFits DEF Room, Remaining
    <2> HIDE DEF g
    <2>2. riv.pos \in Nat /\ riv.len \in Nat /\ n \in Nat /\ g.pos \in Nat
      BY <2>1, Fields DEF Widths
    <2>3. Good(u) /\ SameBuffer(g, u) /\ u.overruns = g.overruns /\ u.pos = riv.pos
      BY <2>1, <2>2, UnreadWordGood
    <2> HIDE DEF u
    <2>4. Room(n, u) /\ Holds(n, v, u.buf, u.pos)
      BY <2>1, <2>2, <2>3 DEF Room, SameBuffer, Remaining
    <2>5. /\ Good(h) /\ SameBuffer(u, h) /\ h.overruns = u.overruns
          /\ h.pos = u.pos + n /\ h.ret = v
      BY <2>4, ReadWordFits
    <2> HIDE DEF h
    <2>6. h = [g EXCEPT !.ret = h.ret]
      BY <2>1, <2>3, <2>5, SameStruct DEF SameBuffer
    <2> QED BY <2>5, <2>6 DEF g, u, h
  <1> QED BY <1>1, StructConsistent, PTL
=============================================================================
