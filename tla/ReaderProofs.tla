---------------------------- MODULE ReaderProofs ----------------------------
(***************************************************************************)
(* The programs that work on one input and nothing else, for every input:  *)
(* gifread, mctlife, EAX under an ideal cipher, crc16 and cdiff.           *)
(***************************************************************************)
EXTENDS Gifread, Life, Eax, Crc, Cdiff, Induction, SequenceTheorems, FiniteSetTheorems, TLAPS

-----------------------------------------------------------------------------
(* gifread, on any sequence of bytes whatever.                             *)

GifInv == GifTypeOK /\ NoOverrun /\ AcceptedAtTrailer

(* The powers of two that TableBytes knows.                                *)
LEMMA PowerOfTwo == ASSUME NEW n \in 1..8 PROVE 2 ^ n \in 0..256
<1>1. CASE n = 1  BY <1>1
<1>2. CASE n = 2  BY <1>2
<1>3. CASE n = 3  BY <1>3
<1>4. CASE n = 4  BY <1>4
<1>5. CASE n = 5  BY <1>5
<1>6. CASE n = 6  BY <1>6
<1>7. CASE n = 7  BY <1>7
<1>8. CASE n = 8  BY <1>8
<1> QED  BY <1>1, <1>2, <1>3, <1>4, <1>5, <1>6, <1>7, <1>8

(* The largest colour table fits: 256 colours of three bytes.              *)
LEMMA TableFits == ASSUME NEW flags \in Byte PROVE TableBytes(flags) \in 0..768
<1>1. (flags % 8) + 1 \in 1..8
  BY DEF Byte
<1>2. 2 ^ ((flags % 8) + 1) \in 0..256
  BY <1>1, PowerOfTwo
<1> QED
  BY <1>2 DEF TableBytes

(* The lengths of the parts of fixed length.                               *)
LEMMA SmallCounts ==
  /\ 0 \in 0..768 /\ 1 \in 0..768 /\ 3 \in 0..768 /\ 6 \in 0..768
  /\ 7 \in 0..768 /\ 9 \in 0..768 /\ 13 \in 0..768
OBVIOUS

(* What a getbytes of size bytes leaves, if the file goes that far or not. *)
Reads(size) ==
  /\ file' = file /\ buf' \in Seq(Byte)
  /\ pos' \in Nat /\ pos <= pos' /\ pos' <= Len(file)
  /\ Len(buf') = pos' - pos /\ Len(buf') <= size
  /\ \A i \in 1..Len(buf') : buf'[i] = file[pos + i]

LEMMA GetBytesReads ==
  ASSUME GifTypeOK, NEW size \in 0..768,
         pos' = IF pos + size <= Len(file) THEN pos + size ELSE Len(file),
         buf' = SubSeq(file, pos + 1, pos'), file' = file
  PROVE  Reads(size)
<1>0. file \in Seq(Byte) /\ pos \in Nat /\ pos <= Len(file)
  BY DEF GifTypeOK
<1>1. Len(file) \in Nat /\ pos \in Nat /\ pos <= Len(file)
  BY <1>0
<1>2. pos' \in Nat /\ pos <= pos' /\ pos' <= Len(file) /\ pos' - pos <= size
  <2>1. CASE pos + size <= Len(file)  BY <1>1, <2>1
  <2>2. CASE ~(pos + size <= Len(file))  BY <1>1, <2>2
  <2> QED  BY <2>1, <2>2
<1>3. \A i \in pos + 1..pos' : file[i] \in Byte
  BY <1>0, <1>1, <1>2
<1>4. pos + 1 \in Int /\ pos' \in Int
  BY <1>1, <1>2
<1>5. /\ buf' \in Seq(Byte)
      /\ Len(buf') = IF pos + 1 <= pos' THEN pos' - (pos + 1) + 1 ELSE 0
      /\ \A i \in 1..pos' - (pos + 1) + 1 : buf'[i] = file[pos + 1 + i - 1]
  BY <1>3, <1>4, SubSeqProperties
<1>6. Len(buf') = pos' - pos
  BY <1>1, <1>2, <1>5
<1>7. \A i \in 1..Len(buf') : buf'[i] = file[pos + i]
  <2> TAKE i \in 1..Len(buf')
  <2>1. i \in 1..pos' - (pos + 1) + 1 /\ pos + 1 + i - 1 = pos + i
    BY <1>1, <1>2, <1>6
  <2> QED  BY <2>1, <1>5
<1> QED
  BY <1>1, <1>2, <1>5, <1>6, <1>7 DEF Reads

(* A getbytes after which the next place, not the end, finds what it needs. *)
Prepares(size) ==
  /\ Len(buf') = size \/ gpc' = "error"
  /\ gpc' \notin {"end", "done"}
  /\ gpc' = "table" => size = 7
  /\ gpc' = "local table" => size = 9
  /\ gpc' = "data" => size = 1

LEMMA ShortFits ==
  ASSUME NEW s \in Seq(Byte), NEW size \in 0..768, Len(s) <= size
  PROVE  Len(s) < Capacity
BY DEF Capacity

LEMMA ByteAt == ASSUME NEW s \in Seq(Byte), NEW i \in 1..Len(s) PROVE s[i] \in Byte
OBVIOUS

LEMMA ReadPreserves ==
  ASSUME GifInv, NEW size \in 0..768, Reads(size), Prepares(size)
  PROVE  GifInv'
<1>1. /\ pos' \in Nat /\ pos' <= Len(file) /\ buf' \in Seq(Byte) /\ file' = file
      /\ Len(buf') <= size
  BY DEF Reads
<1>2. file' \in Seq(Byte) /\ pos' \in Nat /\ pos' <= Len(file')
  BY <1>1 DEF GifInv, GifTypeOK
<1>3. /\ gpc' = "table" => Len(buf') = 7
      /\ gpc' = "local table" => Len(buf') = 9
      /\ gpc' = "data" => Len(buf') = 1
  BY DEF Prepares
<1>4. GifTypeOK'
  BY <1>1, <1>2, <1>3 DEF GifTypeOK
<1>5. Len(buf') < Capacity
  BY <1>1, ShortFits
<1>6. NoOverrun'
  BY <1>5 DEF NoOverrun, Capacity
<1>7. AcceptedAtTrailer'
  BY DEF Prepares, AcceptedAtTrailer
<1> QED
  BY <1>4, <1>6, <1>7 DEF GifInv

(* The byte read last, when one was asked for.                             *)
LEMMA LastRead ==
  ASSUME GifTypeOK, Reads(1), Len(buf') = 1
  PROVE  pos' \in Nat /\ pos' > 0 /\ file'[pos'] = buf'[1]
<1>1. pos \in Nat
  BY DEF GifTypeOK
<1>2. pos' \in Nat /\ Len(buf') = pos' - pos /\ file' = file
  BY DEF Reads
<1>3. pos' = pos + 1
  BY <1>1, <1>2
<1>4. buf'[1] = file[pos + 1]
  <2>1. \A i \in 1..Len(buf') : buf'[i] = file[pos + i]
    BY DEF Reads
  <2>2. 1 \in 1..Len(buf')
    OBVIOUS
  <2> QED  BY <2>1, <2>2
<1> QED
  BY <1>1, <1>2, <1>3, <1>4

(* What the invariant says of the place that looks at the buffer.          *)
LEMMA Found ==
  ASSUME GifInv
  PROVE  /\ gpc = "table" => buf[5] \in Byte
         /\ gpc = "local table" => buf[9] \in Byte
         /\ gpc = "data" => buf[1] \in Byte
<1>1. /\ buf \in Seq(Byte)
      /\ gpc = "table" => Len(buf) = 7
      /\ gpc = "local table" => Len(buf) = 9
      /\ gpc = "data" => Len(buf) = 1
  BY DEF GifInv, GifTypeOK
<1>2. ASSUME gpc = "table" PROVE buf[5] \in Byte
  <2>1. 5 \in 1..Len(buf)  BY <1>1, <1>2
  <2> QED  BY <1>1, <2>1, ByteAt
<1>3. ASSUME gpc = "local table" PROVE buf[9] \in Byte
  <2>1. Len(buf) = 9  BY <1>1, <1>3
  <2>2. 9 \in 1..Len(buf)  BY <2>1
  <2> QED  BY <1>1, <2>2, ByteAt
<1>4. ASSUME gpc = "data" PROVE buf[1] \in Byte
  <2>1. 1 \in 1..Len(buf)  BY <1>1, <1>4
  <2> QED  BY <1>1, <2>1, ByteAt
<1> QED
  BY <1>2, <1>3, <1>4

-----------------------------------------------------------------------------
LEMMA InitInv == GifInit => GifInv
BY DEF GifInit, GifInv, GifTypeOK, NoOverrun, AcceptedAtTrailer, Capacity

LEMMA StepInv == GifInv /\ [GifNext]_gifVars => GifInv'
<1>0. SUFFICES ASSUME GifInv, [GifNext]_gifVars PROVE GifInv'
  OBVIOUS
<1>1. CASE Header
  <2>1. Reads(6)
    BY <1>0, <1>1, GetBytesReads, SmallCounts DEF Header, GetBytes, GifInv
  <2>2. Prepares(6)
    BY <1>0, <1>1 DEF Header, GetBytes, Prepares
  <2> QED
    BY <1>0, <2>1, <2>2, ReadPreserves, SmallCounts
<1>2. CASE Screen
  <2>1. Reads(7)
    BY <1>0, <1>2, GetBytesReads, SmallCounts DEF Screen, GetBytes, GifInv
  <2>2. Prepares(7)
    BY <1>0, <1>2 DEF Screen, GetBytes, Prepares
  <2> QED
    BY <1>0, <2>1, <2>2, ReadPreserves, SmallCounts
<1>3. CASE GlobalTable
  <2>1. TableBytes(buf[5]) \in 0..768
    BY <1>0, <1>3, Found, TableFits DEF GlobalTable
  <2>2. Reads(TableBytes(buf[5]))
    BY <1>0, <1>3, <2>1, GetBytesReads DEF GlobalTable, GetBytes, GifInv
  <2>3. Prepares(TableBytes(buf[5]))
    BY <1>0, <1>3 DEF GlobalTable, GetBytes, Prepares
  <2> QED
    BY <1>0, <2>1, <2>2, <2>3, ReadPreserves
<1>4. CASE Block
  <2>1. Reads(1)
    BY <1>0, <1>4, GetBytesReads, SmallCounts DEF Block, GetBytes, GifInv
  <2>2. CASE gpc' = "end"
    <3>1. Len(buf') = 1 /\ buf'[1] = 59
      BY <1>0, <1>4, <2>1, <2>2 DEF Block, GetBytes, Ubuf, Reads
    <3>2. pos' > 0 /\ file'[pos'] = 59
      BY <1>0, <2>1, <3>1, LastRead DEF GifInv
    <3>3. /\ file' \in Seq(Byte) /\ buf' \in Seq(Byte)
          /\ pos' \in Nat /\ pos' <= Len(file')
      BY <1>0, <2>1 DEF Reads, GifInv, GifTypeOK
    <3>4. GifTypeOK'
      BY <2>2, <3>3 DEF GifTypeOK
    <3>5. NoOverrun'
      BY <3>1 DEF NoOverrun, Capacity
    <3>6. AcceptedAtTrailer'
      BY <2>2, <3>2 DEF AcceptedAtTrailer
    <3> QED
      BY <3>4, <3>5, <3>6 DEF GifInv
  <2>3. CASE gpc' # "end"
    <3>1. Prepares(1)
      BY <1>4, <2>3 DEF Block, GetBytes, Prepares
    <3> QED
      BY <1>0, <2>1, <3>1, ReadPreserves, SmallCounts
  <2> QED
    BY <1>0, <2>2, <2>3
<1>5. CASE ImageDescriptor
  <2>1. Reads(9)
    BY <1>0, <1>5, GetBytesReads, SmallCounts, ZenonT(60) DEF ImageDescriptor, GetBytes, GifInv
  <2>2. Prepares(9)
    BY <1>0, <1>5 DEF ImageDescriptor, GetBytes, Prepares
  <2> QED
    BY <1>0, <2>1, <2>2, ReadPreserves, SmallCounts
<1>6. CASE LocalTable
  <2>1. TableBytes(buf[9]) \in 0..768
    BY <1>0, <1>6, Found, TableFits DEF LocalTable
  <2>2. Reads(TableBytes(buf[9]))
    BY <1>0, <1>6, <2>1, GetBytesReads DEF LocalTable, GetBytes, GifInv
  <2>3. Prepares(TableBytes(buf[9]))
    BY <1>0, <1>6 DEF LocalTable, GetBytes, Prepares
  <2> QED
    BY <1>0, <2>1, <2>2, <2>3, ReadPreserves
<1>7. CASE MinimumCodeSize
  <2>1. Reads(1)
    BY <1>0, <1>7, GetBytesReads, SmallCounts DEF MinimumCodeSize, GetBytes, GifInv
  <2>2. Prepares(1)
    BY <1>0, <1>7 DEF MinimumCodeSize, GetBytes, Prepares
  <2> QED
    BY <1>0, <2>1, <2>2, ReadPreserves, SmallCounts
<1>8. CASE ExtensionLabel
  <2>1. Reads(1)
    BY <1>0, <1>8, GetBytesReads, SmallCounts, ZenonT(60) DEF ExtensionLabel, GetBytes, GifInv
  <2>2. Prepares(1)
    BY <1>0, <1>8 DEF ExtensionLabel, GetBytes, Prepares
  <2> QED
    BY <1>0, <2>1, <2>2, ReadPreserves, SmallCounts
<1>9. CASE GraphicControl
  <2>1. Reads(6)
    BY <1>0, <1>9, GetBytesReads, SmallCounts DEF GraphicControl, GetBytes, GifInv
  <2>2. Prepares(6)
    BY <1>0, <1>9 DEF GraphicControl, GetBytes, Prepares
  <2> QED
    BY <1>0, <2>1, <2>2, ReadPreserves, SmallCounts
<1>10. CASE PlainText
  <2>1. Reads(13)
    BY <1>0, <1>10, GetBytesReads, SmallCounts, ZenonT(60) DEF PlainText, GetBytes, GifInv
  <2>2. Prepares(13)
    BY <1>0, <1>10 DEF PlainText, GetBytes, Prepares
  <2> QED
    BY <1>0, <2>1, <2>2, ReadPreserves, SmallCounts
<1>11. CASE PlainTextData
  <2>1. Reads(0)
    BY <1>0, <1>11, GetBytesReads, SmallCounts DEF PlainTextData, GetBytes, GifInv
  <2>2. Len(buf') <= 0 /\ Len(buf') \in Nat
    <3>1. buf' \in Seq(Byte) /\ Len(buf') <= 0
      BY <2>1 DEF Reads
    <3> QED  BY <3>1
  <2>3. Len(buf') = 0
    BY <2>2
  <2>4. ~(0 < Len(buf'))
    BY <2>3
  <2>5. gpc' = "block"
    BY <1>11, <2>3, <2>4 DEF PlainTextData, GetBytes, Ubuf
  <2>6. Prepares(0)
    BY <2>3, <2>5 DEF Prepares
  <2> QED
    BY <1>0, <2>1, <2>6, ReadPreserves, SmallCounts
<1>12. CASE ApplicationName
  <2>1. Reads(9)
    BY <1>0, <1>12, GetBytesReads, SmallCounts DEF ApplicationName, GetBytes, GifInv
  <2>2. Prepares(9)
    BY <1>0, <1>12 DEF ApplicationName, GetBytes, Prepares
  <2> QED
    BY <1>0, <2>1, <2>2, ReadPreserves, SmallCounts
<1>13. CASE Authentication
  <2>1. Reads(3)
    BY <1>0, <1>13, GetBytesReads, SmallCounts DEF Authentication, GetBytes, GifInv
  <2>2. Prepares(3)
    BY <1>0, <1>13 DEF Authentication, GetBytes, Prepares
  <2> QED
    BY <1>0, <2>1, <2>2, ReadPreserves, SmallCounts
<1>14. CASE SubBlockSize
  <2>1. Reads(1)
    BY <1>0, <1>14, GetBytesReads, SmallCounts DEF SubBlockSize, GetBytes, GifInv
  <2>2. Prepares(1)
    BY <1>0, <1>14 DEF SubBlockSize, GetBytes, Prepares
  <2> QED
    BY <1>0, <2>1, <2>2, ReadPreserves, SmallCounts
<1>15. CASE SubBlock
  <2>1. buf[1] \in 0..768
    BY <1>0, <1>15, Found DEF SubBlock, Byte
  <2>2. Reads(buf[1])
    BY <1>0, <1>15, <2>1, GetBytesReads DEF SubBlock, GetBytes, GifInv
  <2>3. Prepares(buf[1])
    BY <1>0, <1>15 DEF SubBlock, GetBytes, Prepares
  <2> QED
    BY <1>0, <2>1, <2>2, <2>3, ReadPreserves
<1>16. CASE End
  BY <1>0, <1>16 DEF End, GifInv, GifTypeOK, NoOverrun, AcceptedAtTrailer
<1>17. CASE UNCHANGED gifVars
  BY <1>0, <1>17 DEF gifVars, GifInv, GifTypeOK, NoOverrun, AcceptedAtTrailer
<1> QED
  BY <1>0, <1>1, <1>2, <1>3, <1>4, <1>5, <1>6, <1>7, <1>8, <1>9, <1>10, <1>11,
     <1>12, <1>13, <1>14, <1>15, <1>16, <1>17 DEF GifNext

LEMMA AlwaysInv == GifSpec => []GifInv
BY InitInv, StepInv, PTL DEF GifSpec

-----------------------------------------------------------------------------
(* No file, whatever lengths it gives, makes getbytes store anything       *)
(* outside the buffer.                                                     *)
THEOREM BufferHolds == GifSpec => []NoOverrun
BY AlwaysInv, PTL DEF GifInv

(* gifread is content only with a file whose last byte it took for the     *)
(* trailer.                                                                *)
THEOREM ContentAtTrailer == GifSpec => []AcceptedAtTrailer
BY AlwaysInv, PTL DEF GifInv

(* Every place finds in the buffer what the place before it has read.      *)
THEOREM GifTypes == GifSpec => []GifTypeOK
BY AlwaysInv, PTL DEF GifInv

-----------------------------------------------------------------------------
(* gifread, on a GIF file, or one that is cut short or too long.           *)

LEMMA PowerAgain == ASSUME NEW n \in 0..7 PROVE 2 ^ (n + 1) = 2 * 2 ^ n /\ 2 ^ n \in Nat
<1>1. CASE n = 0  BY <1>1
<1>2. CASE n = 1  BY <1>2
<1>3. CASE n = 2  BY <1>3
<1>4. CASE n = 3  BY <1>4
<1>5. CASE n = 4  BY <1>5
<1>6. CASE n = 5  BY <1>6
<1>7. CASE n = 6  BY <1>7
<1>8. CASE n = 7  BY <1>8
<1> QED  BY <1>1, <1>2, <1>3, <1>4, <1>5, <1>6, <1>7, <1>8

(* What gifread computes from the flags is what the format says.           *)
LEMMA TableIs ==
  ASSUME NEW flags \in Byte
  PROVE  /\ HasTable(flags) => ColourTable(flags) = TableBytes(flags)
         /\ ~ HasTable(flags) => ColourTable(flags) = 0
         /\ ColourTable(flags) \in Nat
<1>1. flags \in 0..255 /\ flags % 8 \in 0..7 /\ flags \div 128 \in Int
  BY DEF Byte
<1>2. 2 ^ ((flags % 8) + 1) = 2 * 2 ^ (flags % 8) /\ 2 ^ (flags % 8) \in Nat
  BY <1>1, PowerAgain
<1>3. HasTable(flags) <=> flags \div 128 = 1
  BY <1>1 DEF HasTable
<1>4. PICK n \in Nat : n = 2 ^ (flags % 8)
  BY <1>2
<1>5. CASE HasTable(flags)
  <2>1. ColourTable(flags) = 6 * n
    BY <1>3, <1>4, <1>5 DEF ColourTable
  <2>2. TableBytes(flags) = 3 * (2 * n)
    BY <1>2, <1>4 DEF TableBytes
  <2> QED  BY <1>5, <2>1, <2>2
<1>6. CASE ~ HasTable(flags)
  BY <1>3, <1>6 DEF ColourTable
<1> QED  BY <1>5, <1>6

(* The file is the beginning of text, or begins with it.                   *)
Agrees(text) == \A i \in 1..Len(text) : i <= Len(file) => file[i] = text[i]

Got(text, size) ==
  /\ Len(buf') = size /\ pos' = pos + size
  /\ \A i \in 1..size : buf'[i] = text[pos + i]

(* Within the text, a getbytes gets the bytes of the text, or the file is  *)
(* cut short.                                                              *)
LEMMA ReadsText ==
  ASSUME GifInv, NEW text \in Seq(Byte), Agrees(text), NEW size \in 0..768, Reads(size),
         pos + size <= Len(text),
         pos' = IF pos + size <= Len(file) THEN pos + size ELSE Len(file)
  PROVE  \/ Got(text, size)
         \/ Len(buf') # size /\ Len(file) < Len(text)
<1>1. /\ pos \in Nat /\ Len(file) \in Nat /\ Len(text) \in Nat /\ pos <= Len(file)
      /\ Len(buf') = pos' - pos
  <2>1. pos \in Nat /\ file \in Seq(Byte) /\ pos <= Len(file)
    BY DEF GifInv, GifTypeOK
  <2>2. Len(buf') = pos' - pos
    BY DEF Reads
  <2> QED  BY <2>1, <2>2
<1>2. CASE pos + size <= Len(file)
  <2>1. Len(buf') = size /\ pos' = pos + size
    BY <1>1, <1>2
  <2>2. ASSUME NEW i \in 1..size PROVE buf'[i] = text[pos + i]
    <3>1. i \in 1..Len(buf') /\ pos + i \in 1..Len(text) /\ pos + i <= Len(file)
      BY <1>1, <1>2, <2>1
    <3> QED  BY <3>1 DEF Reads, Agrees
  <2> QED  BY <2>1, <2>2 DEF Got
<1>3. CASE ~ (pos + size <= Len(file))
  BY <1>1, <1>3
<1> QED  BY <1>2, <1>3

LEMMA GotOne ==
  ASSUME NEW text, NEW size \in Nat, size > 0, Got(text, size), pos \in Nat
  PROVE  Ubuf(0) = text[pos + 1] /\ buf'[size] = text[pos'] /\ Ubuf(size - 1) = text[pos']
<1>1. 1 \in 1..size /\ size \in 1..size /\ Len(buf') = size /\ pos' = pos + size
  BY DEF Got
<1>2. buf'[1] = text[pos + 1] /\ buf'[size] = text[pos']
  BY <1>1 DEF Got
<1>3. 0 < Len(buf') /\ size - 1 < Len(buf') /\ 0 + 1 = 1 /\ size - 1 + 1 = size
  BY <1>1
<1> QED  BY <1>2, <1>3 DEF Ubuf

LEMMA GotNine ==
  ASSUME NEW text, Got(text, 9), pos \in Nat
  PROVE  Ubuf(8) = text[pos'] /\ buf'[9] = text[pos']
<1>1. 9 \in 1..9 /\ Len(buf') = 9 /\ pos' = pos + 9
  BY DEF Got
<1>2. buf'[9] = text[pos + 9]
  BY <1>1 DEF Got
<1>3. Ubuf(8) = buf'[9]
  BY <1>1 DEF Ubuf
<1> QED  BY <1>1, <1>2, <1>3

(* Where gifread is in the part between i and j, not counting the place of *)
(* a block.                                                                *)
InPart(text, g, p, b, i, j) ==
  \/ g = "image" /\ p = i + 1 /\ text[i + 1] = 44
  \/ g = "local table" /\ p = i + 10 /\ text[i + 1] = 44
       /\ b[9] = text[i + 10] /\ HasTable(text[i + 10])
  \/ g = "lzw" /\ text[i + 1] = 44 /\ p = i + 10 + ColourTable(text[i + 10])
  \/ g = "label" /\ p = i + 1 /\ text[i + 1] = 33
  \/ g = "graphic" /\ p = i + 2 /\ text[i + 1] = 33 /\ text[i + 2] = 249
  \/ g = "application" /\ p = i + 2 /\ text[i + 1] = 33 /\ text[i + 2] = 255
  \/ g = "authentication" /\ p = i + 11 /\ text[i + 1] = 33 /\ text[i + 2] = 255
  \/ g = "size" /\ \E C \in SUBSET (i..j-1) : p \in C /\ Chained(text, C, j)
  \/ g = "data" /\ b[1] = text[p] /\ b[1] # 0
       /\ \E C \in SUBSET (i..j-1) : p - 1 \in C /\ Chained(text, C, j)

Leaves(text, i, j) ==
  \/ InPart(text, gpc', pos', buf', i, j)
  \/ gpc' = "block" /\ pos' = j
  \/ gpc' = "error" /\ Len(file) < Len(text)
  \/ text[i + 1] = 33 /\ text[i + 2] = 1 /\ pos' = i + 2

Part(text, i, j) == ImageIn(text, i, j) \/ ExtensionIn(text, i, j)

(* Each place has one action.                                              *)
LEMMA OnlyAction ==
  ASSUME GifNext
  PROVE  /\ gpc = "header" => Header
         /\ gpc = "screen" => Screen
         /\ gpc = "table" => GlobalTable
         /\ gpc = "block" => Block
         /\ gpc = "image" => ImageDescriptor
         /\ gpc = "local table" => LocalTable
         /\ gpc = "lzw" => MinimumCodeSize
         /\ gpc = "label" => ExtensionLabel
         /\ gpc = "graphic" => GraphicControl
         /\ gpc = "application" => ApplicationName
         /\ gpc = "authentication" => Authentication
         /\ gpc = "size" => SubBlockSize
         /\ gpc = "data" => SubBlock
         /\ gpc = "end" => End
         /\ gpc \notin {"done", "unread", "error"}
BY DEF GifNext, Header, Screen, GlobalTable, Block, ImageDescriptor, LocalTable, MinimumCodeSize,
       ExtensionLabel, GraphicControl, PlainText, PlainTextData, ApplicationName, Authentication,
       SubBlockSize, SubBlock, End

LEMMA Gets ==
  ASSUME GifInv, NEW text \in Seq(Byte), Agrees(text), NEW size \in 0..768, NEW ACTION next,
         GetBytes(size, next), pos + size <= Len(text)
  PROVE  \/ Got(text, size) /\ gpc' = next
         \/ gpc' = "error" /\ Len(file) < Len(text)
<1>1. /\ pos' = IF pos + size <= Len(file) THEN pos + size ELSE Len(file)
      /\ buf' = SubSeq(file, pos + 1, pos') /\ file' = file
      /\ gpc' = IF Len(buf') = size THEN next ELSE "error"
  BY DEF GetBytes
<1>2. GifTypeOK
  BY DEF GifInv
<1>3. Reads(size)
  BY <1>1, <1>2, GetBytesReads, ZenonT(60)
<1>4. Got(text, size) \/ (Len(buf') # size /\ Len(file) < Len(text))
  BY <1>1, <1>3, ReadsText, ZenonT(60)
<1> QED  BY <1>1, <1>4 DEF Got

LEMMA SubBlocksAt ==
  ASSUME NEW text, NEW i \in Nat, NEW j \in Nat, NEW a \in Nat, i <= a, SubBlocksIn(text, a, j)
  PROVE  a < j /\ \E C \in SUBSET (i..j-1) : a \in C /\ Chained(text, C, j)
<1>1. PICK C \in SUBSET (a..j-1) : a \in C /\ Chained(text, C, j)
  BY DEF SubBlocksIn
<1>2. a < j /\ C \in SUBSET (i..j-1)
  BY <1>1
<1> QED  BY <1>1, <1>2

LEMMA ImagePart ==
  ASSUME NEW text \in Seq(Byte), NEW i \in Nat, NEW j \in 0..Len(text), Part(text, i, j),
         text[i + 1] = 44
  PROVE  /\ text[i + 10] \in Byte /\ ColourTable(text[i + 10]) \in Nat
         /\ i + 11 + ColourTable(text[i + 10]) < j
         /\ \E C \in SUBSET (i..j-1) :
              i + 11 + ColourTable(text[i + 10]) \in C /\ Chained(text, C, j)
<1>1. i + 10 <= j /\ SubBlocksIn(text, i + 11 + ColourTable(text[i + 10]), j)
  BY DEF Part, ImageIn, ExtensionIn
<1>2. i + 10 \in 1..Len(text) /\ j \in Nat
  BY <1>1
<1>3. text[i + 10] \in Byte
  BY <1>2
<1>4. ColourTable(text[i + 10]) \in Nat
  BY <1>3, TableIs
<1>5. PICK a \in Nat : a = i + 11 + ColourTable(text[i + 10])
  BY <1>4
<1>6. i <= a
  BY <1>4, <1>5
<1> QED  BY <1>1, <1>2, <1>3, <1>4, <1>5, <1>6, SubBlocksAt

LEMMA ByteCounts == ASSUME NEW b \in Byte PROVE b \in 0..768 /\ b \in Nat
BY DEF Byte

LEMMA GraphicNext ==
  ASSUME NEW ACTION u, NEW ACTION n, u = 249,
         n = CASE u = 249 -> "graphic" [] u = 1 -> "plain text"
               [] u = 255 -> "application" [] OTHER -> "size"
  PROVE  n = "graphic"
OBVIOUS

LEMMA TrailerOf ==
  ASSUME NEW ACTION u, NEW ACTION n, u = 59,
         n = CASE u = 33 -> "label" [] u = 44 -> "image" [] u = 59 -> "end" [] OTHER -> "error"
  PROVE  n = "end"
OBVIOUS

LEMMA GraphicLabel ==
  ASSUME ExtensionLabel, Len(buf') = 1, Ubuf(0) = 249 PROVE gpc' = "graphic"
<1> DEFINE label == Ubuf(0)
<1>1. gpc' = CASE label = 249 -> "graphic" [] label = 1 -> "plain text"
               [] label = 255 -> "application" [] OTHER -> "size"
  BY DEF ExtensionLabel, GetBytes
<1>2. label = 249
  OBVIOUS
<1> HIDE DEF label
<1> QED  BY <1>1, <1>2, GraphicNext

LEMMA TrailerNext ==
  ASSUME Block, Len(buf') = 1, Ubuf(0) = 59 PROVE gpc' = "end"
<1> DEFINE label == Ubuf(0)
<1>1. gpc' = CASE label = 33 -> "label" [] label = 44 -> "image"
               [] label = 59 -> "end" [] OTHER -> "error"
  BY DEF Block, GetBytes
<1>2. label = 59
  OBVIOUS
<1> HIDE DEF label
<1> QED  BY <1>1, <1>2, TrailerOf

LEMMA PartStep ==
  ASSUME GifInv, GifNext, NEW text \in Seq(Byte), Agrees(text),
         NEW i \in Nat, NEW j \in 0..Len(text), Part(text, i, j),
         InPart(text, gpc, pos, buf, i, j) \/ (gpc = "block" /\ pos = i)
  PROVE  Leaves(text, i, j)
<1>0. /\ Len(text) \in Nat /\ \A m \in 1..Len(text) : text[m] \in Byte
      /\ pos \in Nat /\ j \in Nat /\ j <= Len(text)
  <2>1. Len(text) \in Nat /\ \A m \in 1..Len(text) : text[m] \in Byte
    OBVIOUS
  <2>2. pos \in Nat
    BY DEF GifInv, GifTypeOK
  <2> QED  BY <2>1, <2>2
<1>1. CASE gpc = "block" /\ pos = i
  <2>1. i + 1 <= j /\ text[i + 1] \in {33, 44}
    BY <1>0 DEF Part, ImageIn, ExtensionIn
  <2>2. Block
    BY <1>1, OnlyAction
  <2>3. pos + 1 <= Len(text)
    BY <1>0, <1>1, <2>1
  <2> DEFINE next == CASE Ubuf(0) = 33 -> "label" [] Ubuf(0) = 44 -> "image"
                       [] Ubuf(0) = 59 -> "end" [] OTHER -> "error"
  <2>4. (Got(text, 1) /\ gpc' = next) \/ (gpc' = "error" /\ Len(file) < Len(text))
    <3>1. GetBytes(1, next)
      BY <2>2 DEF Block
    <3> HIDE DEF next
    <3> QED  BY <2>3, <3>1, Gets, SmallCounts
  <2>5. CASE gpc' = "error" /\ Len(file) < Len(text)
    BY <2>5 DEF Leaves
  <2>6. CASE Got(text, 1) /\ gpc' = next
    <3>1. Ubuf(0) = text[i + 1] /\ pos' = i + 1
      BY <1>0, <1>1, <2>6, GotOne DEF Got
    <3>2. CASE text[i + 1] = 33
      <4>1. gpc' = "label"
        BY <2>6, <3>1, <3>2
      <4> QED  BY <3>1, <3>2, <4>1 DEF Leaves, InPart
    <3>3. CASE text[i + 1] = 44
      <4>1. gpc' = "image"
        BY <2>6, <3>1, <3>3
      <4> QED  BY <3>1, <3>3, <4>1 DEF Leaves, InPart
    <3> QED  BY <2>1, <3>2, <3>3
  <2> QED  BY <2>4, <2>5, <2>6
<1>2. CASE gpc = "image" /\ pos = i + 1 /\ text[i + 1] = 44
  <2>1. ImageDescriptor
    BY <1>2, OnlyAction
  <2>2. i + 10 <= j
    BY <1>2 DEF Part, ImageIn, ExtensionIn
  <2>3. pos + 9 <= Len(text)
    BY <1>0, <1>2, <2>2
  <2> DEFINE next == IF HasTable(Ubuf(8)) THEN "local table" ELSE "lzw"
  <2>4. (Got(text, 9) /\ gpc' = next) \/ (gpc' = "error" /\ Len(file) < Len(text))
    <3>1. GetBytes(9, next)
      BY <2>1 DEF ImageDescriptor
    <3> HIDE DEF next
    <3> QED  BY <2>3, <3>1, Gets, SmallCounts
  <2>5. CASE gpc' = "error" /\ Len(file) < Len(text)
    BY <2>5 DEF Leaves
  <2>6. CASE Got(text, 9) /\ gpc' = next
    <3>0. pos' = pos + 9
      BY <2>6 DEF Got
    <3>1. pos' = i + 10
      BY <1>2, <3>0
    <3>2. Ubuf(8) = text[i + 10] /\ buf'[9] = text[i + 10]
      BY <1>0, <2>6, <3>1, GotNine
    <3>3. text[i + 10] \in Byte
      BY <1>0, <2>2
    <3>4. CASE HasTable(text[i + 10])
      BY <1>2, <2>6, <3>1, <3>2, <3>4 DEF Leaves, InPart
    <3>5. CASE ~ HasTable(text[i + 10])
      <4>1. ColourTable(text[i + 10]) = 0
        BY <3>3, <3>5, TableIs
      <4>2. pos' = i + 10 + ColourTable(text[i + 10])
        BY <3>1, <4>1
      <4>3. gpc' = "lzw"
        BY <2>6, <3>2, <3>5
      <4> QED  BY <1>2, <4>2, <4>3 DEF Leaves, InPart
    <3> QED  BY <3>4, <3>5
  <2> QED  BY <2>4, <2>5, <2>6
<1>3. CASE gpc = "local table" /\ pos = i + 10 /\ text[i + 1] = 44 /\ buf[9] = text[i + 10]
             /\ HasTable(text[i + 10])
  <2>1. LocalTable
    BY <1>3, OnlyAction
  <2>2. /\ text[i + 10] \in Byte /\ ColourTable(text[i + 10]) \in Nat
        /\ i + 11 + ColourTable(text[i + 10]) < j
    BY <1>0, <1>3, ImagePart
  <2>7. TableBytes(buf[9]) = ColourTable(text[i + 10]) /\ TableBytes(buf[9]) \in 0..768
    BY <1>3, <2>2, TableIs, TableFits, ZenonT(60)
  <2>3. pos + TableBytes(buf[9]) <= Len(text)
    <3>1. PICK t \in Nat : t = TableBytes(buf[9]) /\ t = ColourTable(text[i + 10])
      BY <2>2, <2>7
    <3>2. i + 11 + t < j /\ pos = i + 10
      BY <1>3, <2>2, <3>1
    <3>3. pos + t <= Len(text)
      BY <1>0, <3>2
    <3> QED  BY <3>1, <3>3
  <2> DEFINE next == "lzw"
  <2>4. (Got(text, TableBytes(buf[9])) /\ gpc' = next) \/ (gpc' = "error" /\ Len(file) < Len(text))
    <3>1. GetBytes(TableBytes(buf[9]), next)
      BY <2>1 DEF LocalTable
    <3> HIDE DEF next
    <3> QED  BY <2>3, <3>1, Gets, <2>7
  <2>5. CASE gpc' = "error" /\ Len(file) < Len(text)
    BY <2>5 DEF Leaves
  <2>6. CASE Got(text, TableBytes(buf[9])) /\ gpc' = next
    <3>1. pos' = i + 10 + ColourTable(text[i + 10])
      BY <1>3, <2>6, <2>7 DEF Got
    <3> QED  BY <1>3, <2>6, <3>1 DEF Leaves, InPart
  <2> QED  BY <2>4, <2>5, <2>6
<1>4. CASE gpc = "lzw" /\ text[i + 1] = 44 /\ pos = i + 10 + ColourTable(text[i + 10])
  <2>1. MinimumCodeSize
    BY <1>4, OnlyAction
  <2>2. /\ text[i + 10] \in Byte /\ ColourTable(text[i + 10]) \in Nat
        /\ i + 11 + ColourTable(text[i + 10]) < j
    BY <1>0, <1>4, ImagePart
  <2>3. pos + 1 <= Len(text)
    BY <1>0, <1>4, <2>2
  <2> DEFINE next == "size"
  <2>4. (Got(text, 1) /\ gpc' = next) \/ (gpc' = "error" /\ Len(file) < Len(text))
    <3>1. GetBytes(1, next)
      BY <2>1 DEF MinimumCodeSize
    <3> HIDE DEF next
    <3> QED  BY <2>3, <3>1, Gets, SmallCounts
  <2>5. CASE gpc' = "error" /\ Len(file) < Len(text)
    BY <2>5 DEF Leaves
  <2>6. CASE Got(text, 1) /\ gpc' = next
    <3>1. pos' = i + 11 + ColourTable(text[i + 10])
      BY <1>0, <1>4, <2>2, <2>6 DEF Got
    <3>2. \E C \in SUBSET (i..j-1) : pos' \in C /\ Chained(text, C, j)
      BY <1>0, <1>4, <3>1, ImagePart
    <3> QED  BY <2>6, <3>2 DEF Leaves, InPart
  <2> QED  BY <2>4, <2>5, <2>6
<1>5. CASE gpc = "label" /\ pos = i + 1 /\ text[i + 1] = 33
  <2>1. ExtensionLabel
    BY <1>5, OnlyAction
  <2>2. i + 2 <= j /\ ExtensionIn(text, i, j)
    BY <1>5 DEF Part, ImageIn, ExtensionIn
  <2>3. pos + 1 <= Len(text)
    BY <1>0, <1>5, <2>2
  <2> DEFINE next == CASE Ubuf(0) = 249 -> "graphic" [] Ubuf(0) = 1 -> "plain text"
                       [] Ubuf(0) = 255 -> "application" [] OTHER -> "size"
  <2>4. (Got(text, 1) /\ gpc' = next) \/ (gpc' = "error" /\ Len(file) < Len(text))
    <3>1. GetBytes(1, next)
      BY <2>1 DEF ExtensionLabel
    <3> HIDE DEF next
    <3> QED  BY <2>3, <3>1, Gets, SmallCounts
  <2>5. CASE gpc' = "error" /\ Len(file) < Len(text)
    BY <2>5 DEF Leaves
  <2>6. CASE Got(text, 1) /\ gpc' = next
    <3>0. pos' = pos + 1 /\ Ubuf(0) = text[pos + 1]
      <4>1. pos' = pos + 1
        BY <2>6 DEF Got
      <4> HIDE DEF next
      <4> QED  BY <1>0, <2>6, <4>1, GotOne
    <3>1. Ubuf(0) = text[i + 2] /\ pos' = i + 2
      BY <1>5, <3>0
    <3>2. CASE text[i + 2] = 249
      <4>1. Ubuf(0) = 249
        BY <3>1, <3>2
      <4>2. Len(buf') = 1
        BY <2>6 DEF Got
      <4>3. gpc' = "graphic"
        BY <2>1, <4>1, <4>2, GraphicLabel
      <4> HIDE DEF next
      <4> QED  BY <1>5, <3>1, <3>2, <4>3 DEF Leaves, InPart
    <3>3. CASE text[i + 2] = 1
      BY <1>5, <3>1, <3>3 DEF Leaves
    <3>4. CASE text[i + 2] = 255
      BY <1>5, <2>6, <3>1, <3>4 DEF Leaves, InPart
    <3>5. CASE text[i + 2] \notin {249, 1, 255}
      <4>1. gpc' = "size"
        BY <2>6, <3>1, <3>5
      <4>2. SubBlocksIn(text, i + 2, j)
        BY <2>2, <3>5 DEF ExtensionIn
      <4>3. \E C \in SUBSET (i..j-1) : pos' \in C /\ Chained(text, C, j)
        <5>1. i + 2 \in Nat /\ i <= i + 2
          OBVIOUS
        <5> HIDE DEF next
        <5> QED  BY <1>0, <3>1, <4>2, <5>1, SubBlocksAt
      <4> QED  BY <4>1, <4>3 DEF Leaves, InPart
    <3> QED  BY <3>2, <3>3, <3>4, <3>5
  <2> QED  BY <2>4, <2>5, <2>6
<1>6. CASE gpc = "graphic" /\ pos = i + 2 /\ text[i + 1] = 33 /\ text[i + 2] = 249
  <2>1. GraphicControl
    BY <1>6, OnlyAction
  <2>2. j = i + 8
    BY <1>6 DEF Part, ImageIn, ExtensionIn
  <2>3. pos + 6 <= Len(text)
    BY <1>0, <1>6, <2>2
  <2> DEFINE next == "block"
  <2>4. (Got(text, 6) /\ gpc' = next) \/ (gpc' = "error" /\ Len(file) < Len(text))
    <3>1. GetBytes(6, next)
      BY <2>1 DEF GraphicControl
    <3> HIDE DEF next
    <3> QED  BY <2>3, <3>1, Gets, SmallCounts
  <2>5. CASE gpc' = "error" /\ Len(file) < Len(text)
    BY <2>5 DEF Leaves
  <2>6. CASE Got(text, 6) /\ gpc' = next
    <3>1. pos' = j
      BY <1>6, <2>2, <2>6 DEF Got
    <3> QED  BY <2>6, <3>1 DEF Leaves
  <2> QED  BY <2>4, <2>5, <2>6
<1>7. CASE gpc = "application" /\ pos = i + 2 /\ text[i + 1] = 33 /\ text[i + 2] = 255
  <2>1. ApplicationName
    BY <1>7, OnlyAction
  <2>2. /\ i + 14 < j
        /\ \E C \in SUBSET (i..j-1) : i + 14 \in C /\ Chained(text, C, j)
    <3>1. SubBlocksIn(text, i + 14, j)
      BY <1>7 DEF Part, ImageIn, ExtensionIn
    <3>2. i + 14 \in Nat /\ i <= i + 14
      OBVIOUS
    <3> QED  BY <1>0, <3>1, <3>2, SubBlocksAt
  <2>3. pos + 9 <= Len(text)
    BY <1>0, <1>7, <2>2
  <2> DEFINE next == "authentication"
  <2>4. (Got(text, 9) /\ gpc' = next) \/ (gpc' = "error" /\ Len(file) < Len(text))
    <3>1. GetBytes(9, next)
      BY <2>1 DEF ApplicationName
    <3> HIDE DEF next
    <3> QED  BY <2>3, <3>1, Gets, SmallCounts
  <2>5. CASE gpc' = "error" /\ Len(file) < Len(text)
    BY <2>5 DEF Leaves
  <2>6. CASE Got(text, 9) /\ gpc' = next
    <3>1. pos' = i + 11
      BY <1>7, <2>6 DEF Got
    <3> QED  BY <1>7, <2>6, <3>1 DEF Leaves, InPart
  <2> QED  BY <2>4, <2>5, <2>6
<1>8. CASE gpc = "authentication" /\ pos = i + 11 /\ text[i + 1] = 33 /\ text[i + 2] = 255
  <2>1. Authentication
    BY <1>8, OnlyAction
  <2>2. /\ i + 14 < j
        /\ \E C \in SUBSET (i..j-1) : i + 14 \in C /\ Chained(text, C, j)
    <3>1. SubBlocksIn(text, i + 14, j)
      BY <1>8 DEF Part, ImageIn, ExtensionIn
    <3>2. i + 14 \in Nat /\ i <= i + 14
      OBVIOUS
    <3> QED  BY <1>0, <3>1, <3>2, SubBlocksAt
  <2>3. pos + 3 <= Len(text)
    BY <1>0, <1>8, <2>2
  <2> DEFINE next == "size"
  <2>4. (Got(text, 3) /\ gpc' = next) \/ (gpc' = "error" /\ Len(file) < Len(text))
    <3>1. GetBytes(3, next)
      BY <2>1 DEF Authentication
    <3> HIDE DEF next
    <3> QED  BY <2>3, <3>1, Gets, SmallCounts
  <2>5. CASE gpc' = "error" /\ Len(file) < Len(text)
    BY <2>5 DEF Leaves
  <2>6. CASE Got(text, 3) /\ gpc' = next
    <3>1. pos' = i + 14
      BY <1>8, <2>6 DEF Got
    <3> QED  BY <2>2, <2>6, <3>1 DEF Leaves, InPart
  <2> QED  BY <2>4, <2>5, <2>6
<1>9. CASE gpc = "size" /\ \E C \in SUBSET (i..j-1) : pos \in C /\ Chained(text, C, j)
  <2>1. SubBlockSize
    BY <1>9, OnlyAction
  <2>2. PICK C \in SUBSET (i..j-1) : pos \in C /\ Chained(text, C, j)
    BY <1>9
  <2>3. pos + 1 <= Len(text)
    BY <1>0, <2>2
  <2> DEFINE next == IF Ubuf(0) = 0 THEN "block" ELSE "data"
  <2>4. (Got(text, 1) /\ gpc' = next) \/ (gpc' = "error" /\ Len(file) < Len(text))
    <3>1. GetBytes(1, next)
      BY <2>1 DEF SubBlockSize
    <3> HIDE DEF next
    <3> QED  BY <2>3, <3>1, Gets, SmallCounts
  <2>5. CASE gpc' = "error" /\ Len(file) < Len(text)
    BY <2>5 DEF Leaves
  <2>6. CASE Got(text, 1) /\ gpc' = next
    <3>1. Ubuf(0) = text[pos + 1] /\ pos' = pos + 1 /\ buf'[1] = text[pos']
      BY <1>0, <2>6, GotOne DEF Got
    <3>2. CASE text[pos + 1] = 0
      <4>1. pos + 1 = j
        BY <2>2, <3>2 DEF Chained
      <4> QED  BY <2>6, <3>1, <3>2, <4>1 DEF Leaves
    <3>3. CASE text[pos + 1] # 0
      <4>1. pos' - 1 = pos
        BY <1>0, <3>1
      <4>2. gpc' = "data" /\ buf'[1] # 0
        BY <2>6, <3>1, <3>3
      <4> QED  BY <2>2, <3>1, <4>1, <4>2 DEF Leaves, InPart
    <3> QED  BY <3>2, <3>3
  <2> QED  BY <2>4, <2>5, <2>6
<1>10. CASE gpc = "data" /\ buf[1] = text[pos] /\ buf[1] # 0
              /\ \E C \in SUBSET (i..j-1) : pos - 1 \in C /\ Chained(text, C, j)
  <2>1. SubBlock
    BY <1>10, OnlyAction
  <2>2. PICK C \in SUBSET (i..j-1) : pos - 1 \in C /\ Chained(text, C, j)
    BY <1>10
  <2>7. buf[1] \in 0..768 /\ buf[1] \in Nat
    <3>1. buf[1] \in Byte
      BY <1>10, Found
    <3> QED  BY <3>1, ByteCounts
  <2>8. pos + buf[1] \in C
    <3>1. (pos - 1) + 1 = pos
      BY <1>0
    <3>2. pos + text[pos] \in C
      BY <1>10, <2>2, <3>1 DEF Chained
    <3> QED  BY <1>10, <3>2
  <2>3. pos + buf[1] <= Len(text)
    <3>1. pos + buf[1] \in i..j-1
      BY <2>2, <2>8
    <3> QED  BY <1>0, <2>7, <3>1
  <2> DEFINE next == "size"
  <2>4. (Got(text, buf[1]) /\ gpc' = next) \/ (gpc' = "error" /\ Len(file) < Len(text))
    <3>1. GetBytes(buf[1], next)
      BY <2>1 DEF SubBlock
    <3> HIDE DEF next
    <3> QED  BY <2>3, <3>1, Gets, <2>7, ZenonT(60)
  <2>5. CASE gpc' = "error" /\ Len(file) < Len(text)
    BY <2>5 DEF Leaves
  <2>6. CASE Got(text, buf[1]) /\ gpc' = next
    <3>1. pos' \in C
      BY <2>6, <2>8 DEF Got
    <3> QED  BY <2>2, <2>6, <3>1 DEF Leaves, InPart
  <2> QED  BY <2>4, <2>5, <2>6
<1> QED
  BY <1>1, <1>2, <1>3, <1>4, <1>5, <1>6, <1>7, <1>8, <1>9, <1>10 DEF InPart

(* Where gifread is in a GIF file: before the first block, at a block, in   *)
(* a part, behind the trailer, or lost since a plain text extension.       *)
WhereIs(text, g, p, b) ==
  \/ g = "header" /\ p = 0
  \/ g = "screen" /\ p = 6
  \/ g = "table" /\ p = 13 /\ b[5] = text[11] /\ HasTable(text[11])
  \/ g = "block" /\ \E k \in 2..Len(starts)-1 : p = starts[k]
  \/ \E k \in 2..Len(starts)-2 : InPart(text, g, p, b, starts[k], starts[k+1])
  \/ g = "end" /\ p = Len(text)
  \/ g = "done" /\ Len(file) = Len(text)
  \/ g = "unread" /\ Len(file) > Len(text)
  \/ g = "error" /\ Len(file) < Len(text)
  \/ \E k \in DOMAIN starts : HasText(k) /\ p > starts[k]

Placed(text) == GifInv /\ IsGif(text, starts) /\ Agrees(text) /\ WhereIs(text, gpc, pos, buf)

(* Nothing is read twice.                                                  *)
LEMMA Onward ==
  ASSUME GifInv, GifNext
  PROVE  pos' \in Nat /\ pos <= pos' /\ UNCHANGED <<file, starts>>
<1>1. /\ pos \in Nat /\ pos <= Len(file) /\ Len(file) \in Nat
      /\ gpc = "table" => TableBytes(buf[5]) \in 0..768
      /\ gpc = "local table" => TableBytes(buf[9]) \in 0..768
      /\ gpc = "data" => buf[1] \in 0..768
  <2>1. pos \in Nat /\ pos <= Len(file) /\ file \in Seq(Byte)
    BY DEF GifInv, GifTypeOK
  <2>2. Len(file) \in Nat
    BY <2>1
  <2>3. gpc = "table" => TableBytes(buf[5]) \in 0..768
    BY Found, TableFits
  <2>4. gpc = "local table" => TableBytes(buf[9]) \in 0..768
    BY Found, TableFits, ZenonT(60)
  <2>5. gpc = "data" => buf[1] \in 0..768
    BY Found, ByteCounts
  <2> QED  BY <2>1, <2>2, <2>3, <2>4, <2>5, ZenonT(60)
<1>2. ASSUME NEW size \in 0..768, NEW ACTION next, GetBytes(size, next)
      PROVE  pos' \in Nat /\ pos <= pos' /\ UNCHANGED <<file, starts>>
  <2>1. pos' = IF pos + size <= Len(file) THEN pos + size ELSE Len(file)
    BY <1>2 DEF GetBytes
  <2>4. UNCHANGED <<file, starts>>
    BY <1>2 DEF GetBytes
  <2>2. pos \in Nat /\ pos <= Len(file) /\ Len(file) \in Nat
    BY <1>1, ZenonT(60)
  <2>3. pos' \in Nat /\ pos <= pos'
    BY <2>1, <2>2
  <2> QED  BY <2>3, <2>4
<1>3. CASE Header  BY <1>2, <1>3, SmallCounts DEF Header
<1>4. CASE Screen  BY <1>2, <1>4, SmallCounts DEF Screen
<1>5. CASE GlobalTable  BY <1>1, <1>2, <1>5, ZenonT(60) DEF GlobalTable
<1>6. CASE Block  BY <1>2, <1>6, SmallCounts DEF Block
<1>7. CASE ImageDescriptor  BY <1>2, <1>7, SmallCounts, ZenonT(60) DEF ImageDescriptor
<1>8. CASE LocalTable  BY <1>1, <1>2, <1>8, ZenonT(60) DEF LocalTable
<1>9. CASE MinimumCodeSize  BY <1>2, <1>9, SmallCounts DEF MinimumCodeSize
<1>10. CASE ExtensionLabel  BY <1>2, <1>10, SmallCounts, ZenonT(60) DEF ExtensionLabel
<1>11. CASE GraphicControl  BY <1>2, <1>11, SmallCounts DEF GraphicControl
<1>12. CASE PlainText  BY <1>2, <1>12, SmallCounts, ZenonT(60) DEF PlainText
<1>13. CASE PlainTextData  BY <1>2, <1>13, SmallCounts DEF PlainTextData
<1>14. CASE ApplicationName  BY <1>2, <1>14, SmallCounts DEF ApplicationName
<1>15. CASE Authentication  BY <1>2, <1>15, SmallCounts DEF Authentication
<1>16. CASE SubBlockSize  BY <1>2, <1>16, SmallCounts DEF SubBlockSize
<1>17. CASE SubBlock  BY <1>1, <1>2, <1>17 DEF SubBlock
<1>18. CASE End  BY <1>1, <1>18 DEF End
<1> QED
  BY <1>3, <1>4, <1>5, <1>6, <1>7, <1>8, <1>9, <1>10, <1>11, <1>12, <1>13, <1>14, <1>15,
     <1>16, <1>17, <1>18 DEF GifNext

LEMMA FormatTypes ==
  ASSUME NEW text \in Seq(Byte), NEW at, IsGif(text, at)
  PROVE  /\ Len(at) \in Nat /\ Len(at) > 2 /\ DOMAIN at = 1..Len(at)
         /\ \A k \in 1..Len(at) : at[k] \in 0..Len(text)
         /\ Len(text) \in Nat /\ Len(text) >= 13
         /\ text[11] \in Byte
         /\ text[1] = 71 /\ text[2] = 73 /\ text[3] = 70
         /\ at[2] = 13 + ColourTable(text[11]) /\ at[2] <= Len(text)
         /\ at[Len(at)] = Len(text) /\ at[Len(at)-1] + 1 = Len(text) /\ text[Len(text)] = 59
         /\ \A k \in 2..Len(at)-2 : Part(text, at[k], at[k+1])
<1>1. at \in Seq(0..Len(text)) /\ Len(at) > 2 /\ HeadIn(text, at[2])
      /\ at[Len(at)] = Len(text) /\ at[Len(at)-1] + 1 = Len(text) /\ text[Len(text)] = 59
  BY DEF IsGif
<1>2. Len(at) \in Nat /\ DOMAIN at = 1..Len(at) /\ Len(text) \in Nat
      /\ \A k \in 1..Len(at) : at[k] \in 0..Len(text)
  <2>1. PICK S : S = 0..Len(text) /\ at \in Seq(S)
    BY <1>1
  <2>2. Len(at) \in Nat /\ DOMAIN at = 1..Len(at) /\ \A k \in 1..Len(at) : at[k] \in S
    BY <2>1
  <2>3. Len(text) \in Nat
    OBVIOUS
  <2> QED  BY <2>1, <2>2, <2>3
<1>3. 2 \in 1..Len(at)
  BY <1>1, <1>2
<1>4. at[2] \in 0..Len(text)
  BY <1>2, <1>3
<1>5. 13 <= at[2] /\ at[2] = 13 + ColourTable(text[11])
      /\ text[1] = 71 /\ text[2] = 73 /\ text[3] = 70
  BY <1>1 DEF HeadIn
<1>6. Len(text) >= 13 /\ at[2] <= Len(text) /\ 11 \in 1..Len(text)
  BY <1>2, <1>4, <1>5
<1>7. text[11] \in Byte
  BY <1>6
<1>8. \A k \in 2..Len(at)-2 : Part(text, at[k], at[k+1])
  BY DEF IsGif, Part
<1> QED  BY <1>1, <1>2, <1>5, <1>6, <1>7, <1>8

LEMMA PlacedStep ==
  ASSUME NEW text \in Seq(Byte), Placed(text), GifNext
  PROVE  WhereIs(text, gpc', pos', buf')
<1>1. GifInv /\ Agrees(text) /\ WhereIs(text, gpc, pos, buf) /\ pos \in Nat /\ IsGif(text, starts)
  BY DEF Placed, GifInv, GifTypeOK
<1>2. /\ Len(starts) \in Nat /\ Len(starts) > 2 /\ DOMAIN starts = 1..Len(starts)
      /\ \A k \in 1..Len(starts) : starts[k] \in 0..Len(text)
      /\ Len(text) \in Nat /\ Len(text) >= 13 /\ text[11] \in Byte
      /\ starts[2] = 13 + ColourTable(text[11]) /\ starts[2] <= Len(text)
  BY <1>1, FormatTypes
<1>3. CASE gpc = "header" /\ pos = 0
  <2>1. Header
    BY <1>3, OnlyAction
  <2> DEFINE next == IF <<Ubuf(0), Ubuf(1), Ubuf(2)>> = <<71, 73, 70>> THEN "screen" ELSE "error"
  <2>2. (Got(text, 6) /\ gpc' = next) \/ (gpc' = "error" /\ Len(file) < Len(text))
    <3>1. GetBytes(6, next)
      BY <2>1 DEF Header
    <3>2. pos + 6 <= Len(text)
      BY <1>2, <1>3
    <3> HIDE DEF next
    <3> QED  BY <1>1, <3>1, <3>2, Gets, SmallCounts
  <2>3. CASE gpc' = "error" /\ Len(file) < Len(text)
    BY <2>3 DEF WhereIs
  <2>4. CASE Got(text, 6) /\ gpc' = next
    <3>1. Len(buf') = 6 /\ pos' = pos + 6 /\ \A i \in 1..6 : buf'[i] = text[pos + i]
      BY <2>4 DEF Got
    <3>2. buf'[1] = text[1] /\ buf'[2] = text[2] /\ buf'[3] = text[3] /\ pos' = 6
      BY <1>3, <3>1
    <3>3. Ubuf(0) = 71 /\ Ubuf(1) = 73 /\ Ubuf(2) = 70
      BY <1>1, <3>1, <3>2, FormatTypes DEF Ubuf
    <3>4. gpc' = "screen"
      BY <2>4, <3>3
    <3> QED  BY <3>2, <3>4 DEF WhereIs
  <2> QED  BY <2>2, <2>3, <2>4
<1>4. CASE gpc = "screen" /\ pos = 6
  <2>1. Screen
    BY <1>4, OnlyAction
  <2> DEFINE next == IF HasTable(Ubuf(4)) THEN "table" ELSE "block"
  <2>2. (Got(text, 7) /\ gpc' = next) \/ (gpc' = "error" /\ Len(file) < Len(text))
    <3>1. GetBytes(7, next)
      BY <2>1 DEF Screen
    <3>2. pos + 7 <= Len(text)
      BY <1>2, <1>4
    <3> HIDE DEF next
    <3> QED  BY <1>1, <3>1, <3>2, Gets, SmallCounts
  <2>3. CASE gpc' = "error" /\ Len(file) < Len(text)
    BY <2>3 DEF WhereIs
  <2>4. CASE Got(text, 7) /\ gpc' = next
    <3>1. Len(buf') = 7 /\ pos' = pos + 7 /\ \A i \in 1..7 : buf'[i] = text[pos + i]
      BY <2>4 DEF Got
    <3>2. buf'[5] = text[11] /\ pos' = 13
      BY <1>4, <3>1
    <3>3. Ubuf(4) = text[11]
      BY <3>1, <3>2 DEF Ubuf
    <3>4. CASE HasTable(text[11])
      <4>1. gpc' = "table"
        BY <2>4, <3>3, <3>4
      <4> QED  BY <3>2, <3>4, <4>1 DEF WhereIs
    <3>5. CASE ~ HasTable(text[11])
      <4>1. gpc' = "block"
        BY <2>4, <3>3, <3>5
      <4>2. ColourTable(text[11]) = 0
        BY <1>2, <3>5, TableIs
      <4>3. 2 \in 2..Len(starts)-1 /\ pos' = starts[2]
        BY <1>2, <3>2, <4>2
      <4> QED  BY <4>1, <4>3 DEF WhereIs
    <3> QED  BY <3>4, <3>5
  <2> QED  BY <2>2, <2>3, <2>4
<1>5. CASE gpc = "table" /\ pos = 13 /\ buf[5] = text[11] /\ HasTable(text[11])
  <2>1. GlobalTable
    BY <1>5, OnlyAction
  <2>2. TableBytes(buf[5]) = ColourTable(text[11]) /\ TableBytes(buf[5]) \in 0..768
    BY <1>2, <1>5, TableIs, TableFits
  <2>3. PICK t \in 0..768 : t = TableBytes(buf[5])
    BY <2>2
  <2>4. starts[2] = 13 + t
    BY <1>2, <2>2, <2>3
  <2>5. pos + t <= Len(text) /\ pos + t = starts[2]
    BY <1>2, <1>5, <2>4
  <2>6. (Got(text, t) /\ gpc' = "block") \/ (gpc' = "error" /\ Len(file) < Len(text))
    <3>1. GetBytes(t, "block")
      BY <2>1, <2>3 DEF GlobalTable
    <3> QED  BY <1>1, <2>5, <3>1, Gets
  <2>7. CASE gpc' = "error" /\ Len(file) < Len(text)
    BY <2>7 DEF WhereIs
  <2>8. CASE Got(text, t) /\ gpc' = "block"
    <3>1. 2 \in 2..Len(starts)-1 /\ pos' = starts[2]
      BY <1>2, <2>5, <2>8 DEF Got
    <3> QED  BY <2>8, <3>1 DEF WhereIs
  <2> QED  BY <2>6, <2>7, <2>8
<1>6. ASSUME NEW k \in 2..Len(starts)-2,
             \/ gpc = "block" /\ pos = starts[k]
             \/ InPart(text, gpc, pos, buf, starts[k], starts[k+1])
      PROVE  WhereIs(text, gpc', pos', buf')
  <2>1. k \in 1..Len(starts) /\ k + 1 \in 1..Len(starts) /\ k + 1 \in 2..Len(starts)-1
    BY <1>2
  <2>2. PICK i \in Nat, j \in 0..Len(text) : i = starts[k] /\ j = starts[k+1]
    BY <1>2, <2>1
  <2>3. Part(text, i, j)
    BY <1>1, <2>2, FormatTypes
  <2>4. Leaves(text, i, j)
    BY <1>1, <1>6, <2>2, <2>3, PartStep
  <2>5. CASE InPart(text, gpc', pos', buf', i, j)
    BY <2>2, <2>5 DEF WhereIs
  <2>6. CASE gpc' = "block" /\ pos' = j
    BY <2>1, <2>2, <2>6 DEF WhereIs
  <2>7. CASE gpc' = "error" /\ Len(file) < Len(text)
    BY <2>7 DEF WhereIs
  <2>8. CASE text[i + 1] = 33 /\ text[i + 2] = 1 /\ pos' = i + 2
    <3>1. ExtensionIn(text, i, j)
      BY <2>3, <2>8 DEF Part, ImageIn
    <3>2. i + 2 <= j /\ j <= Len(text) /\ j \in Nat
      BY <1>2, <3>1 DEF ExtensionIn
    <3>3. GifInv'
      BY <1>1, StepInv
    <3>4. file' = file /\ file \in Seq(Byte)
      BY <1>1, Onward DEF GifInv, GifTypeOK
    <3>5. i + 2 <= Len(file)
      BY <2>8, <3>3, <3>4 DEF GifInv, GifTypeOK
    <3>6. i + 1 \in 1..Len(text) /\ i + 2 \in 1..Len(text) /\ i + 1 <= Len(file)
      BY <3>2, <3>4, <3>5
    <3>7. file[i + 1] = 33 /\ file[i + 2] = 1
      BY <1>1, <2>8, <3>5, <3>6 DEF Agrees
    <3>8. HasText(k)
      BY <2>2, <3>5, <3>7 DEF HasText
    <3>9. pos' > starts[k] /\ k \in DOMAIN starts
      BY <1>2, <2>1, <2>2, <2>8
    <3> QED  BY <3>8, <3>9 DEF WhereIs
  <2> QED  BY <2>4, <2>5, <2>6, <2>7, <2>8 DEF Leaves
<1>7. CASE gpc = "block" /\ pos = starts[Len(starts)-1]
  <2>1. Block
    BY <1>7, OnlyAction
  <2>2. pos + 1 = Len(text) /\ text[Len(text)] = 59
    BY <1>1, <1>7, FormatTypes
  <2> DEFINE next == CASE Ubuf(0) = 33 -> "label" [] Ubuf(0) = 44 -> "image"
                       [] Ubuf(0) = 59 -> "end" [] OTHER -> "error"
  <2>3. (Got(text, 1) /\ gpc' = next) \/ (gpc' = "error" /\ Len(file) < Len(text))
    <3>1. GetBytes(1, next)
      BY <2>1 DEF Block
    <3>2. pos + 1 <= Len(text)
      BY <1>2, <2>2
    <3> HIDE DEF next
    <3> QED  BY <1>1, <3>1, <3>2, Gets, SmallCounts
  <2>4. CASE gpc' = "error" /\ Len(file) < Len(text)
    BY <2>4 DEF WhereIs
  <2>5. CASE Got(text, 1) /\ gpc' = next
    <3>1. pos' = pos + 1 /\ Len(buf') = 1
      BY <2>5 DEF Got
    <3>2. Ubuf(0) = 59
      <4> HIDE DEF next
      <4> QED  BY <1>1, <2>2, <2>5, GotOne
    <3>3. gpc' = "end"
      BY <2>1, <3>1, <3>2, TrailerNext
    <3> HIDE DEF next
    <3> QED  BY <2>2, <3>1, <3>3 DEF WhereIs
  <2> QED  BY <2>3, <2>4, <2>5
<1>8. CASE gpc = "end" /\ pos = Len(text)
  <2>1. gpc' = IF pos < Len(file) THEN "unread" ELSE "done"
    BY <1>8, OnlyAction DEF End
  <2>2. pos <= Len(file) /\ Len(file) \in Nat
    <3>1. file \in Seq(Byte) /\ pos <= Len(file)
      BY <1>1 DEF GifInv, GifTypeOK
    <3> QED  BY <3>1
  <2>3. CASE pos < Len(file)
    BY <1>2, <1>8, <2>1, <2>3 DEF WhereIs
  <2>4. CASE ~ (pos < Len(file))
    BY <1>2, <1>8, <2>1, <2>2, <2>4 DEF WhereIs
  <2> QED  BY <2>3, <2>4
<1>9. CASE gpc \in {"done", "unread", "error"}
  BY <1>9, OnlyAction
<1>10. ASSUME NEW k \in DOMAIN starts, HasText(k), pos > starts[k]
       PROVE  WhereIs(text, gpc', pos', buf')
  <2>1. pos' \in Nat /\ pos <= pos' /\ starts[k] \in Nat
    BY <1>1, <1>2, Onward
  <2>2. pos' > starts[k]
    BY <1>1, <1>10, <2>1
  <2> QED  BY <1>10, <2>2 DEF WhereIs
<1>11. ASSUME gpc = "block", NEW k \in 2..Len(starts)-1, pos = starts[k]
       PROVE  WhereIs(text, gpc', pos', buf')
  <2>1. k = Len(starts)-1 \/ k \in 2..Len(starts)-2
    <3>1. PICK n \in Nat : n = Len(starts)
      BY <1>2
    <3>2. k \in 2..n-1
      BY <1>11, <3>1
    <3>3. k = n-1 \/ k \in 2..n-2
      BY <3>2
    <3> QED  BY <3>1, <3>3, SMTT(30)
  <2>2. CASE k = Len(starts)-1
    BY <1>7, <1>11, <2>2
  <2>3. CASE k \in 2..Len(starts)-2
    BY <1>6, <1>11, <2>3
  <2> QED  BY <2>1, <2>2, <2>3
<1> QED
  BY <1>1, <1>3, <1>4, <1>5, <1>6, <1>8, <1>9, <1>10, <1>11 DEF WhereIs

(* What gifread is given: a file that begins with a whole GIF file, or is  *)
(* the beginning of one, and that is in parts where at says.               *)
GivenGif(text, at) == starts = at /\ IsGif(text, at) /\ Agrees(text)

LEMMA PlacedInit ==
  ASSUME NEW text \in Seq(Byte), NEW at, GifInit, GivenGif(text, at) PROVE Placed(text)
<1>1. GifInv /\ IsGif(text, starts) /\ Agrees(text)
  BY InitInv DEF GivenGif
<1>2. WhereIs(text, gpc, pos, buf)
  BY DEF GifInit, WhereIs
<1> QED  BY <1>1, <1>2 DEF Placed

LEMMA PlacedKept ==
  ASSUME NEW text \in Seq(Byte), Placed(text), [GifNext]_gifVars PROVE Placed(text)'
<1>1. GifInv'
  BY StepInv DEF Placed
<1>2. CASE GifNext
  <2>1. UNCHANGED <<file, starts>>
    BY <1>2, Onward DEF Placed
  <2>2. WhereIs(text, gpc', pos', buf')
    BY <1>2, PlacedStep
  <2>3. WhereIs(text, gpc, pos, buf)'
    BY <2>1, <2>2 DEF WhereIs, HasText
  <2>4. IsGif(text, starts)' /\ Agrees(text)'
    BY <2>1 DEF Placed, Agrees
  <2> QED  BY <1>1, <2>3, <2>4 DEF Placed
<1>3. CASE UNCHANGED gifVars
  <2>1. UNCHANGED <<file, starts, pos, buf, gpc>>
    BY <1>3 DEF gifVars
  <2>2. WhereIs(text, gpc, pos, buf)' /\ IsGif(text, starts)' /\ Agrees(text)'
    BY <2>1 DEF Placed, WhereIs, HasText, Agrees
  <2> QED  BY <1>1, <2>2 DEF Placed
<1> QED  BY <1>2, <1>3

LEMMA PlacedFinds ==
  ASSUME NEW text \in Seq(Byte), Placed(text) PROVE BlocksFoundInPlace /\ VerdictIsRight
<1>1. WhereIs(text, gpc, pos, buf) /\ starts[Len(starts)] = Len(text)
  BY FormatTypes DEF Placed
<1>2. BlocksFoundInPlace
  BY <1>1 DEF BlocksFoundInPlace, WhereIs, InPart
<1>3. VerdictIsRight
  BY <1>1 DEF VerdictIsRight, WhereIs, InPart
<1> QED  BY <1>2, <1>3

(* Whatever blocks, tables and sub-blocks a GIF file has, gifread looks    *)
(* for each block where it begins, until it meets plain text.              *)
THEOREM EveryBlockFound ==
  ASSUME NEW CONSTANT text \in Seq(Byte), NEW CONSTANT at
  PROVE  GifSpec /\ GivenGif(text, at) => []BlocksFoundInPlace
<1>1. GifInit /\ GivenGif(text, at) => Placed(text)
  BY PlacedInit
<1>2. Placed(text) /\ [GifNext]_gifVars => Placed(text)'
  BY PlacedKept
<1>3. Placed(text) => BlocksFoundInPlace
  BY PlacedFinds
<1> QED  BY <1>1, <1>2, <1>3, PTL DEF GifSpec

(* It accepts every whole file without plain text, and no other that is    *)
(* the beginning of one or begins with one.                                *)
THEOREM EveryVerdictRight ==
  ASSUME NEW CONSTANT text \in Seq(Byte), NEW CONSTANT at
  PROVE  GifSpec /\ GivenGif(text, at) => []VerdictIsRight
<1>1. GifInit /\ GivenGif(text, at) => Placed(text)
  BY PlacedInit
<1>2. Placed(text) /\ [GifNext]_gifVars => Placed(text)'
  BY PlacedKept
<1>3. Placed(text) => VerdictIsRight
  BY PlacedFinds
<1> QED  BY <1>1, <1>2, <1>3, PTL DEF GifSpec

-----------------------------------------------------------------------------
(* Why gifread ends, on any sequence of bytes: every step leaves less to   *)
(* do, the getbytes for no bytes included.                                 *)
Weight(g) == IF g \in GifEnds THEN 0 ELSE IF g = "end" THEN 1 ELSE IF g = "text" THEN 3 ELSE 2

StepsLeft == 2 * (Len(file) - pos) + Weight(gpc)

(* A sub-block that is read is not empty.                                  *)
SizeInv == gpc = "data" => buf[1] # 0

LEMMA WeightRange == ASSUME NEW g PROVE Weight(g) \in 0..3 /\ (g # "text" => Weight(g) <= 2)
BY DEF Weight

LEMMA Spent ==
  ASSUME GifInv, NEW size \in 0..768, NEW ACTION next, GetBytes(size, next),
         gpc \notin GifEnds, gpc \notin {"end", "text"}, size > 0
  PROVE  StepsLeft' < StepsLeft
<1>1. pos \in Nat /\ pos <= Len(file) /\ Len(file) \in Nat
  <2>1. pos \in Nat /\ pos <= Len(file) /\ file \in Seq(Byte)
    BY ZenonT(60) DEF GifInv, GifTypeOK
  <2> QED  BY <2>1
<1>2. /\ pos' = IF pos + size <= Len(file) THEN pos + size ELSE Len(file)
      /\ buf' = SubSeq(file, pos + 1, pos') /\ file' = file
      /\ gpc' = IF Len(buf') = size THEN next ELSE "error"
  BY DEF GetBytes
<1>3. GifTypeOK
  BY DEF GifInv
<1>4. Len(buf') = pos' - pos
  BY <1>2, <1>3, GetBytesReads DEF Reads
<1>5. Weight(gpc) = 2 /\ Weight(gpc') \in 0..3 /\ Weight("error") = 0
  BY WeightRange DEF Weight, GifEnds
<1>6. StepsLeft = 2 * (Len(file) - pos) + 2 /\ StepsLeft' = 2 * (Len(file) - pos') + Weight(gpc')
  BY <1>2, <1>5 DEF StepsLeft
<1>7. PICK v \in 0..3 : v = Weight(gpc')
  BY <1>5
<1>8. CASE pos + size <= Len(file)
  <2>1. pos' = pos + size
    BY <1>2, <1>8
  <2> QED  BY <1>1, <1>6, <1>7, <2>1
<1>9. CASE ~ (pos + size <= Len(file))
  <2>1. pos' = Len(file)
    BY <1>2, <1>9
  <2>2. Len(buf') # size
    BY <1>1, <1>4, <1>9, <2>1
  <2>3. Weight(gpc') = 0
    BY <1>2, <1>5, <2>2
  <2> QED  BY <1>1, <1>6, <2>1, <2>3
<1> QED  BY <1>8, <1>9

(* The loop over plain text leaves at once, since it sees the '\0'.        *)
LEMMA NoText ==
  ASSUME GifInv, PlainTextData
  PROVE  gpc = "text" /\ gpc' = "block" /\ pos' = pos /\ file' = file
<1>1. pos \in Nat /\ pos <= Len(file) /\ Len(file) \in Nat
  <2>1. pos \in Nat /\ pos <= Len(file) /\ file \in Seq(Byte)
    BY DEF GifInv, GifTypeOK
  <2> QED  BY <2>1
<1>2. /\ pos' = IF pos + 0 <= Len(file) THEN pos + 0 ELSE Len(file)
      /\ buf' = SubSeq(file, pos + 1, pos') /\ file' = file /\ gpc = "text"
      /\ gpc' = IF Len(buf') = 0 THEN (IF Ubuf(0) = 0 THEN "block" ELSE "data") ELSE "error"
  BY DEF PlainTextData, GetBytes
<1>3. pos' = pos
  BY <1>1, <1>2
<1>4. GifTypeOK
  BY DEF GifInv
<1>5. Len(buf') = pos' - pos
  BY <1>2, <1>4, GetBytesReads, SmallCounts, ZenonT(60) DEF Reads
<1>6. Len(buf') = 0
  BY <1>1, <1>3, <1>5
<1>7. Ubuf(0) = 0
  BY <1>6 DEF Ubuf
<1> QED  BY <1>2, <1>3, <1>6, <1>7

LEMMA SizeStep == ASSUME GifInv, SizeInv, [GifNext]_gifVars PROVE SizeInv'
<1>1. CASE UNCHANGED gifVars
  BY <1>1 DEF gifVars, SizeInv
<1>2. CASE SubBlockSize
  <2>1. SUFFICES ASSUME gpc' = "data" PROVE buf'[1] # 0
    BY DEF SizeInv
  <2>2. gpc' = IF Len(buf') = 1 THEN (IF Ubuf(0) = 0 THEN "block" ELSE "data") ELSE "error"
    BY <1>2 DEF SubBlockSize, GetBytes
  <2>3. Len(buf') = 1 /\ Ubuf(0) # 0
    BY <2>1, <2>2
  <2> QED  BY <2>3 DEF Ubuf
<1>3. CASE PlainTextData
  BY <1>3, NoText DEF SizeInv
<1>4. CASE \/ Header \/ Screen \/ GlobalTable \/ ImageDescriptor \/ LocalTable
           \/ MinimumCodeSize \/ GraphicControl \/ PlainText \/ ApplicationName
           \/ Authentication \/ SubBlock \/ End
  <2>1. gpc' # "data"
    BY <1>4 DEF Header, Screen, GlobalTable, ImageDescriptor, LocalTable, MinimumCodeSize,
                GraphicControl, PlainText, ApplicationName, Authentication, SubBlock, End, GetBytes
  <2> QED  BY <2>1 DEF SizeInv
<1>5. CASE Block
  <2>1. gpc' # "data"
    BY <1>5 DEF Block, GetBytes
  <2> QED  BY <2>1 DEF SizeInv
<1>6. CASE ExtensionLabel
  <2>1. gpc' # "data"
    BY <1>6 DEF ExtensionLabel, GetBytes
  <2> QED  BY <2>1 DEF SizeInv
<1> QED  BY <1>1, <1>2, <1>3, <1>4, <1>5, <1>6 DEF GifNext

LEMMA TableNotEmpty ==
  ASSUME NEW flags \in Byte PROVE TableBytes(flags) \in 0..768 /\ TableBytes(flags) > 0
<1>1. (flags % 8) + 1 \in 1..8
  BY DEF Byte
<1>2. ASSUME NEW n \in 1..8 PROVE 2 ^ n \in 1..256
  <2>1. CASE n = 1  BY <2>1
  <2>2. CASE n = 2  BY <2>2
  <2>3. CASE n = 3  BY <2>3
  <2>4. CASE n = 4  BY <2>4
  <2>5. CASE n = 5  BY <2>5
  <2>6. CASE n = 6  BY <2>6
  <2>7. CASE n = 7  BY <2>7
  <2>8. CASE n = 8  BY <2>8
  <2> QED  BY <2>1, <2>2, <2>3, <2>4, <2>5, <2>6, <2>7, <2>8
<1>3. PICK p \in 1..256 : p = 2 ^ ((flags % 8) + 1)
  BY <1>1, <1>2
<1>4. TableBytes(flags) = 3 * p
  BY <1>3 DEF TableBytes
<1> QED  BY <1>4

LEMMA EachStepSpends == ASSUME GifInv, SizeInv, GifNext PROVE StepsLeft' < StepsLeft
<1>1. CASE Header  BY <1>1, Spent, SmallCounts DEF Header, GifEnds
<1>2. CASE Screen  BY <1>2, Spent, SmallCounts DEF Screen, GifEnds
<1>3. CASE GlobalTable
  BY <1>3, Spent, Found, TableNotEmpty DEF GlobalTable, GifEnds
<1>4. CASE Block  BY <1>4, Spent, SmallCounts DEF Block, GifEnds
<1>5. CASE ImageDescriptor
  <2> DEFINE next == IF HasTable(Ubuf(8)) THEN "local table" ELSE "lzw"
  <2>1. gpc = "image" /\ GetBytes(9, next)
    BY <1>5 DEF ImageDescriptor
  <2> HIDE DEF next
  <2>2. gpc \notin GifEnds /\ gpc \notin {"end", "text"} /\ 9 > 0
    BY <2>1 DEF GifEnds
  <2> QED  BY <2>1, <2>2, Spent, SmallCounts
<1>6. CASE LocalTable
  BY <1>6, Spent, Found, TableNotEmpty DEF LocalTable, GifEnds
<1>7. CASE MinimumCodeSize  BY <1>7, Spent, SmallCounts DEF MinimumCodeSize, GifEnds
<1>8. CASE ExtensionLabel
  <2> DEFINE next == CASE Ubuf(0) = 249 -> "graphic" [] Ubuf(0) = 1 -> "plain text"
                       [] Ubuf(0) = 255 -> "application" [] OTHER -> "size"
  <2>1. gpc = "label" /\ GetBytes(1, next)
    BY <1>8 DEF ExtensionLabel
  <2> HIDE DEF next
  <2>2. gpc \notin GifEnds /\ gpc \notin {"end", "text"} /\ 1 > 0
    BY <2>1 DEF GifEnds
  <2> QED  BY <2>1, <2>2, Spent, SmallCounts
<1>9. CASE GraphicControl  BY <1>9, Spent, SmallCounts DEF GraphicControl, GifEnds
<1>10. CASE PlainText
  <2>1. gpc = "plain text"
    BY <1>10 DEF PlainText
  <2>2. PICK t : t = "text" /\ GetBytes(13, t)
    BY <1>10 DEF PlainText
  <2>3. gpc \notin GifEnds /\ gpc \notin {"end", "text"}
    BY <2>1, Zenon DEF GifEnds
  <2>4. 13 > 0
    OBVIOUS
  <2> QED  BY <2>2, <2>3, <2>4, Spent, SmallCounts
<1>11. CASE PlainTextData
  <2>1. gpc = "text" /\ gpc' = "block" /\ pos' = pos /\ file' = file
    BY <1>11, NoText
  <2>2. Weight("text") = 3 /\ Weight("block") = 2
    BY DEF Weight, GifEnds
  <2>3. pos \in Int /\ Len(file) \in Int
    <3>1. pos \in Nat /\ file \in Seq(Byte)
      BY DEF GifInv, GifTypeOK
    <3> QED  BY <3>1
  <2>4. StepsLeft = 2 * (Len(file) - pos) + 3 /\ StepsLeft' = 2 * (Len(file) - pos) + 2
    BY <2>1, <2>2 DEF StepsLeft
  <2> QED  BY <2>3, <2>4
<1>12. CASE ApplicationName  BY <1>12, Spent, SmallCounts DEF ApplicationName, GifEnds
<1>13. CASE Authentication  BY <1>13, Spent, SmallCounts DEF Authentication, GifEnds
<1>14. CASE SubBlockSize  BY <1>14, Spent, SmallCounts DEF SubBlockSize, GifEnds
<1>15. CASE SubBlock
  <2>1. buf[1] \in Byte /\ buf[1] # 0 /\ gpc = "data" /\ GetBytes(buf[1], "size")
    BY <1>15, Found DEF SubBlock, SizeInv
  <2>2. buf[1] \in 0..768 /\ buf[1] > 0
    BY <2>1 DEF Byte
  <2> QED  BY <2>1, <2>2, Spent DEF GifEnds
<1>16. CASE End
  <2>1. gpc = "end" /\ gpc' \in GifEnds /\ pos' = pos /\ file' = file
    BY <1>16 DEF End, GifEnds
  <2>2. Weight(gpc) = 1 /\ Weight(gpc') = 0
    BY <2>1 DEF Weight, GifEnds
  <2>3. pos \in Int /\ Len(file) \in Int
    <3>1. pos \in Nat /\ file \in Seq(Byte)
      BY DEF GifInv, GifTypeOK
    <3> QED  BY <3>1
  <2>4. StepsLeft = 2 * (Len(file) - pos) + 1 /\ StepsLeft' = 2 * (Len(file) - pos) + 0
    BY <2>1, <2>2 DEF StepsLeft
  <2> QED  BY <2>3, <2>4
<1> QED
  BY <1>1, <1>2, <1>3, <1>4, <1>5, <1>6, <1>7, <1>8, <1>9, <1>10, <1>11, <1>12, <1>13, <1>14,
     <1>15, <1>16 DEF GifNext

LEMMA StepsAreCounted == ASSUME GifInv PROVE StepsLeft \in Nat
<1>1. pos \in Nat /\ pos <= Len(file) /\ Len(file) \in Nat
  <2>1. pos \in Nat /\ pos <= Len(file) /\ file \in Seq(Byte)
    BY DEF GifInv, GifTypeOK
  <2> QED  BY <2>1
<1>2. Weight(gpc) \in 0..3
  BY WeightRange
<1> QED  BY <1>1, <1>2 DEF StepsLeft

(* On every file gifread takes finitely many steps: each of them brings a  *)
(* natural number down.  Nothing but the scheduler can keep it from an end. *)
THEOREM EveryStepSpends == GifSpec => [](StepsLeft \in Nat) /\ [][StepsLeft' < StepsLeft]_gifVars
<1>1. GifInit => GifInv /\ SizeInv
  BY InitInv DEF GifInit, SizeInv
<1>2. GifInv /\ SizeInv /\ [GifNext]_gifVars => (GifInv /\ SizeInv)'
  BY StepInv, SizeStep
<1>3. GifInv /\ SizeInv /\ [GifNext]_gifVars => [StepsLeft' < StepsLeft]_gifVars
  BY EachStepSpends
<1>4. GifInv /\ SizeInv => StepsLeft \in Nat
  BY StepsAreCounted
<1> QED  BY <1>1, <1>2, <1>3, <1>4, PTL DEF GifSpec

-----------------------------------------------------------------------------
(* mctlife.  The cells around one, on a torus.                             *)
LEMMA Wraps ==
  ASSUME NEW N \in Nat, N >= 5, NEW i \in 0..N-1, NEW d \in -1..1
  PROVE  (i + d) % N = IF i + d < 0 THEN N - 1 ELSE IF i + d >= N THEN 0 ELSE i + d
<1>1. CASE i + d < 0
  <2>1. i + d = N * (-1) + (N - 1)
    BY <1>1
  <2> QED  BY <1>1, <2>1
<1>2. CASE i + d >= N
  <2>1. i + d = N * 1 + 0
    BY <1>2
  <2> QED  BY <1>2, <2>1
<1>3. CASE ~ (i + d < 0) /\ ~ (i + d >= N)
  BY <1>3
<1> QED  BY <1>1, <1>2, <1>3

(* How many of the cells are alive grows by one with each live one.        *)
Alive(cells) == {a \in cells : world[a]}

LEMMA OneMore ==
  ASSUME NEW cells, NEW x, x \notin cells, IsFiniteSet(Alive(cells))
  PROVE  /\ IsFiniteSet(Alive(cells \cup {x}))
         /\ Cardinality(Alive(cells \cup {x})) = Cardinality(Alive(cells)) + Bit(world[x])
<1>1. Cardinality(Alive(cells)) \in Nat
  BY FS_CardinalityType
<1>2. CASE world[x]
  <2>1. Alive(cells \cup {x}) = Alive(cells) \cup {x} /\ x \notin Alive(cells)
    BY <1>2 DEF Alive
  <2> QED  BY <1>2, <2>1, FS_AddElement DEF Bit
<1>3. CASE ~ world[x]
  <2>1. Alive(cells \cup {x}) = Alive(cells)
    BY <1>3 DEF Alive
  <2> QED  BY <1>1, <1>3, <2>1 DEF Bit
<1> QED  BY <1>2, <1>3

AllDifferent(c1, c2, c3, c4, c5, c6, c7, c8) ==
  /\ c2 \notin {c1} /\ c3 \notin {c1, c2} /\ c4 \notin {c1, c2, c3}
  /\ c5 \notin {c1, c2, c3, c4} /\ c6 \notin {c1, c2, c3, c4, c5}
  /\ c7 \notin {c1, c2, c3, c4, c5, c6} /\ c8 \notin {c1, c2, c3, c4, c5, c6, c7}

LEMMA EightCells ==
  ASSUME NEW c1, NEW c2, NEW c3, NEW c4, NEW c5, NEW c6, NEW c7, NEW c8,
         AllDifferent(c1, c2, c3, c4, c5, c6, c7, c8)
  PROVE  Cardinality(Alive({c1, c2, c3, c4, c5, c6, c7, c8}))
           = Bit(world[c1]) + Bit(world[c2]) + Bit(world[c3]) + Bit(world[c4])
             + Bit(world[c5]) + Bit(world[c6]) + Bit(world[c7]) + Bit(world[c8])
<1> DEFINE Is(cells, n) == IsFiniteSet(Alive(cells)) /\ Cardinality(Alive(cells)) = n
<1>0. ASSUME NEW cells, NEW n, Is(cells, n), NEW x, x \notin cells
      PROVE  Is(cells \cup {x}, n + Bit(world[x]))
  BY <1>0, OneMore
<1>1. Is({}, 0)
  <2>1. Alive({}) = {}
    BY DEF Alive
  <2> QED  BY <2>1, FS_EmptySet
<1> HIDE DEF Is
<1> DEFINE b1 == Bit(world[c1])  b2 == Bit(world[c2])  b3 == Bit(world[c3])
           b4 == Bit(world[c4])  b5 == Bit(world[c5])  b6 == Bit(world[c6])
           b7 == Bit(world[c7])  b8 == Bit(world[c8])
           n4 == 0 + b1 + b2 + b3 + b4
<1>a. /\ c2 \notin {c1} /\ c3 \notin {c1, c2} /\ c4 \notin {c1, c2, c3}
      /\ c5 \notin {c1, c2, c3, c4} /\ c6 \notin {c1, c2, c3, c4, c5}
      /\ c7 \notin {c1, c2, c3, c4, c5, c6} /\ c8 \notin {c1, c2, c3, c4, c5, c6, c7}
  BY DEF AllDifferent
<1>2. Is({} \cup {c1}, 0 + b1)
  BY <1>0, <1>1
<1>3. Is({c1} \cup {c2}, 0 + b1 + b2)
  <2>1. {} \cup {c1} = {c1}
    OBVIOUS
  <2> QED  BY <1>0, <1>a, <1>2, <2>1
<1>4. Is({c1, c2} \cup {c3}, 0 + b1 + b2 + b3)
  <2>1. {c1} \cup {c2} = {c1, c2}
    OBVIOUS
  <2> QED  BY <1>0, <1>a, <1>3, <2>1
<1>5. Is({c1, c2, c3} \cup {c4}, n4)
  <2>1. {c1, c2} \cup {c3} = {c1, c2, c3}
    OBVIOUS
  <2> QED  BY <1>0, <1>a, <1>4, <2>1
<1>6. Is({c1, c2, c3, c4} \cup {c5}, n4 + b5)
  <2>1. {c1, c2, c3} \cup {c4} = {c1, c2, c3, c4}
    OBVIOUS
  <2> HIDE DEF n4
  <2> QED  BY <1>0, <1>a, <1>5, <2>1
<1>7. Is({c1, c2, c3, c4, c5} \cup {c6}, n4 + b5 + b6)
  <2>1. {c1, c2, c3, c4} \cup {c5} = {c1, c2, c3, c4, c5}
    OBVIOUS
  <2> HIDE DEF n4
  <2> QED  BY <1>0, <1>a, <1>6, <2>1
<1>8. Is({c1, c2, c3, c4, c5, c6} \cup {c7}, n4 + b5 + b6 + b7)
  <2>1. {c1, c2, c3, c4, c5} \cup {c6} = {c1, c2, c3, c4, c5, c6}
    OBVIOUS
  <2> HIDE DEF n4
  <2> QED  BY <1>0, <1>a, <1>7, <2>1
<1>9. Is({c1, c2, c3, c4, c5, c6, c7} \cup {c8}, n4 + b5 + b6 + b7 + b8)
  <2>1. {c1, c2, c3, c4, c5, c6} \cup {c7} = {c1, c2, c3, c4, c5, c6, c7}
    OBVIOUS
  <2> HIDE DEF n4
  <2> QED  BY <1>0, <1>a, <1>8, <2>1
<1>10. {c1, c2, c3, c4, c5, c6, c7} \cup {c8} = {c1, c2, c3, c4, c5, c6, c7, c8}
  OBVIOUS
<1>11. Cardinality(Alive({c1, c2, c3, c4, c5, c6, c7, c8})) = n4 + b5 + b6 + b7 + b8
  BY <1>9, <1>10 DEF Is
<1>12. /\ b1 \in 0..1 /\ b2 \in 0..1 /\ b3 \in 0..1 /\ b4 \in 0..1
       /\ b5 \in 0..1 /\ b6 \in 0..1 /\ b7 \in 0..1 /\ b8 \in 0..1
  BY DEF Bit
<1> HIDE DEF b1, b2, b3, b4, b5, b6, b7, b8
<1>13. n4 + b5 + b6 + b7 + b8 = b1 + b2 + b3 + b4 + b5 + b6 + b7 + b8
  BY <1>12
<1> QED  BY <1>11, <1>13 DEF b1, b2, b3, b4, b5, b6, b7, b8

(* The three rows, or columns, are different ones, also at an edge.        *)
LEMMA ThreeApart ==
  ASSUME NEW N \in Nat, N >= 5, NEW i \in 0..N-1
  PROVE  /\ (i + (-1)) % N # i /\ (i + 1) % N # i /\ (i + (-1)) % N # (i + 1) % N
         /\ (i + 0) % N = i
<1>1. /\ (i + (-1)) % N = IF i + (-1) < 0 THEN N - 1 ELSE IF i + (-1) >= N THEN 0 ELSE i + (-1)
      /\ (i + 1) % N = IF i + 1 < 0 THEN N - 1 ELSE IF i + 1 >= N THEN 0 ELSE i + 1
      /\ (i + 0) % N = IF i + 0 < 0 THEN N - 1 ELSE IF i + 0 >= N THEN 0 ELSE i + 0
  <2>1. -1 \in -1..1 /\ 1 \in -1..1 /\ 0 \in -1..1
    OBVIOUS
  <2> QED  BY <2>1, Wraps
<1> QED  BY <1>1

(* What count counts is the live cells around, for every cell.             *)
LEMMA CountsAround ==
  ASSUME NEW h \in 0..Height-1, NEW w \in 0..Width-1
  PROVE  Count(h, w) = Cardinality(Alive(Around(<<h, w>>)))
<1>0. Height \in Nat /\ Height >= 5 /\ Width \in Nat /\ Width >= 5
  BY LifeParameters
<1> DEFINE up == (h + (-1)) % Height  down == (h + 1) % Height
           left == (w + (-1)) % Width right == (w + 1) % Width
<1>1. up # h /\ down # h /\ up # down /\ (h + 0) % Height = h
  BY <1>0, ThreeApart
<1>2. left # w /\ right # w /\ left # right /\ (w + 0) % Width = w
  BY <1>0, ThreeApart
<1>3. /\ up = IF h + (-1) < 0 THEN Height - 1 ELSE IF h + (-1) >= Height THEN 0 ELSE h + (-1)
      /\ down = IF h + 1 < 0 THEN Height - 1 ELSE IF h + 1 >= Height THEN 0 ELSE h + 1
  <2>1. -1 \in -1..1 /\ 1 \in -1..1
    OBVIOUS
  <2> QED  BY <1>0, <2>1, Wraps
<1>4. /\ left = IF w + (-1) < 0 THEN Width - 1 ELSE IF w + (-1) >= Width THEN 0 ELSE w + (-1)
      /\ right = IF w + 1 < 0 THEN Width - 1 ELSE IF w + 1 >= Width THEN 0 ELSE w + 1
  <2>1. -1 \in -1..1 /\ 1 \in -1..1
    OBVIOUS
  <2> QED  BY <1>0, <2>1, Wraps
<1> DEFINE ring == {<<up, left>>, <<up, w>>, <<up, right>>, <<h, left>>, <<h, right>>,
                    <<down, left>>, <<down, w>>, <<down, right>>}
<1>5. Around(<<h, w>>) = ring
  <2> DEFINE D == ((-1..1) \X (-1..1)) \ {<<0, 0>>}
             At(d) == <<(h + d[1]) % Height, (w + d[2]) % Width>>
  <2>1. Around(<<h, w>>) = {At(d) : d \in D}
    BY DEF Around
  <2>2. D = {<<-1, -1>>, <<-1, 0>>, <<-1, 1>>, <<0, -1>>, <<0, 1>>, <<1, -1>>, <<1, 0>>, <<1, 1>>}
    <3>1. -1..1 = {-1, 0, 1}
      OBVIOUS
    <3> QED  BY <3>1
  <2>3. /\ At(<<-1, -1>>) = <<up, left>> /\ At(<<-1, 0>>) = <<up, w>>
        /\ At(<<-1, 1>>) = <<up, right>> /\ At(<<0, -1>>) = <<h, left>>
        /\ At(<<0, 1>>) = <<h, right>> /\ At(<<1, -1>>) = <<down, left>>
        /\ At(<<1, 0>>) = <<down, w>> /\ At(<<1, 1>>) = <<down, right>>
    <3>1. (h + 0) % Height = h /\ (w + 0) % Width = w
      BY <1>1, <1>2
    <3> QED  BY <3>1
  <2> HIDE DEF D, At, up, down, left, right
  <2> QED  BY <2>1, <2>2, <2>3
<1>6. /\ HW(h-1, w-1) = <<up, left>> /\ HW(h-1, w) = <<up, w>> /\ HW(h-1, w+1) = <<up, right>>
      /\ HW(h, w-1) = <<h, left>>  /\ HW(h, w+1) = <<h, right>>
      /\ HW(h+1, w-1) = <<down, left>> /\ HW(h+1, w) = <<down, w>>
      /\ HW(h+1, w+1) = <<down, right>>
  <2>1. /\ (IF h-1 < 0 THEN Height - 1 ELSE IF h-1 >= Height THEN 0 ELSE h-1) = up
        /\ (IF h < 0 THEN Height - 1 ELSE IF h >= Height THEN 0 ELSE h) = h
        /\ (IF h+1 < 0 THEN Height - 1 ELSE IF h+1 >= Height THEN 0 ELSE h+1) = down
    <3> HIDE DEF up, down
    <3> QED  BY <1>0, <1>3
  <2>2. /\ (IF w-1 < 0 THEN Width - 1 ELSE IF w-1 >= Width THEN 0 ELSE w-1) = left
        /\ (IF w < 0 THEN Width - 1 ELSE IF w >= Width THEN 0 ELSE w) = w
        /\ (IF w+1 < 0 THEN Width - 1 ELSE IF w+1 >= Width THEN 0 ELSE w+1) = right
    <3> HIDE DEF left, right
    <3> QED  BY <1>0, <1>4
  <2> HIDE DEF up, down, left, right
  <2> QED  BY <2>1, <2>2, Zenon DEF HW
<1> HIDE DEF up, down, left, right
<1>7. Cardinality(Alive(ring))
        = Bit(world[<<up, left>>]) + Bit(world[<<up, w>>]) + Bit(world[<<up, right>>])
          + Bit(world[<<h, left>>]) + Bit(world[<<h, right>>])
          + Bit(world[<<down, left>>]) + Bit(world[<<down, w>>]) + Bit(world[<<down, right>>])
  <2>1. /\ <<up, w>> \notin {<<up, left>>}
        /\ <<up, right>> \notin {<<up, left>>, <<up, w>>}
        /\ <<h, left>> \notin {<<up, left>>, <<up, w>>, <<up, right>>}
        /\ <<h, right>> \notin {<<up, left>>, <<up, w>>, <<up, right>>, <<h, left>>}
        /\ <<down, left>> \notin {<<up, left>>, <<up, w>>, <<up, right>>, <<h, left>>, <<h, right>>}
        /\ <<down, w>> \notin {<<up, left>>, <<up, w>>, <<up, right>>, <<h, left>>, <<h, right>>,
                               <<down, left>>}
        /\ <<down, right>> \notin {<<up, left>>, <<up, w>>, <<up, right>>, <<h, left>>,
                                   <<h, right>>, <<down, left>>, <<down, w>>}
    BY <1>1, <1>2
  <2>2. PICK c1, c2, c3, c4, c5, c6, c7, c8 :
          /\ c1 = <<up, left>> /\ c2 = <<up, w>> /\ c3 = <<up, right>>
          /\ c4 = <<h, left>> /\ c5 = <<h, right>>
          /\ c6 = <<down, left>> /\ c7 = <<down, w>> /\ c8 = <<down, right>>
    OBVIOUS
  <2>3. AllDifferent(c1, c2, c3, c4, c5, c6, c7, c8)
    BY <2>1, <2>2 DEF AllDifferent
  <2>4. Cardinality(Alive({c1, c2, c3, c4, c5, c6, c7, c8}))
          = Bit(world[c1]) + Bit(world[c2]) + Bit(world[c3]) + Bit(world[c4])
            + Bit(world[c5]) + Bit(world[c6]) + Bit(world[c7]) + Bit(world[c8])
    BY <2>3, EightCells
  <2> QED  BY <2>2, <2>4
<1> HIDE DEF ring
<1> QED  BY <1>5, <1>6, <1>7 DEF Count

LEMMA GenerationFollows ==
  ASSUME [LifeNext]_lifeVars, gennum' # gennum, NEW c \in Cells PROVE BornAndSurvive(c)
<1>1. Generation
  BY DEF LifeNext, lifeVars, RefuseLine, SkipLine, FormatLine, DataLine, EndOfFile, OutOfMemory
<1>2. PICK h \in 0..Height-1, w \in 0..Width-1 : c = <<h, w>>
  BY DEF Cells
<1> DEFINE n == Count(h, w)
<1>3. n = Cardinality({a \in Around(c) : world[a]})
  BY <1>2, CountsAround DEF Alive
<1>4. world'[c] = IF world[c] THEN n \in {2, 3} ELSE n = 3
  BY <1>1, <1>2 DEF Generation
<1> HIDE DEF n
<1>5. world'[c] <=> n = 3 \/ (world[c] /\ n = 2)
  BY <1>4
<1> QED  BY <1>3, <1>5 DEF BornAndSurvive

(* From any file, on a world of any size, each generation follows from the *)
(* one before by the rules of Life, at the edges and corners as anywhere.  *)
THEOREM RulesOnAnyTorus == ASSUME NEW CONSTANT text PROVE LifeSpec(text) => RulesOfLife
<1>1. [LifeNext]_lifeVars => [gennum' # gennum => \A c \in Cells : BornAndSurvive(c)]_lifeVars
  BY GenerationFollows
<1> QED  BY <1>1, PTL DEF LifeSpec, RulesOfLife

-----------------------------------------------------------------------------
(* The rows of a pattern are counted in order.                             *)
LEMMA RowsFinite ==
  ASSUME NEW k \in Nat
  PROVE  IsFiniteSet(RowsBefore(k)) /\ Cardinality(RowsBefore(k)) \in Nat
<1>1. IsFiniteSet(1..k-1)
  BY FS_Interval
<1>2. RowsBefore(k) \subseteq 1..k-1
  BY DEF RowsBefore
<1> QED  BY <1>1, <1>2, FS_Subset, FS_CardinalityType

LEMMA RowsGrow ==
  ASSUME NEW k \in Nat, k > 0
  PROVE  Cardinality(RowsBefore(k + 1))
           = IF IsRow(k) THEN Cardinality(RowsBefore(k)) + 1 ELSE Cardinality(RowsBefore(k))
<1>1. k \notin RowsBefore(k)
  BY DEF RowsBefore
<1>2. CASE IsRow(k)
  <2>1. RowsBefore(k + 1) = RowsBefore(k) \cup {k}
    BY <1>2 DEF RowsBefore
  <2> QED  BY <1>1, <1>2, <2>1, RowsFinite, FS_AddElement
<1>3. CASE ~ IsRow(k)
  <2>1. RowsBefore(k + 1) = RowsBefore(k)
    BY <1>3 DEF RowsBefore
  <2> QED  BY <1>3, <2>1
<1> QED  BY <1>2, <1>3

LEMMA RowsApart ==
  ASSUME NEW k \in Nat, NEW m \in Nat, 0 < k, k < m, IsRow(k)
  PROVE  Cardinality(RowsBefore(k)) < Cardinality(RowsBefore(m))
<1>1. RowsBefore(k + 1) \subseteq RowsBefore(m)
  BY DEF RowsBefore
<1>2. IsFiniteSet(RowsBefore(m)) /\ Cardinality(RowsBefore(m)) \in Nat
  BY RowsFinite
<1>3. Cardinality(RowsBefore(k + 1)) <= Cardinality(RowsBefore(m))
  BY <1>1, <1>2, FS_Subset
<1>4. Cardinality(RowsBefore(k + 1)) = Cardinality(RowsBefore(k)) + 1
  BY RowsGrow
<1>5. Cardinality(RowsBefore(k)) \in Nat
  BY RowsFinite
<1> QED  BY <1>2, <1>3, <1>4, <1>5

LEMMA FirstRowIs ==
  ASSUME NEW m \in Nat, m > 0, pattern \in Seq(FileLine), IsRow(m), RowsBefore(m) = {}
  PROVE  FirstRow = m
<1>1. ASSUME NEW k \in DOMAIN pattern, IsRow(k), RowsBefore(k) = {} PROVE k = m
  <2>1. k \in Nat /\ k > 0
    OBVIOUS
  <2>2. ~ (k < m) /\ ~ (m < k)
    BY <1>1, <2>1 DEF RowsBefore
  <2> QED  BY <2>1, <2>2
<1>2. m \in DOMAIN pattern
  BY DEF IsRow
<1> QED  BY <1>1, <1>2 DEF FirstRow

-----------------------------------------------------------------------------
(* While a pattern is loaded, and until the first generation, the world    *)
(* shows what was read of it, if the pattern fits.                         *)
Loaded == Len(pattern) - Len(lines)

Stored(c, m) ==
  \E k \in 1..m : \E i \in DOMAIN pattern[k].cells :
    IsRow(k) /\ pattern[k].cells[i] /\ c = <<RowOf(k), LeftMargin + i - 1>>

LinesInv ==
  /\ pattern \in Seq(FileLine) /\ lines \in Seq(FileLine)
  /\ Loaded >= 0
  /\ \A k \in 1..Len(lines) : lines[k] = pattern[Loaded + k]

ShownInv ==
  /\ lpc = "load" =>
       /\ readformat <=> \E j \in 1..Loaded : pattern[j].kind = "#P"
       /\ row = Cardinality(RowsBefore(Loaded + 1))
       /\ row > 0 => offsetw = LeftMargin
  /\ lpc = "load" \/ (lpc = "live" /\ gennum = 0) =>
       (Fits => \A c \in Cells : world[c] <=> Stored(c, Loaded))
  /\ lpc = "live" => lines = <<>>

LifeInv == LifeTypeOK /\ LinesInv /\ ShownInv

LEMMA LifeInitInv ==
  ASSUME NEW CONSTANT text, text \in Seq(FileLine), LifeInit(text) PROVE LifeInv
<1>1. /\ pattern \in Seq(FileLine) /\ lines = pattern /\ Loaded = 0
      /\ readformat = FALSE /\ row = 0 /\ offsetw = 0 /\ gennum = 0 /\ lpc = "load"
      /\ world = [c \in Cells |-> FALSE]
  <2>1. pattern = text /\ lines = text /\ Len(text) \in Nat
    BY DEF LifeInit
  <2>2. Loaded = 0
    BY <2>1 DEF Loaded
  <2> QED  BY <2>1, <2>2 DEF LifeInit
<1>2. LifeTypeOK
  <2>1. world \in [Cells -> BOOLEAN]
    BY <1>1
  <2>2. 0 \in 0..MaxGenerations
    BY LifeParameters
  <2>3. row \in Nat /\ offsetw \in Int /\ gennum \in 0..MaxGenerations
    BY <1>1, <2>2
  <2>4. readformat \in BOOLEAN /\ lpc \in {"load", "live", "exit"}
    BY <1>1, Zenon
  <2> QED  BY <2>1, <2>3, <2>4, Zenon DEF LifeTypeOK
<1>3. LinesInv
  BY <1>1 DEF LinesInv
<1>4. RowsBefore(0 + 1) = {}
  BY DEF RowsBefore
<1>5. Cardinality(RowsBefore(0 + 1)) = 0
  BY <1>4, FS_EmptySet
<1>6. \A c : ~ Stored(c, 0)
  BY DEF Stored
<1>7. ShownInv
  BY <1>1, <1>5, <1>6 DEF ShownInv
<1> QED  BY <1>2, <1>3, <1>7 DEF LifeInv

(* The line that is read is the next of the pattern.                       *)
LEMMA NextLineIs ==
  ASSUME LinesInv, NextLine, pattern' = pattern
  PROVE  /\ LinesInv' /\ Loaded' = Loaded + 1
         /\ Loaded \in Nat /\ Loaded + 1 \in DOMAIN pattern
         /\ Line = pattern[Loaded + 1] /\ Line \in FileLine
<1>1. /\ lines \in Seq(FileLine) /\ lines # <<>> /\ lines' = Tail(lines)
      /\ pattern \in Seq(FileLine)
  BY DEF LinesInv, NextLine
<1>2. /\ lines' \in Seq(FileLine) /\ Len(lines') = Len(lines) - 1
      /\ \A k \in 1..Len(lines) - 1 : lines'[k] = lines[k + 1]
      /\ Line = lines[1] /\ Line \in FileLine
      /\ Len(lines) \in Nat /\ Len(lines) > 0 /\ Len(pattern) \in Nat
  BY <1>1 DEF Line
<1>3. PICK m \in Nat : m = Loaded /\ m = Len(pattern) - Len(lines)
  <2>1. Loaded = Len(pattern) - Len(lines) /\ Loaded >= 0
    BY DEF Loaded, LinesInv
  <2>2. Loaded \in Nat
    <3> HIDE DEF Loaded
    <3>1. PICK a \in Nat, b \in Nat : a = Len(pattern) /\ b = Len(lines)
      BY <1>2
    <3> QED  BY <2>1, <3>1
  <2> QED  BY <2>1, <2>2, Zenon
<1>4. Loaded' = Len(pattern) - Len(lines')
  BY DEF Loaded
<1>5. Loaded' = m + 1
  BY <1>2, <1>3, <1>4
<1>6. \A k \in 1..Len(lines) : lines[k] = pattern[m + k]
  BY <1>3 DEF LinesInv
<1>7. ASSUME NEW k \in 1..Len(lines') PROVE lines'[k] = pattern[m + 1 + k]
  <2>1. PICK j \in 1..Len(lines) : j = k + 1 /\ m + j = m + 1 + k
    <3>1. k + 1 \in 1..Len(lines) /\ m + (k + 1) = m + 1 + k
      BY <1>2
    <3> QED  BY <3>1
  <2>2. lines'[k] = lines[k + 1]
    BY <1>2
  <2> QED  BY <1>6, <2>1, <2>2
<1>8. LinesInv'
  BY <1>1, <1>2, <1>5, <1>7 DEF LinesInv
<1>9. m + 1 \in DOMAIN pattern /\ Line = pattern[m + 1]
  BY <1>1, <1>2, <1>3, <1>6
<1> QED  BY <1>2, <1>3, <1>5, <1>8, <1>9

(* The last of the characters that go to a cell decides.                   *)
LEMMA PlaceHasLast ==
  ASSUME NEW line \in FileLine, NEW c, Place(line, c) # {}
  PROVE  LET last == CHOOSE w \in Place(line, c) : \A v \in Place(line, c) : v <= w
         IN  last \in Place(line, c) /\ line.cells[last] \in BOOLEAN
<1> DEFINE here == Place(line, c)
           last == CHOOSE w \in here : \A v \in here : v <= w
<1>1. line.cells \in Seq(BOOLEAN)
  BY DEF FileLine
<1>2. PICK N \in Nat : N = Len(line.cells)
  BY <1>1
<1>3. here \subseteq 1..N
  BY <1>1, <1>2 DEF Place
<1>4. here # {}
  OBVIOUS
<1> HIDE DEF here
<1>5. \E w \in here : \A v \in here : v <= w
  BY <1>3, <1>4, NatGreatest
<1>6. last \in here
  BY <1>5
<1>7. \A w \in 1..N : line.cells[w] \in BOOLEAN
  BY <1>1, <1>2
<1> QED  BY <1>3, <1>6, <1>7 DEF here

(* In a pattern that fits, each goes to a cell of its own.                 *)
LEMMA PlaceIs ==
  ASSUME NEW line \in FileLine, NEW r \in Nat, NEW l \in Nat,
         r = row + Height \div 5, r < Height, l = Column(line),
         l + Len(line.cells) <= Width, NEW c
  PROVE  Place(line, c) = {w \in DOMAIN line.cells : c = <<r, l + w - 1>>}
<1>1. line.cells \in Seq(BOOLEAN)
  BY DEF FileLine
<1>2. ASSUME NEW w \in DOMAIN line.cells
      PROVE  HW(row + Height \div 5, w - 1 + Column(line)) = <<r, l + w - 1>>
  <2>1. w \in 1..Len(line.cells) /\ Len(line.cells) \in Nat
    BY <1>1
  <2>2. /\ Height \in Nat /\ Width \in Nat
    BY LifeParameters
  <2>3. PICK j \in Nat : j = l + w - 1 /\ j = w - 1 + Column(line) /\ j < Width
    <3>1. l + w - 1 \in Nat /\ l + w - 1 < Width /\ l + w - 1 = w - 1 + l
      BY <2>1, <2>2
    <3> QED  BY <3>1
  <2>4. HW(r, j) = <<r, j>>
    BY <2>2, <2>3 DEF HW
  <2> QED  BY <2>3, <2>4
<1> QED  BY <1>2 DEF Place

LEMMA DataLineInv == ASSUME LifeInv, DataLine PROVE LifeInv'
<1>1. /\ lpc = "load" /\ lpc' = "load" /\ pattern' = pattern /\ NextLine
      /\ Line.kind = "data" /\ readformat /\ readformat' = readformat
      /\ offsetw' = Column(Line) /\ row' = row + 1 /\ gennum' = gennum
      /\ world' = [c \in Cells |->
           IF Place(Line, c) = {} THEN world[c]
           ELSE Line.cells[CHOOSE w \in Place(Line, c) : \A v \in Place(Line, c) : v <= w]]
  BY DEF DataLine, NextLine
<1>2. /\ LinesInv' /\ Loaded' = Loaded + 1
      /\ Loaded \in Nat /\ Loaded + 1 \in DOMAIN pattern
      /\ Line = pattern[Loaded + 1] /\ Line \in FileLine
  BY <1>1, NextLineIs DEF LifeInv
<1>3. PICK m \in Nat : m = Loaded + 1 /\ m > 0 /\ m - 1 = Loaded
  BY <1>2
<1>4. /\ pattern \in Seq(FileLine) /\ row \in Nat /\ world \in [Cells -> BOOLEAN]
      /\ row = Cardinality(RowsBefore(m))
      /\ row > 0 => offsetw = LeftMargin
      /\ Fits => \A c \in Cells : world[c] <=> Stored(c, m - 1)
      /\ \E j \in 1..m - 1 : pattern[j].kind = "#P"
  BY <1>1, <1>3 DEF LifeInv, LifeTypeOK, LinesInv, ShownInv
<1>5. IsRow(m)
  BY <1>1, <1>2, <1>3, <1>4 DEF IsRow
<1>6. Column(Line) = LeftMargin
  <2>1. CASE row = 0
    <3>1. RowsBefore(m) = {}
      BY <1>4, <2>1, RowsFinite, FS_EmptySet
    <3>2. FirstRow = m
      BY <1>3, <1>4, <1>5, <3>1, FirstRowIs
    <3> QED  BY <1>2, <1>3, <2>1, <3>2 DEF Column, LeftMargin
  <2>2. CASE row # 0
    BY <1>4, <2>2 DEF Column
  <2> QED  BY <2>1, <2>2
<1>7. Cardinality(RowsBefore(m + 1)) = row + 1
  BY <1>3, <1>4, <1>5, RowsGrow
<1>8. offsetw' \in Int
  <2>1. Width - Len(Line.cells) \in Int
    <3>1. Line.cells \in Seq(BOOLEAN)
      BY <1>2 DEF FileLine
    <3>2. Len(Line.cells) \in Nat
      BY <3>1
    <3> QED  BY <3>2, LifeParameters
  <2>2. (Width - Len(Line.cells)) \div 2 \in Int
    BY <2>1
  <2>3. offsetw \in Int
    BY DEF LifeInv, LifeTypeOK
  <2> QED  BY <1>1, <2>2, <2>3 DEF Column
<1>9. world' \in [Cells -> BOOLEAN]
  BY <1>1, <1>2, <1>4, PlaceHasLast, ZenonT(60)
<1>10. LifeTypeOK'
  BY <1>1, <1>4, <1>8, <1>9 DEF LifeInv, LifeTypeOK
<1>11. UNCHANGED <<Fits, LeftMargin>> /\ \A k : IsRow(k)' <=> IsRow(k)
  BY <1>1 DEF Fits, LeftMargin, FirstRow, IsRow, RowsBefore, RowOf
<1>12. \A k : RowsBefore(k)' = RowsBefore(k) /\ RowOf(k)' = RowOf(k)
  BY <1>1, <1>11 DEF RowsBefore, RowOf
<1>13. ASSUME Fits, NEW c \in Cells PROVE world'[c] <=> Stored(c, m)
  <2>1. PICK r \in Nat : r = RowOf(m) /\ r = row + Height \div 5 /\ r < Height
    <3>1. Height \div 5 \in Nat
      BY LifeParameters
    <3>2. RowOf(m) = Height \div 5 + row
      BY <1>4 DEF RowOf, TopMargin
    <3>3. RowOf(m) < Height
      BY <1>2, <1>3, <1>5, <1>13 DEF Fits
    <3> QED  BY <1>4, <3>1, <3>2, <3>3
  <2>2. PICK l \in Nat : l = LeftMargin /\ l + Len(Line.cells) <= Width
    <3>1. LeftMargin \in Int
      BY <1>1, <1>6, <1>8
    <3>2. LeftMargin >= 0 /\ LeftMargin + Len(Line.cells) <= Width
      BY <1>2, <1>3, <1>5, <1>13 DEF Fits
    <3> QED  BY <3>1, <3>2
  <2> DEFINE here == {w \in DOMAIN Line.cells : c = <<r, l + w - 1>>}
  <2>3. Place(Line, c) = here
    <3>1. PICK line \in FileLine : line = Line
      BY <1>2
    <3>2. /\ r = row + Height \div 5 /\ r < Height /\ l = Column(line)
          /\ l + Len(line.cells) <= Width
      BY <1>6, <2>1, <2>2, <3>1
    <3>3. Place(line, c) = {w \in DOMAIN line.cells : c = <<r, l + w - 1>>}
      BY <3>2, PlaceIs
    <3> QED  BY <3>1, <3>3
  <2>4. world'[c] = IF here = {} THEN world[c]
                    ELSE Line.cells[CHOOSE w \in here : \A v \in here : v <= w]
    BY <1>1, <2>3
  <2>5. \A k \in 1..m - 1 : IsRow(k) => RowOf(k) # r
    <3>1. ASSUME NEW k \in 1..m - 1, IsRow(k) PROVE RowOf(k) # r
      <4>1. Cardinality(RowsBefore(k)) < Cardinality(RowsBefore(m))
        BY <1>3, <3>1, RowsApart
      <4>2. Cardinality(RowsBefore(k)) \in Nat /\ Height \div 5 \in Nat
        BY RowsFinite, LifeParameters
      <4> QED  BY <1>4, <2>1, <4>1, <4>2 DEF RowOf, TopMargin
    <3> QED  BY <3>1
  <2>6. world[c] <=> Stored(c, m - 1)
    BY <1>4, <1>13
  <2>7. Line.cells \in Seq(BOOLEAN) /\ Line = pattern[m]
    BY <1>2, <1>3 DEF FileLine
  <2>8. CASE here = {}
    <3>1. Stored(c, m) <=> Stored(c, m - 1)
      <4>1. \A i \in DOMAIN pattern[m].cells : c # <<RowOf(m), LeftMargin + i - 1>>
        BY <2>1, <2>2, <2>7, <2>8
      <4>2. \A k \in 1..m : k = m \/ k \in 1..m - 1
        BY <1>3
      <4>3. \A k \in 1..m - 1 : k \in 1..m
        BY <1>3
      <4> QED  BY <4>1, <4>2, <4>3 DEF Stored
    <3> QED  BY <2>4, <2>6, <2>8, <3>1
  <2>9. CASE here # {}
    <3>1. PICK w \in here : TRUE
      BY <2>9
    <3>2. w \in DOMAIN Line.cells /\ c = <<r, l + w - 1>> /\ w \in Int
      BY <2>7, <3>1
    <3>3. ASSUME NEW i \in DOMAIN Line.cells, c = <<r, l + i - 1>> PROVE i = w
      <4>1. i \in Int /\ l + i - 1 = l + w - 1
        BY <2>7, <3>2, <3>3
      <4> QED  BY <3>2, <4>1
    <3>4. here = {w}
      BY <3>2, <3>3
    <3>5. (CHOOSE x \in here : \A v \in here : v <= x) = w
      BY <3>2, <3>4
    <3>6. world'[c] = Line.cells[w]
      BY <2>4, <2>9, <3>5
    <3>7. Stored(c, m) <=> Line.cells[w]
      <4>1. ASSUME NEW k \in 1..m, NEW i \in DOMAIN pattern[k].cells,
                   IsRow(k), pattern[k].cells[i], c = <<RowOf(k), LeftMargin + i - 1>>
            PROVE  Line.cells[w]
        <5>1. RowOf(k) = r
          BY <3>2, <4>1
        <5>2. k = m
          BY <1>3, <2>5, <4>1, <5>1
        <5>3. i = w
          BY <2>1, <2>2, <2>7, <3>3, <4>1, <5>2
        <5> QED  BY <2>7, <4>1, <5>2, <5>3
      <4>2. ASSUME Line.cells[w] PROVE Stored(c, m)
        <5>1. m \in 1..m /\ w \in DOMAIN pattern[m].cells
          BY <1>3, <2>7, <3>2
        <5>2. pattern[m].cells[w] /\ c = <<RowOf(m), LeftMargin + w - 1>>
          BY <2>1, <2>2, <2>7, <3>2, <4>2
        <5> QED  BY <1>5, <5>1, <5>2 DEF Stored
      <4> QED  BY <4>1, <4>2 DEF Stored
    <3> QED  BY <3>6, <3>7
  <2> QED  BY <2>8, <2>9
<1>14. \A c : Stored(c, m)' <=> Stored(c, m)
  BY <1>1, <1>11, <1>12 DEF Stored
<1>15. Fits' => \A c \in Cells : world'[c] <=> Stored(c, Loaded)'
  BY <1>2, <1>3, <1>11, <1>13, <1>14
<1>16. readformat' <=> \E j \in 1..Loaded' : pattern'[j].kind = "#P"
  BY <1>1, <1>2, <1>3, <1>4
<1>17. row' = Cardinality(RowsBefore(Loaded + 1))'
  BY <1>1, <1>2, <1>3, <1>7, <1>12
<1>18. offsetw' = LeftMargin'
  BY <1>1, <1>6, <1>11
<1>19. ShownInv'
  BY <1>1, <1>15, <1>16, <1>17, <1>18 DEF ShownInv
<1> QED  BY <1>2, <1>10, <1>19 DEF LifeInv

(* A line that is no row changes nothing that is shown.                    *)
LEMMA NoRow ==
  ASSUME LifeInv, NextLine, lpc = "load", lpc' = "load",
         UNCHANGED <<pattern, world, row, offsetw, gennum>>,
         ~ (Line.kind = "data" /\ readformat), readformat' \in BOOLEAN,
         readformat' <=> readformat \/ Line.kind = "#P"
  PROVE  LifeInv'
<1>1. /\ LinesInv' /\ Loaded' = Loaded + 1
      /\ Loaded \in Nat /\ Loaded + 1 \in DOMAIN pattern
      /\ Line = pattern[Loaded + 1] /\ Line \in FileLine
  BY NextLineIs DEF LifeInv
<1>2. PICK m \in Nat : m = Loaded + 1 /\ m > 0 /\ m - 1 = Loaded
  BY <1>1
<1>3. /\ readformat <=> \E j \in 1..m - 1 : pattern[j].kind = "#P"
      /\ row = Cardinality(RowsBefore(m)) /\ (row > 0 => offsetw = LeftMargin)
      /\ Fits => \A c \in Cells : world[c] <=> Stored(c, m - 1)
  BY <1>2 DEF LifeInv, ShownInv
<1>4. ~ IsRow(m)
  BY <1>1, <1>2, <1>3 DEF IsRow
<1>5. row = Cardinality(RowsBefore(m + 1))
  <2>1. Cardinality(RowsBefore(m + 1)) = Cardinality(RowsBefore(m))
    BY <1>2, <1>4, RowsGrow
  <2> QED  BY <1>3, <2>1
<1>6. ASSUME NEW c PROVE Stored(c, m) <=> Stored(c, m - 1)
  <2>1. \A k \in 1..m : k = m \/ k \in 1..m - 1
    BY <1>2
  <2>2. \A k \in 1..m - 1 : k \in 1..m
    BY <1>2
  <2> QED  BY <1>4, <2>1, <2>2 DEF Stored
<1>7. /\ UNCHANGED <<Fits, LeftMargin>>
      /\ \A k : RowsBefore(k)' = RowsBefore(k)
      /\ \A c : Stored(c, m)' <=> Stored(c, m)
  BY DEF Fits, LeftMargin, FirstRow, IsRow, RowsBefore, RowOf, Stored
<1>8. Fits' => \A c \in Cells : world'[c] <=> Stored(c, Loaded)'
  BY <1>1, <1>2, <1>3, <1>6, <1>7
<1>9. readformat' <=> \E j \in 1..Loaded' : pattern'[j].kind = "#P"
  <2>1. \A j \in 1..m : j = m \/ j \in 1..m - 1
    BY <1>2
  <2>2. \A j \in 1..m - 1 : j \in 1..m
    BY <1>2
  <2>3. m \in 1..m
    BY <1>2
  <2>4. (\E j \in 1..m : pattern[j].kind = "#P")
          <=> ((\E j \in 1..m - 1 : pattern[j].kind = "#P") \/ pattern[m].kind = "#P")
    BY <2>1, <2>2, <2>3, Zenon
  <2> QED  BY <1>1, <1>2, <1>3, <2>4
<1>10. row' = Cardinality(RowsBefore(Loaded + 1))'
  BY <1>1, <1>2, <1>5, <1>7
<1>11. /\ row' = row /\ offsetw' = offsetw /\ LeftMargin' = LeftMargin
       /\ lpc' = "load" /\ (row > 0 => offsetw = LeftMargin)
  BY <1>3, <1>7
<1>12. row' > 0 => offsetw' = LeftMargin'
  BY <1>11
<1>13. ShownInv'
  BY <1>8, <1>9, <1>10, <1>11, <1>12 DEF ShownInv
<1>14. LifeTypeOK'
  BY DEF LifeInv, LifeTypeOK
<1> QED  BY <1>1, <1>13, <1>14 DEF LifeInv

LEMMA LifeStepInv == ASSUME LifeInv, [LifeNext]_lifeVars PROVE LifeInv'
<1>1. CASE DataLine  BY <1>1, DataLineInv
<1>2. CASE SkipLine
  <2>1. /\ NextLine /\ lpc = "load" /\ lpc' = "load" /\ readformat' = readformat
        /\ UNCHANGED <<pattern, world, row, offsetw, gennum>>
        /\ ~ (Line.kind = "data" /\ readformat) /\ Line.kind # "#P"
    BY <1>2 DEF SkipLine, NextLine
  <2>2. readformat \in BOOLEAN
    BY DEF LifeInv, LifeTypeOK
  <2> QED  BY <2>1, <2>2, NoRow
<1>3. CASE FormatLine
  <2>1. /\ NextLine /\ lpc = "load" /\ lpc' = "load" /\ readformat' = TRUE
        /\ UNCHANGED <<pattern, world, row, offsetw, gennum>>
        /\ Line.kind = "#P" /\ Line.kind # "data"
    BY <1>3 DEF FormatLine, NextLine
  <2> QED  BY <2>1, NoRow
<1>4. CASE RefuseLine
  <2>1. NextLine /\ lpc' = "exit"
        /\ UNCHANGED <<pattern, world, readformat, row, offsetw, gennum>>
    BY <1>4 DEF RefuseLine
  <2>2. LinesInv'
    BY <2>1, NextLineIs DEF LifeInv
  <2>3. ShownInv'
    BY <2>1 DEF ShownInv
  <2>4. LifeTypeOK'
    BY <2>1 DEF LifeInv, LifeTypeOK
  <2> QED  BY <2>2, <2>3, <2>4 DEF LifeInv
<1>5. CASE EndOfFile \/ OutOfMemory \/ UNCHANGED lifeVars
  <2>1. /\ UNCHANGED <<pattern, world, lines, readformat, row, offsetw, gennum>>
        /\ \/ lpc = "load" /\ lines = <<>> /\ lpc' = "live"
           \/ lpc' = "exit"
           \/ lpc' = lpc
    BY <1>5 DEF EndOfFile, OutOfMemory, lifeVars
  <2>2. LinesInv' /\ UNCHANGED <<Loaded, Fits, LeftMargin>>
        /\ (\A k : RowsBefore(k)' = RowsBefore(k))
        /\ \A c, m : Stored(c, m)' <=> Stored(c, m)
    BY <2>1
    DEF LifeInv, LinesInv, Loaded, Fits, LeftMargin, FirstRow, IsRow, RowsBefore, RowOf, Stored
  <2>3. ShownInv'
    BY <2>1, <2>2 DEF LifeInv, ShownInv
  <2>4. LifeTypeOK'
    BY <2>1 DEF LifeInv, LifeTypeOK
  <2> QED  BY <2>2, <2>3, <2>4 DEF LifeInv
<1>6. CASE Generation
  <2>1. /\ lpc = "live" /\ gennum < MaxGenerations /\ gennum' = gennum + 1
        /\ UNCHANGED <<pattern, lines, readformat, row, offsetw, lpc>>
        /\ world' = [c \in Cells |-> LET size == Count(c[1], c[2])
                                     IN  IF world[c] THEN size \in {2, 3} ELSE size = 3]
    BY <1>6 DEF Generation
  <2>2. gennum \in 0..MaxGenerations /\ row \in Nat /\ offsetw \in Int /\ lines = <<>>
    BY <2>1 DEF LifeInv, LifeTypeOK, ShownInv
  <2>3. gennum' \in 0..MaxGenerations /\ gennum' # 0
    BY <2>1, <2>2, LifeParameters
  <2> DEFINE alive(c) == IF world[c] THEN Count(c[1], c[2]) \in {2, 3}
                                     ELSE Count(c[1], c[2]) = 3
  <2>4. world' \in [Cells -> BOOLEAN]
    <3>1. \A c \in Cells : alive(c) \in BOOLEAN
      <4>1. TAKE c \in Cells
      <4>2. (Count(c[1], c[2]) \in {2, 3}) \in BOOLEAN /\ (Count(c[1], c[2]) = 3) \in BOOLEAN
        OBVIOUS
      <4> QED  BY <4>2, Zenon
    <3>2. world' = [c \in Cells |-> alive(c)]
      BY <2>1
    <3> HIDE DEF alive
    <3> QED  BY <3>1, <3>2
  <2>5. LifeTypeOK'
    BY <2>1, <2>3, <2>4 DEF LifeInv, LifeTypeOK
  <2>6. LinesInv' /\ ShownInv'
    BY <2>1, <2>2, <2>3 DEF LifeInv, LinesInv, ShownInv, Loaded
  <2> QED  BY <2>5, <2>6 DEF LifeInv
<1> QED
  BY <1>1, <1>2, <1>3, <1>4, <1>5, <1>6 DEF LifeNext

LEMMA LifeInvShows == LifeInv => PatternShown
<1>1. SUFFICES ASSUME LifeInv, lpc = "live", gennum = 0, Fits, NEW c \in Cells
               PROVE  world[c] <=>
                 \E k \in DOMAIN pattern : \E i \in DOMAIN pattern[k].cells :
                   IsRow(k) /\ pattern[k].cells[i] /\ c = <<RowOf(k), LeftMargin + i - 1>>
  BY DEF PatternShown
<1>2. /\ pattern \in Seq(FileLine) /\ lines = <<>> /\ Len(<<>>) = 0
      /\ world[c] <=> Stored(c, Loaded)
  BY <1>1 DEF LifeInv, LinesInv, ShownInv
<1>3. Loaded = Len(pattern) /\ DOMAIN pattern = 1..Len(pattern)
  BY <1>2 DEF Loaded
<1> QED  BY <1>2, <1>3 DEF Stored

(* A pattern that fits is shown where it belongs, from any file and on a   *)
(* world of any size.                                                      *)
THEOREM AnyPatternShown ==
  ASSUME NEW CONSTANT text \in Seq(FileLine) PROVE LifeSpec(text) => []PatternShown
<1>1. LifeInit(text) => LifeInv
  BY LifeInitInv
<1>2. LifeInv /\ [LifeNext]_lifeVars => LifeInv'
  BY LifeStepInv
<1> QED  BY <1>1, <1>2, LifeInvShows, PTL DEF LifeSpec

(* The types of mctlife, for any file: the world stays a world.            *)
THEOREM LifeTypes ==
  ASSUME NEW CONSTANT text \in Seq(FileLine) PROVE LifeSpec(text) => []LifeTypeOK
<1>1. LifeInit(text) => LifeInv
  BY LifeInitInv
<1>2. LifeInv /\ [LifeNext]_lifeVars => LifeInv'
  BY LifeStepInv
<1>3. LifeInv => LifeTypeOK
  BY DEF LifeInv
<1> QED  BY <1>1, <1>2, <1>3, PTL DEF LifeSpec

-----------------------------------------------------------------------------
LEMMA SameElements == ASSUME NEW A, NEW B, \A c : c \in A <=> c \in B PROVE A = B
OBVIOUS

(* The glider, on a world of any size.  Places are counted from the corner *)
(* of the glider that it starts a period in, down and to the right.        *)
Prev(n, i) == IF i = 0 THEN n - 1 ELSE i - 1
After(n, i) == IF i = n - 1 THEN 0 ELSE i + 1

(* The live places in the five generations of a period.                    *)
Shape(g, i, j) ==
  \/ g = 0 /\ ((i = 0 /\ j = 1) \/ (i = 1 /\ j = 2) \/ (i = 2 /\ (j = 0 \/ j = 1 \/ j = 2)))
  \/ g = 1 /\ ((i = 1 /\ (j = 0 \/ j = 2)) \/ (i = 2 /\ (j = 1 \/ j = 2)) \/ (i = 3 /\ j = 1))
  \/ g = 2 /\ ((i = 1 /\ j = 2) \/ (i = 2 /\ (j = 0 \/ j = 2)) \/ (i = 3 /\ (j = 1 \/ j = 2)))
  \/ g = 3 /\ ((i = 1 /\ j = 1) \/ (i = 2 /\ (j = 2 \/ j = 3)) \/ (i = 3 /\ (j = 1 \/ j = 2)))
  \/ g = 4 /\ ((i = 1 /\ j = 2) \/ (i = 2 /\ j = 3) \/ (i = 3 /\ (j = 1 \/ j = 2 \/ j = 3)))

(* Five rows are enough that what is below the glider is not above it.     *)
LEMMA ShapeFollows ==
  ASSUME NEW m \in Nat, m >= 5, NEW n \in Nat, n >= 5, NEW i \in 0..m-1, NEW j \in 0..n-1,
         NEW u, u = Prev(m, i), NEW d, d = After(m, i), NEW l, l = Prev(n, j), NEW t, t = After(n, j),
         NEW g \in 0..3, NEW k,
         k = Bit(Shape(g, u, l)) + Bit(Shape(g, u, j)) + Bit(Shape(g, u, t))
             + Bit(Shape(g, i, l)) + Bit(Shape(g, i, t))
             + Bit(Shape(g, d, l)) + Bit(Shape(g, d, j)) + Bit(Shape(g, d, t))
  PROVE  Shape(g + 1, i, j) <=> (k = 3 \/ (Shape(g, i, j) /\ k = 2))
<1>1. CASE g = 0  BY <1>1 DEF Prev, After, Shape, Bit
<1>2. CASE g = 1  BY <1>2 DEF Prev, After, Shape, Bit
<1>3. CASE g = 2  BY <1>3 DEF Prev, After, Shape, Bit
<1>4. CASE g = 3  BY <1>4 DEF Prev, After, Shape, Bit
<1> QED  BY <1>1, <1>2, <1>3, <1>4

(* How far x is from b, downwards or to the right, and the cells so far    *)
(* from a cell that show a generation of the glider.                       *)
From(n, b, x) == IF x >= b THEN x - b ELSE x - b + n
Shows(f, g, a, b) ==
  \A c \in Cells : f[c] <=> Shape(g, From(Height, a, c[1]), From(Width, b, c[2]))

(* After four generations the same shape is at the next cell.              *)
LEMMA ShapeMoves ==
  ASSUME NEW f, NEW a \in 0..Height-1, NEW b \in 0..Width-1, Shows(f, 4, a, b)
  PROVE  Shows(f, 0, After(Height, a), After(Width, b))
<1>0. Height \in Nat /\ Height >= 5 /\ Width \in Nat /\ Width >= 5
  BY LifeParameters
<1> SUFFICES ASSUME NEW c \in Cells
             PROVE  f[c] <=> Shape(0, From(Height, After(Height, a), c[1]),
                                          From(Width, After(Width, b), c[2]))
  BY DEF Shows
<1>1. PICK h \in 0..Height-1, w \in 0..Width-1 : c = <<h, w>>
  BY DEF Cells
<1>2. f[c] <=> Shape(4, From(Height, a, h), From(Width, b, w))
  BY <1>1 DEF Shows
<1>3. /\ From(Height, After(Height, a), h) = Prev(Height, From(Height, a, h))
      /\ From(Width, After(Width, b), w) = Prev(Width, From(Width, b, w))
      /\ From(Height, a, h) \in 0..Height-1 /\ From(Width, b, w) \in 0..Width-1
  BY <1>0 DEF From, After, Prev
<1>4. \A i \in 0..Height-1, j \in 0..Width-1 :
        Shape(4, i, j) <=> Shape(0, Prev(Height, i), Prev(Width, j))
  BY <1>0 DEF Shape, Prev
<1> QED  BY <1>1, <1>2, <1>3, <1>4

(* Neighbours on the torus are neighbours in these distances, too.         *)
Wrap(n, x) == IF x < 0 THEN n - 1 ELSE IF x >= n THEN 0 ELSE x

LEMMA FromWraps ==
  ASSUME NEW n \in Nat, n >= 5, NEW b \in 0..n-1, NEW x \in 0..n-1
  PROVE  /\ From(n, b, x) \in 0..n-1
         /\ Wrap(n, x) = x /\ Wrap(n, x-1) \in 0..n-1 /\ Wrap(n, x+1) \in 0..n-1
         /\ From(n, b, Wrap(n, x-1)) = Prev(n, From(n, b, x))
         /\ From(n, b, Wrap(n, x+1)) = After(n, From(n, b, x))
BY DEF From, Wrap, Prev, After

LEMMA GliderStep ==
  ASSUME NEW g \in 0..3, NEW a \in 0..Height-1, NEW b \in 0..Width-1, Shows(world, g, a, b), Generation
  PROVE  Shows(world', g + 1, a, b)
<1>0. Height \in Nat /\ Height >= 5 /\ Width \in Nat /\ Width >= 5
  BY LifeParameters
<1> SUFFICES ASSUME NEW c \in Cells
             PROVE  world'[c] <=> Shape(g + 1, From(Height, a, c[1]), From(Width, b, c[2]))
  BY DEF Shows
<1>1. PICK h \in 0..Height-1, w \in 0..Width-1 : c = <<h, w>>
  BY DEF Cells
<1>2. PICK up, down : up = Wrap(Height, h-1) /\ down = Wrap(Height, h+1)
  OBVIOUS
<1>3. PICK left, right : left = Wrap(Width, w-1) /\ right = Wrap(Width, w+1)
  OBVIOUS
<1>4. PICK i, j : i = From(Height, a, h) /\ j = From(Width, b, w)
  OBVIOUS
<1>5. /\ i \in 0..Height-1 /\ up \in 0..Height-1 /\ down \in 0..Height-1
      /\ Wrap(Height, h) = h
      /\ From(Height, a, up) = Prev(Height, i) /\ From(Height, a, down) = After(Height, i)
  BY <1>0, <1>2, <1>4, FromWraps
<1>6. /\ j \in 0..Width-1 /\ left \in 0..Width-1 /\ right \in 0..Width-1
      /\ Wrap(Width, w) = w
      /\ From(Width, b, left) = Prev(Width, j) /\ From(Width, b, right) = After(Width, j)
  BY <1>0, <1>3, <1>4, FromWraps
<1>7. PICK u, d, l, t : /\ u = Prev(Height, i) /\ d = After(Height, i)
                        /\ l = Prev(Width, j) /\ t = After(Width, j)
  OBVIOUS
<1>8. ASSUME NEW x \in 0..Height-1, NEW y \in 0..Width-1,
             NEW p, p = From(Height, a, x), NEW q, q = From(Width, b, y)
      PROVE  Bit(world[<<x, y>>]) = Bit(Shape(g, p, q))
  <2>1. world[<<x, y>>] <=> Shape(g, From(Height, a, x), From(Width, b, y))
    BY DEF Shows, Cells
  <2> QED  BY <1>8, <2>1 DEF Bit
<1>9. HW(h-1, w-1) = <<up, left>> /\ HW(h-1, w) = <<up, w>> /\ HW(h-1, w+1) = <<up, right>>
      /\ HW(h, w-1) = <<h, left>> /\ HW(h, w+1) = <<h, right>>
      /\ HW(h+1, w-1) = <<down, left>> /\ HW(h+1, w) = <<down, w>>
      /\ HW(h+1, w+1) = <<down, right>>
  BY <1>2, <1>3, <1>5, <1>6, Zenon DEF HW, Wrap
<1>10. /\ Bit(world[<<up, left>>]) = Bit(Shape(g, u, l)) /\ Bit(world[<<up, w>>]) = Bit(Shape(g, u, j))
       /\ Bit(world[<<up, right>>]) = Bit(Shape(g, u, t))
       /\ Bit(world[<<h, left>>]) = Bit(Shape(g, i, l))
       /\ Bit(world[<<h, right>>]) = Bit(Shape(g, i, t))
       /\ Bit(world[<<down, left>>]) = Bit(Shape(g, d, l))
       /\ Bit(world[<<down, w>>]) = Bit(Shape(g, d, j))
       /\ Bit(world[<<down, right>>]) = Bit(Shape(g, d, t))
  <2>1. /\ From(Height, a, up) = u /\ From(Height, a, h) = i /\ From(Height, a, down) = d
        /\ From(Width, b, left) = l /\ From(Width, b, w) = j /\ From(Width, b, right) = t
    BY <1>4, <1>5, <1>6, <1>7
  <2> QED  BY <1>5, <1>6, <1>8, <2>1
<1>11. Count(h, w) =
         Bit(Shape(g, u, l)) + Bit(Shape(g, u, j)) + Bit(Shape(g, u, t))
         + Bit(Shape(g, i, l)) + Bit(Shape(g, i, t))
         + Bit(Shape(g, d, l)) + Bit(Shape(g, d, j)) + Bit(Shape(g, d, t))
  BY <1>9, <1>10, Zenon DEF Count
<1>12. PICK k : k = Count(h, w)
  OBVIOUS
<1>13. Shape(g + 1, i, j) <=> (k = 3 \/ (Shape(g, i, j) /\ k = 2))
  BY <1>0, <1>5, <1>6, <1>7, <1>11, <1>12, ShapeFollows
<1>14. world[c] <=> Shape(g, i, j)
  BY <1>1, <1>4 DEF Shows
<1>15. world'[c] = IF world[c] THEN k \in {2, 3} ELSE k = 3
  BY <1>1, <1>12 DEF Generation
<1> QED  BY <1>1, <1>4, <1>13, <1>14, <1>15

(* The file of the glider, and where it is put: it fits on every world.    *)
GliderFile == <<Format>> \o Glider

LEMMA GliderLines ==
  /\ GliderFile \in Seq(FileLine) /\ Len(GliderFile) = 4
  /\ GliderFile[1].kind = "#P"
  /\ \A k \in 2..4 : GliderFile[k].kind = "data" /\ Len(GliderFile[k].cells) = 3
  /\ GliderFile[2].cells = <<FALSE, TRUE, FALSE>>
  /\ GliderFile[3].cells = <<FALSE, FALSE, TRUE>>
  /\ GliderFile[4].cells = <<TRUE, TRUE, TRUE>>
<1> DEFINE c2 == <<FALSE, TRUE, FALSE>>  c3 == <<FALSE, FALSE, TRUE>>  c4 == <<TRUE, TRUE, TRUE>>
<1>1. PICK t1, t2, t3, t4 : t1 = Text("#P", <<>>) /\ t2 = Row(c2) /\ t3 = Row(c3) /\ t4 = Row(c4)
  OBVIOUS
<1>2. GliderFile = <<t1>> \o <<t2, t3, t4>>
  BY <1>1, Zenon DEF GliderFile, Glider, Format
<1>3. /\ c2 \in Seq(BOOLEAN) /\ c3 \in Seq(BOOLEAN) /\ c4 \in Seq(BOOLEAN) /\ <<>> \in Seq(BOOLEAN)
      /\ Len(c2) = 3 /\ Len(c3) = 3 /\ Len(c4) = 3
  OBVIOUS
<1>4. /\ c2 = <<FALSE, TRUE, FALSE>> /\ c3 = <<FALSE, FALSE, TRUE>> /\ c4 = <<TRUE, TRUE, TRUE>>
  OBVIOUS
<1> HIDE DEF c2, c3, c4
<1>5. ASSUME NEW cells \in Seq(BOOLEAN), NEW kind \in {"#P", "data"}
      PROVE  /\ Text(kind, cells) \in FileLine
             /\ Text(kind, cells).kind = kind /\ Text(kind, cells).cells = cells
  BY DEF Text, FileLine
<1>6. /\ t1 \in FileLine /\ t2 \in FileLine /\ t3 \in FileLine /\ t4 \in FileLine
      /\ t1.kind = "#P" /\ t2.kind = "data" /\ t3.kind = "data" /\ t4.kind = "data"
      /\ t2.cells = c2 /\ t3.cells = c3 /\ t4.cells = c4
  BY <1>1, <1>3, <1>5 DEF Row
<1>7. /\ GliderFile \in Seq(FileLine) /\ Len(GliderFile) = 4
      /\ GliderFile[1] = t1 /\ GliderFile[2] = t2 /\ GliderFile[3] = t3 /\ GliderFile[4] = t4
  BY <1>2, <1>6
<1>8. \A k \in 2..4 : k = 2 \/ k = 3 \/ k = 4
  OBVIOUS
<1>9. \A k \in 2..4 : GliderFile[k].kind = "data" /\ Len(GliderFile[k].cells) = 3
  BY <1>3, <1>6, <1>7, <1>8
<1> QED  BY <1>4, <1>6, <1>7, <1>9

LEMMA GliderPlaced ==
  ASSUME pattern = GliderFile
  PROVE  /\ TopMargin \in 0..Height-3 /\ LeftMargin \in 0..Width-3
         /\ \A k : IsRow(k) <=> k \in 2..4
         /\ RowOf(2) = TopMargin /\ RowOf(3) = TopMargin + 1 /\ RowOf(4) = TopMargin + 2
         /\ Fits
<1>1. /\ DOMAIN pattern = 1..4 /\ pattern \in Seq(FileLine)
      /\ pattern[1].kind = "#P"
      /\ \A k \in 2..4 : pattern[k].kind = "data" /\ Len(pattern[k].cells) = 3
  BY GliderLines
<1>2. ASSUME NEW k PROVE IsRow(k) <=> k \in 2..4
  BY <1>1 DEF IsRow
<1>3. /\ RowsBefore(2) = {} /\ Cardinality(RowsBefore(2)) = 0
      /\ Cardinality(RowsBefore(3)) = 1 /\ Cardinality(RowsBefore(4)) = 2
  <2>1. RowsBefore(2) = {}
    BY <1>2 DEF RowsBefore
  <2>2. Cardinality(RowsBefore(2)) = 0
    BY <2>1, FS_EmptySet
  <2>3. Cardinality(RowsBefore(2 + 1)) = 1
    BY <1>2, <2>2, RowsGrow
  <2>4. Cardinality(RowsBefore(3 + 1)) = 2
    BY <1>2, <2>3, RowsGrow
  <2> QED  BY <2>1, <2>2, <2>3, <2>4
<1>4. FirstRow = 2
  BY <1>1, <1>2, <1>3, FirstRowIs
<1>5. TopMargin \in 0..Height-3 /\ LeftMargin \in 0..Width-3
  <2>1. \A n \in Nat : n >= 5 => n \div 5 \in 0..n-3 /\ (n - 3) \div 2 \in 0..n-3
    OBVIOUS
  <2>2. Len(pattern[2].cells) = 3
    BY <1>1
  <2> QED  BY <1>4, <2>1, <2>2, LifeParameters DEF TopMargin, LeftMargin
<1>6. RowOf(2) = TopMargin /\ RowOf(3) = TopMargin + 1 /\ RowOf(4) = TopMargin + 2
  BY <1>3, <1>5 DEF RowOf
<1>7. Fits
  <2> SUFFICES ASSUME NEW k \in DOMAIN pattern, IsRow(k)
               PROVE  RowOf(k) < Height /\ LeftMargin >= 0
                        /\ LeftMargin + Len(pattern[k].cells) <= Width
    BY DEF Fits
  <2>1. k = 2 \/ k = 3 \/ k = 4
    BY <1>2
  <2>2. Len(pattern[k].cells) = 3
    BY <1>1, <2>1
  <2>3. RowOf(k) \in TopMargin..TopMargin + 2
    BY <1>5, <1>6, <2>1
  <2> QED  BY <1>5, <2>2, <2>3, LifeParameters
<1> QED  BY <1>2, <1>5, <1>6, <1>7

LEMMA GliderShown ==
  ASSUME LifeInv, lpc = "load", lines = <<>>, pattern = GliderFile
  PROVE  Shows(world, 0, TopMargin, LeftMargin)
<1> SUFFICES ASSUME NEW c \in Cells
             PROVE  world[c] <=> Shape(0, From(Height, TopMargin, c[1]), From(Width, LeftMargin, c[2]))
  BY DEF Shows
<1>1. PICK h \in 0..Height-1, w \in 0..Width-1 : c = <<h, w>>
  BY DEF Cells
<1>2. Loaded = 4
  <2>1. Len(<<>>) = 0 /\ Len(pattern) = 4
    BY GliderLines
  <2> QED  BY <2>1 DEF Loaded
<1>3. world[c] <=> Stored(c, 4)
  BY <1>2, GliderPlaced DEF LifeInv, ShownInv
<1> DEFINE T == TopMargin
           L == LeftMargin
           cells(k) == pattern[k].cells
<1>4. T \in 0..Height-3 /\ L \in 0..Width-3
  BY GliderPlaced
<1>5. /\ \A k : IsRow(k) <=> k \in 2..4
      /\ RowOf(2) = T /\ RowOf(3) = T + 1 /\ RowOf(4) = T + 2
  BY GliderPlaced
<1>6. /\ cells(2) = <<FALSE, TRUE, FALSE>> /\ cells(3) = <<FALSE, FALSE, TRUE>>
      /\ cells(4) = <<TRUE, TRUE, TRUE>>
  BY GliderLines
<1>7. /\ DOMAIN cells(2) = 1..3 /\ ~ cells(2)[1] /\ cells(2)[2] /\ ~ cells(2)[3]
      /\ DOMAIN cells(3) = 1..3 /\ ~ cells(3)[1] /\ ~ cells(3)[2] /\ cells(3)[3]
      /\ DOMAIN cells(4) = 1..3 /\ cells(4)[1] /\ cells(4)[2] /\ cells(4)[3]
  BY <1>6
<1> DEFINE In(k) == \E i \in DOMAIN cells(k) : cells(k)[i] /\ c = <<RowOf(k), L + i - 1>>
<1>8. Stored(c, 4) <=> In(2) \/ In(3) \/ In(4)
  <2>1. \A k \in 1..4 : IsRow(k) <=> k = 2 \/ k = 3 \/ k = 4
    BY <1>5
  <2>2. 2 \in 1..4 /\ 3 \in 1..4 /\ 4 \in 1..4
    OBVIOUS
  <2>3. Stored(c, 4) <=> \E k \in 1..4 : IsRow(k) /\ In(k)
    BY DEF Stored
  <2> HIDE DEF In
  <2> QED  BY <2>1, <2>2, <2>3
<1> HIDE DEF cells
<1>9. \A i \in 1..3 : i = 1 \/ i = 2 \/ i = 3
  OBVIOUS
<1>10. In(2) <=> h = T /\ w = L + 1
  BY <1>1, <1>4, <1>5, <1>7, <1>9
<1>11. In(3) <=> h = T + 1 /\ w = L + 2
  BY <1>1, <1>4, <1>5, <1>7, <1>9
<1>12. In(4) <=> h = T + 2 /\ (w = L \/ w = L + 1 \/ w = L + 2)
  BY <1>1, <1>4, <1>5, <1>7, <1>9
<1> HIDE DEF In, T, L
<1>13. Shape(0, From(Height, T, h), From(Width, L, w)) <=>
         \/ h = T /\ w = L + 1
         \/ h = T + 1 /\ w = L + 2
         \/ h = T + 2 /\ (w = L \/ w = L + 1 \/ w = L + 2)
  BY <1>4, LifeParameters DEF Shape, From
<1> QED  BY <1>1, <1>3, <1>8, <1>10, <1>11, <1>12, <1>13 DEF T, L

(* Where the corner is; in every fourth generation it moves on.            *)
Corner(m, n) == (m + gennum \div 4) % n

TravelInv ==
  /\ lpc = "load" => gennum = 0
  /\ lpc = "live" /\ pattern = GliderFile =>
       Shows(world, gennum % 4, Corner(TopMargin, Height), Corner(LeftMargin, Width))

LEMMA CornerMoves ==
  ASSUME NEW n \in Nat, n >= 5, NEW m \in Nat, gennum \in Nat, gennum' = gennum + 1
  PROVE  /\ Corner(m, n) \in 0..n-1
         /\ gennum % 4 = 3 =>
              gennum' % 4 = 0 /\ (m + gennum' \div 4) % n = After(n, Corner(m, n))
         /\ gennum % 4 # 3 =>
              /\ gennum % 4 \in 0..2 /\ gennum' % 4 = (gennum % 4) + 1
              /\ (m + gennum' \div 4) % n = Corner(m, n)
<1>1. PICK x \in Nat : x = m + gennum \div 4
  OBVIOUS
<1>2. Corner(m, n) = x % n
  BY <1>1 DEF Corner
<1>3. x % n \in 0..n-1 /\ (x + 1) % n = After(n, x % n)
  <2>1. n \in Nat \ {0}
    OBVIOUS
  <2>2. /\ x % n \in 0..n - 1
        /\ IF x % n = n - 1 THEN (x + 1) % n = 0 ELSE (x + 1) % n = (x % n) + 1
    BY <2>1, NextQuotient
  <2> QED  BY <2>2 DEF After
<1>4. gennum % 4 = 3 => gennum' % 4 = 0 /\ m + gennum' \div 4 = x + 1
  BY <1>1
<1>5. gennum % 4 # 3 =>
        /\ gennum % 4 \in 0..2 /\ gennum' % 4 = (gennum % 4) + 1
        /\ m + gennum' \div 4 = x
  BY <1>1
<1> QED  BY <1>2, <1>3, <1>4, <1>5

LEMMA TravelStep == ASSUME LifeInv, TravelInv, [LifeNext]_lifeVars PROVE TravelInv'
<1>0. pattern' = pattern
  BY DEF LifeNext, lifeVars, RefuseLine, SkipLine, FormatLine, DataLine, EndOfFile, OutOfMemory,
         Generation
<1>1. UNCHANGED <<TopMargin, LeftMargin>>
  BY <1>0 DEF TopMargin, LeftMargin, FirstRow, IsRow, RowsBefore
<1>2. ASSUME pattern = GliderFile
      PROVE  /\ TopMargin \in Nat /\ LeftMargin \in Nat
             /\ TopMargin \in 0..Height-1 /\ LeftMargin \in 0..Width-1
             /\ Height \in Nat /\ Height >= 5 /\ Width \in Nat /\ Width >= 5
  BY <1>2, GliderPlaced, LifeParameters
<1>3. CASE Generation
  <2>1. /\ lpc = "live" /\ lpc' = "live" /\ gennum' = gennum + 1 /\ gennum \in Nat
    BY <1>3, LifeParameters DEF Generation, LifeInv, LifeTypeOK
  <2> DEFINE a == Corner(TopMargin, Height)
             b == Corner(LeftMargin, Width)
             g == gennum % 4
             a1 == (TopMargin + gennum' \div 4) % Height
             b1 == (LeftMargin + gennum' \div 4) % Width
  <2>2. ASSUME pattern = GliderFile PROVE Shows(world', gennum' % 4, a1, b1)
    <3>1. Shows(world, g, a, b)
      BY <2>1, <2>2 DEF TravelInv
    <3>2. /\ a \in 0..Height-1
          /\ g = 3 => gennum' % 4 = 0 /\ a1 = After(Height, a)
          /\ g # 3 => g \in 0..2 /\ gennum' % 4 = g + 1 /\ a1 = a
      BY <1>2, <2>1, <2>2, CornerMoves
    <3>3. /\ b \in 0..Width-1
          /\ g = 3 => b1 = After(Width, b)
          /\ g # 3 => b1 = b
      BY <1>2, <2>1, <2>2, CornerMoves
    <3> HIDE DEF a, b, g, a1, b1
    <3>4. g \in 0..3
      BY <3>2
    <3>5. Shows(world', g + 1, a, b)
      BY <1>3, <3>1, <3>2, <3>3, <3>4, GliderStep
    <3>6. CASE g = 3
      <4>1. Shows(world', 4, a, b)
        BY <3>5, <3>6
      <4> QED  BY <3>2, <3>3, <3>6, <4>1, ShapeMoves
    <3>7. CASE g # 3  BY <3>2, <3>3, <3>5, <3>7
    <3> QED  BY <3>6, <3>7
  <2> QED  BY <1>0, <1>1, <2>1, <2>2 DEF TravelInv, Corner
<1>4. CASE EndOfFile
  <2>1. lpc = "load" /\ lines = <<>> /\ lpc' = "live" /\ world' = world /\ gennum' = 0
    BY <1>4 DEF EndOfFile, TravelInv
  <2>2. ASSUME pattern = GliderFile
        PROVE  Shows(world', gennum' % 4, (TopMargin + gennum' \div 4) % Height,
                                          (LeftMargin + gennum' \div 4) % Width)
    <3>1. Shows(world, 0, TopMargin, LeftMargin)
      BY <2>1, <2>2, GliderShown
    <3>2. gennum' % 4 = 0 /\ gennum' \div 4 = 0
      BY <2>1
    <3>3. (TopMargin + 0) % Height = TopMargin /\ (LeftMargin + 0) % Width = LeftMargin
      BY <1>2, <2>2
    <3> QED  BY <2>1, <3>1, <3>2, <3>3
  <2> QED  BY <1>0, <1>1, <2>1, <2>2 DEF TravelInv, Corner
<1>5. CASE ~ Generation /\ ~ EndOfFile
  <2>1. /\ gennum' = gennum
        /\ lpc' = "load" => lpc = "load"
        /\ lpc' = "live" => lpc = "live" /\ world' = world
    BY <1>5 DEF LifeNext, lifeVars, RefuseLine, SkipLine, FormatLine, DataLine, OutOfMemory, NextLine
  <2> QED  BY <1>0, <1>1, <2>1 DEF TravelInv, Corner
<1> QED  BY <1>3, <1>4, <1>5

(* Two rows down, or columns to the right, of a place on the torus.        *)
LEMMA PlaceNear ==
  ASSUME NEW n \in Nat, n >= 5, NEW x \in Nat, NEW y \in 0..n-1
  PROVE  /\ (x + 0) % n = y <=> From(n, x % n, y) = 0
         /\ (x + 1) % n = y <=> From(n, x % n, y) = 1
         /\ (x + 2) % n = y <=> From(n, x % n, y) = 2
<1>1. n \in Nat \ {0}
  OBVIOUS
<1>2. /\ x % n \in 0..n - 1
      /\ IF x % n = n - 1 THEN (x + 1) % n = 0 ELSE (x + 1) % n = (x % n) + 1
  BY <1>1, NextQuotient
<1>3. IF (x + 1) % n = n - 1 THEN ((x + 1) + 1) % n = 0 ELSE ((x + 1) + 1) % n = ((x + 1) % n) + 1
  <2>1. x + 1 \in Nat
    OBVIOUS
  <2> QED  BY <1>1, <2>1, NextQuotient
<1>4. (x + 1) + 1 = x + 2 /\ x + 0 = x
  OBVIOUS
<1>5. PICK x0, x1, x2 : x0 = x % n /\ x1 = (x + 1) % n /\ x2 = (x + 2) % n
  OBVIOUS
<1>6. /\ x0 \in 0..n-1
      /\ IF x0 = n - 1 THEN x1 = 0 ELSE x1 = x0 + 1
      /\ IF x1 = n - 1 THEN x2 = 0 ELSE x2 = x1 + 1
  BY <1>2, <1>3, <1>4, <1>5
<1>7. /\ x0 = y <=> From(n, x0, y) = 0
      /\ x1 = y <=> From(n, x0, y) = 1
      /\ x2 = y <=> From(n, x0, y) = 2
  BY <1>6 DEF From
<1> QED  BY <1>4, <1>5, <1>7

LEMMA TravelShows == LifeInv /\ TravelInv => GliderTravels
<1> DEFINE moved == gennum \div 4
           live == {q \in (1..3) \X (1..3) : Glider[q[1]].cells[q[2]]}
           At(p) == <<(TopMargin + p[1] - 1 + moved) % Height,
                      (LeftMargin + p[2] - 1 + moved) % Width>>
           shown == {c \in Cells : world[c]}
           placed == {At(p) : p \in live}
<1> SUFFICES ASSUME LifeInv, TravelInv, lpc = "live", pattern = GliderFile, gennum % 4 = 0
             PROVE  shown = placed
  BY DEF GliderTravels, GliderFile
<1>1. /\ TopMargin \in Nat /\ LeftMargin \in Nat /\ gennum \in Nat /\ moved \in Nat
      /\ Height \in Nat /\ Height >= 5 /\ Width \in Nat /\ Width >= 5
  BY GliderPlaced, LifeParameters DEF LifeInv, LifeTypeOK
<1>2. Shows(world, 0, (TopMargin + moved) % Height, (LeftMargin + moved) % Width)
  BY DEF TravelInv, Corner
<1>3. live = {<<1, 2>>, <<2, 3>>, <<3, 1>>, <<3, 2>>, <<3, 3>>}
  <2> DEFINE ln(k) == Glider[k].cells
  <2>1. /\ ln(1) = <<FALSE, TRUE, FALSE>> /\ ln(2) = <<FALSE, FALSE, TRUE>>
        /\ ln(3) = <<TRUE, TRUE, TRUE>>
    BY DEF Glider, Row, Text
  <2>2. /\ ~ ln(1)[1] /\ ln(1)[2] /\ ~ ln(1)[3]
        /\ ~ ln(2)[1] /\ ~ ln(2)[2] /\ ln(2)[3]
        /\ ln(3)[1] /\ ln(3)[2] /\ ln(3)[3]
    BY <2>1
  <2>3. live = {q \in (1..3) \X (1..3) : ln(q[1])[q[2]]}
    OBVIOUS
  <2> HIDE DEF ln, live
  <2>4. \A k \in 1..3 : k = 1 \/ k = 2 \/ k = 3
    OBVIOUS
  <2> QED  BY <2>2, <2>3, <2>4
<1> HIDE DEF moved, live
<1>4. ASSUME NEW h \in 0..Height-1, NEW w \in 0..Width-1
      PROVE  world[<<h, w>>] <=> <<h, w>> \in placed
  <2>1. PICK i, j : /\ i = From(Height, (TopMargin + moved) % Height, h)
                    /\ j = From(Width, (LeftMargin + moved) % Width, w)
    OBVIOUS
  <2>2. world[<<h, w>>] <=> Shape(0, i, j)
    BY <1>2, <2>1 DEF Shows, Cells
  <2>3. /\ (TopMargin + 1 - 1 + moved) % Height = h <=> i = 0
        /\ (TopMargin + 2 - 1 + moved) % Height = h <=> i = 1
        /\ (TopMargin + 3 - 1 + moved) % Height = h <=> i = 2
    <3>1. PICK x \in Nat : x = TopMargin + moved
      BY <1>1
    <3>2. /\ (x + 0) % Height = h <=> i = 0
          /\ (x + 1) % Height = h <=> i = 1
          /\ (x + 2) % Height = h <=> i = 2
      <4>1. i = From(Height, x % Height, h)
        BY <2>1, <3>1, Zenon
      <4>2. PICK n, y : n = Height /\ y = h /\ n \in Nat /\ n >= 5 /\ y \in 0..n-1
        BY <1>1
      <4>3. /\ (x + 0) % n = y <=> From(n, x % n, y) = 0
            /\ (x + 1) % n = y <=> From(n, x % n, y) = 1
            /\ (x + 2) % n = y <=> From(n, x % n, y) = 2
        BY <4>2, PlaceNear
      <4> QED  BY <4>1, <4>2, <4>3, Zenon
    <3>3. /\ TopMargin + 1 - 1 + moved = x + 0 /\ TopMargin + 2 - 1 + moved = x + 1
          /\ TopMargin + 3 - 1 + moved = x + 2
      BY <1>1, <3>1
    <3> QED  BY <3>2, <3>3, Zenon
  <2>4. /\ (LeftMargin + 1 - 1 + moved) % Width = w <=> j = 0
        /\ (LeftMargin + 2 - 1 + moved) % Width = w <=> j = 1
        /\ (LeftMargin + 3 - 1 + moved) % Width = w <=> j = 2
    <3>1. PICK x \in Nat : x = LeftMargin + moved
      BY <1>1
    <3>2. /\ (x + 0) % Width = w <=> j = 0
          /\ (x + 1) % Width = w <=> j = 1
          /\ (x + 2) % Width = w <=> j = 2
      <4>1. j = From(Width, x % Width, w)
        BY <2>1, <3>1, Zenon
      <4>2. PICK n, y : n = Width /\ y = w /\ n \in Nat /\ n >= 5 /\ y \in 0..n-1
        BY <1>1
      <4>3. /\ (x + 0) % n = y <=> From(n, x % n, y) = 0
            /\ (x + 1) % n = y <=> From(n, x % n, y) = 1
            /\ (x + 2) % n = y <=> From(n, x % n, y) = 2
        BY <4>2, PlaceNear
      <4> QED  BY <4>1, <4>2, <4>3, Zenon
    <3>3. /\ LeftMargin + 1 - 1 + moved = x + 0 /\ LeftMargin + 2 - 1 + moved = x + 1
          /\ LeftMargin + 3 - 1 + moved = x + 2
      BY <1>1, <3>1
    <3> QED  BY <3>2, <3>3, Zenon
  <2>5. <<h, w>> \in placed <=>
          \/ i = 0 /\ j = 1
          \/ i = 1 /\ j = 2
          \/ i = 2 /\ (j = 0 \/ j = 1 \/ j = 2)
    <3> DEFINE r(k) == (TopMargin + k - 1 + moved) % Height
               s(k) == (LeftMargin + k - 1 + moved) % Width
    <3>1. <<h, w>> \in placed <=> \E p \in live : <<h, w>> = <<r(p[1]), s(p[2])>>
      OBVIOUS
    <3>2. /\ r(1) = h <=> i = 0
          /\ r(2) = h <=> i = 1
          /\ r(3) = h <=> i = 2
      BY <2>3
    <3>3. /\ s(1) = w <=> j = 0
          /\ s(2) = w <=> j = 1
          /\ s(3) = w <=> j = 2
      BY <2>4
    <3> HIDE DEF r, s, placed
    <3> QED  BY <1>3, <3>1, <3>2, <3>3
  <2> QED  BY <2>2, <2>5 DEF Shape
<1>5. placed \subseteq Cells
  <2>1. ASSUME NEW x \in Nat, NEW n \in Nat, n >= 5 PROVE x % n \in 0..n-1
    <3>1. n \in Nat \ {0}
      BY <2>1
    <3> QED  BY <3>1, NextQuotient
  <2>2. ASSUME NEW p \in live PROVE At(p) \in Cells
    <3>1. p[1] \in 1..3 /\ p[2] \in 1..3
      BY <1>3
    <3>2. TopMargin + p[1] - 1 + moved \in Nat /\ LeftMargin + p[2] - 1 + moved \in Nat
      BY <1>1, <3>1
    <3>3. /\ (TopMargin + p[1] - 1 + moved) % Height \in 0..Height-1
          /\ (LeftMargin + p[2] - 1 + moved) % Width \in 0..Width-1
      BY <1>1, <2>1, <3>2
    <3> QED  BY <3>3 DEF Cells
  <2> HIDE DEF At
  <2> QED  BY <2>2
<1>6. \A c : c \in shown <=> c \in placed
  BY <1>4, <1>5 DEF Cells
<1> HIDE DEF shown, placed
<1> QED  BY <1>6, SameElements

(* On a world of any size a glider that was loaded from its file moves one *)
(* cell down and one to the right in every four generations.               *)
THEOREM GliderTravelsOnAnyTorus ==
  ASSUME NEW CONSTANT text \in Seq(FileLine) PROVE LifeSpec(text) => []GliderTravels
<1>1. LifeInit(text) => LifeInv /\ TravelInv
  <2>1. LifeInit(text) => LifeInv
    BY LifeInitInv
  <2> QED  BY <2>1 DEF LifeInit, TravelInv
<1>2. LifeInv /\ [LifeNext]_lifeVars => LifeInv'
  BY LifeStepInv
<1>3. LifeInv /\ TravelInv /\ [LifeNext]_lifeVars => TravelInv'
  BY TravelStep
<1>4. LifeInv /\ TravelInv => GliderTravels
  BY TravelShows
<1> QED  BY <1>1, <1>2, <1>3, <1>4, PTL DEF LifeSpec

-----------------------------------------------------------------------------
(* EAX, for all strings and all data.                                     *)

(* The tag that belongs to a nonce, a header and encrypted data.           *)
TagOf(nonce, hdr, text) == Xor(Xor(Omac(0, nonce), Omac(2, text)), Omac(1, hdr))

Encrypted == Ctr(Omac(0, sent.nonce), sent.data)

(* Exclusive or with the same key stream twice is nothing.                 *)
LEMMA CtrTwice == ASSUME NEW m, NEW text PROVE Ctr(m, Ctr(m, text)) = text
BY DEF Ctr, Xor

(* The three domains keep the three MACs apart, so that a tag belongs to   *)
(* one nonce, one header and one text.                                     *)
LEMMA TagSet ==
  ASSUME NEW n, NEW h, NEW d
  PROVE  TagOf(n, h, d) = {<<"mac", 0, n>>, <<"mac", 1, h>>, <<"mac", 2, d>>}
<1>1. /\ <<"mac", 0, n>> # <<"mac", 1, h>>
      /\ <<"mac", 0, n>> # <<"mac", 2, d>>
      /\ <<"mac", 1, h>> # <<"mac", 2, d>>
  OBVIOUS
<1> QED
  BY <1>1 DEF TagOf, Xor, Omac

LEMMA TagInjective ==
  ASSUME NEW n, NEW h, NEW d, NEW n2, NEW h2, NEW d2,
         TagOf(n, h, d) = TagOf(n2, h2, d2)
  PROVE  n = n2 /\ h = h2 /\ d = d2
<1>1. {<<"mac", 0, n>>, <<"mac", 1, h>>, <<"mac", 2, d>>}
        = {<<"mac", 0, n2>>, <<"mac", 1, h2>>, <<"mac", 2, d2>>}
  BY TagSet
<1>2. <<"mac", 0, n>> \in {<<"mac", 0, n2>>, <<"mac", 1, h2>>, <<"mac", 2, d2>>}
  BY <1>1
<1>3. <<"mac", 1, h>> \in {<<"mac", 0, n2>>, <<"mac", 1, h2>>, <<"mac", 2, d2>>}
  BY <1>1
<1>4. <<"mac", 2, d>> \in {<<"mac", 0, n2>>, <<"mac", 1, h2>>, <<"mac", 2, d2>>}
  BY <1>1
<1> QED
  BY <1>2, <1>3, <1>4

LEMMA TagNotZeros == ASSUME NEW n, NEW h, NEW d PROVE TagOf(n, h, d) # Zeros
BY TagSet DEF Zeros

-----------------------------------------------------------------------------
AfterNonce == {"hdr mac", "encrypt", "data mac", "tag", "compare", "decrypt"}
AfterHdr == AfterNonce \ {"hdr mac"}
AfterData == {"tag", "compare", "decrypt"}

(* The macs so far are those of the arguments and of the encrypted data.   *)
MacsInv ==
  /\ macs = [nonce |-> macs.nonce, hdr |-> macs.hdr, data |-> macs.data]
  /\ epc \in AfterNonce => macs.nonce = Omac(0, args.nonce)
  /\ epc \in AfterHdr => macs.hdr = Omac(1, args.hdr)
  /\ epc \in AfterData => macs.data = Omac(2, data)

EncryptInv ==
  mode = "encrypt" =>
    /\ epc \notin {"compare", "decrypt"}
    /\ args.nonce = sent.nonce /\ args.hdr = sent.hdr
    /\ epc \in {"malloc", "nonce mac", "hdr mac", "encrypt"} => data = sent.data
    /\ epc \in {"data mac", "tag"} => data = Encrypted
    /\ epc # "returned" => tag = Zeros
    /\ epc = "returned" =>
         \/ ret = 0 /\ data = Encrypted /\ tag = TagOf(sent.nonce, sent.hdr, data)
         \/ ret = -1 /\ tag = Zeros /\ data \in {sent.data, Encrypted}

DecryptInv ==
  mode = "decrypt" =>
    /\ epc \notin {"encrypt", "tag"}
    /\ tag = TagOf(sent.nonce, sent.hdr, Encrypted) /\ args.tag \in {tag, Zeros}
    /\ epc # "returned" => data = args.data
    /\ epc = "decrypt" => args.tag = TagOf(args.nonce, args.hdr, args.data)
    /\ epc = "returned" =>
         \/ /\ ret = 0 /\ args.tag = TagOf(args.nonce, args.hdr, args.data)
            /\ data = Ctr(Omac(0, args.nonce), args.data)
         \/ ret = -1 /\ data = args.data
         \/ /\ ret = -2 /\ data = args.data
            /\ args.tag # TagOf(args.nonce, args.hdr, args.data)

EaxInv == mode \in {"encrypt", "decrypt"} /\ MacsInv /\ EncryptInv /\ DecryptInv

LEMMA EaxInitInv == EaxInit => EaxInv
BY DEF EaxInit, EaxInv, MacsInv, EncryptInv, DecryptInv, NoMacs, Zeros,
       AfterNonce, AfterHdr, AfterData

LEMMA EaxStepInv == EaxInv /\ [EaxNext]_eaxVars => EaxInv'
<1>0. SUFFICES ASSUME EaxInv, [EaxNext]_eaxVars PROVE EaxInv'
  OBVIOUS
<1> USE DEF EaxInv, MacsInv, EncryptInv, DecryptInv, Encrypted,
            AfterNonce, AfterHdr, AfterData, Return, Proceed
<1>1. CASE Malloc
  BY <1>0, <1>1 DEF Malloc, NoMacs
<1>2. CASE NonceMac
  <2>1. /\ macs' = [nonce |-> Omac(0, args.nonce), hdr |-> macs.hdr, data |-> macs.data]
        /\ epc = "nonce mac" /\ epc' = "hdr mac"
        /\ UNCHANGED <<sent, args, data, tag, mode>>
    BY <1>0, <1>2 DEF NonceMac
  <2> QED
    BY <1>0, <2>1
<1>3. CASE HdrMac
  <2>1. /\ macs' = [nonce |-> macs.nonce, hdr |-> Omac(1, args.hdr), data |-> macs.data]
        /\ epc = "hdr mac"
        /\ epc' = IF mode = "encrypt" THEN "encrypt" ELSE "data mac"
        /\ UNCHANGED <<sent, args, data, tag, mode>>
    BY <1>0, <1>3 DEF HdrMac
  <2> QED
    BY <1>0, <2>1
<1>4. CASE Encrypt
  BY <1>0, <1>4 DEF Encrypt
<1>5. CASE DataMac
  <2>1. /\ macs' = [nonce |-> macs.nonce, hdr |-> macs.hdr, data |-> Omac(2, data)]
        /\ epc = "data mac"
        /\ epc' = IF mode = "encrypt" THEN "tag" ELSE "compare"
        /\ UNCHANGED <<sent, args, data, tag, mode>>
    BY <1>0, <1>5 DEF DataMac
  <2> QED
    BY <1>0, <2>1
<1>6. CASE MakeTag
  <2>1. Tag = TagOf(sent.nonce, sent.hdr, data) /\ mode = "encrypt"
    BY <1>0, <1>6 DEF MakeTag, Tag, TagOf
  <2> QED
    BY <1>0, <1>6, <2>1 DEF MakeTag
<1>7. CASE Compare
  <2>1. /\ Tag = TagOf(args.nonce, args.hdr, args.data) /\ mode = "decrypt"
        /\ data = args.data
    BY <1>0, <1>7 DEF Compare, Tag, TagOf
  <2> QED
    BY <1>0, <1>7, <2>1 DEF Compare
<1>8. CASE Decrypt
  <2>1. mode = "decrypt" /\ data' = Ctr(Omac(0, args.nonce), args.data)
    BY <1>0, <1>8 DEF Decrypt
  <2> QED
    BY <1>0, <1>8, <2>1 DEF Decrypt
<1>9. CASE CallFails
  BY <1>0, <1>9 DEF CallFails
<1>10. CASE Arrive
  <2>1. /\ args'.tag \in {tag, Zeros} /\ data' = args'.data
        /\ tag = TagOf(sent.nonce, sent.hdr, Encrypted)
        /\ mode' = "decrypt" /\ epc' = "malloc" /\ UNCHANGED <<sent, macs, tag>>
    BY <1>0, <1>10 DEF Arrive
  <2> QED
    BY <1>0, <2>1
<1>11. CASE UNCHANGED eaxVars
  BY <1>0, <1>11 DEF eaxVars
<1> QED
  BY <1>0, <1>1, <1>2, <1>3, <1>4, <1>5, <1>6, <1>7, <1>8, <1>9, <1>10, <1>11
  DEF EaxNext

LEMMA EaxAlwaysInv == EaxSpec => []EaxInv
BY EaxInitInv, EaxStepInv, PTL DEF EaxSpec

-----------------------------------------------------------------------------
(* The data that decrypt accepts is the data that was encrypted, under the *)
(* nonce and the header it was encrypted under, and nothing intact is      *)
(* rejected.                                                               *)
THEOREM AuthenticatedDecryption == EaxSpec => []DecryptsWhatWasSent
<1>1. EaxInv => DecryptsWhatWasSent
  <2>1. ASSUME EaxInv, Returned("decrypt", 0)
        PROVE  args.nonce = sent.nonce /\ args.hdr = sent.hdr /\ data = sent.data
    <3>1. /\ args.tag = TagOf(args.nonce, args.hdr, args.data)
          /\ data = Ctr(Omac(0, args.nonce), args.data)
          /\ tag = TagOf(sent.nonce, sent.hdr, Encrypted)
          /\ args.tag \in {tag, Zeros}
      BY <2>1 DEF EaxInv, DecryptInv, Returned
    <3>2. TagOf(args.nonce, args.hdr, args.data)
            = TagOf(sent.nonce, sent.hdr, Encrypted)
      BY <3>1, TagNotZeros
    <3>3. args.nonce = sent.nonce /\ args.hdr = sent.hdr /\ args.data = Encrypted
      BY <3>2, TagInjective
    <3> QED
      BY <3>1, <3>3, CtrTwice DEF Encrypted
  <2>2. ASSUME EaxInv, Returned("decrypt", -2)
        PROVE  \/ args.nonce # sent.nonce \/ args.hdr # sent.hdr
               \/ args.tag # tag \/ args.data # Ctr(Omac(0, sent.nonce), sent.data)
    BY <2>2 DEF EaxInv, DecryptInv, Returned, Encrypted
  <2> QED
    BY <2>1, <2>2 DEF DecryptsWhatWasSent
<1> QED
  BY <1>1, EaxAlwaysInv, PTL

(* Whichever call fails, decrypt gives its data back as it came, and       *)
(* encrypt gives no tag.                                                   *)
THEOREM FailureIsClean == EaxSpec => []FailureLeavesData
<1>1. EaxInv => FailureLeavesData
  <2>1. ASSUME EaxInv, mode = "decrypt", epc = "returned", ret # 0
        PROVE  data = args.data
    BY <2>1 DEF EaxInv, DecryptInv
  <2>2. ASSUME EaxInv, Returned("encrypt", -1)
        PROVE  tag = Zeros /\ data \in {sent.data, Encrypted}
    BY <2>2 DEF EaxInv, EncryptInv, Returned
  <2> QED
    BY <2>1, <2>2 DEF FailureLeavesData, Encrypted
<1> QED
  BY <1>1, EaxAlwaysInv, PTL

-----------------------------------------------------------------------------
(* cdiff, on any two configurations.                                       *)

Subs(text) == Says(text) \ Mains(text)

LEMMA LinesAre ==
  ASSUME NEW S, NEW text \in Seq(S)
  PROVE  /\ Len(text) \in Nat /\ DOMAIN text = 1..Len(text)
         /\ Says(text) \subseteq 1..Len(text) /\ Mains(text) \subseteq Says(text)
         /\ Ends(text) \subseteq 1..Len(text)
         /\ \A n \in Says(text) : n \in Mains(text) <=> text[n].kind # "sub"
BY DEF Says, Mains, Ends

LEMMA BegunNext ==
  ASSUME NEW text, NEW k \in Nat, k > 0
  PROVE  Begun(text, k + 1) <=> Begun(text, k) \/ text[k].kind = "!"
<1>1. \A b : b \in 1..(k + 1) - 1 <=> b \in 1..k - 1 \/ b = k
  OBVIOUS
<1> QED  BY <1>1, Zenon DEF Begun

LEMMA InsideNext ==
  ASSUME NEW text, NEW k \in Nat, k > 0
  PROVE  InsideBanner(text, k + 1) <=>
           \/ text[k].kind = "banner" /\ text[k].carets \notin {0, 2} /\ Begun(text, k)
           \/ InsideBanner(text, k) /\ GoesOn(text[k])
<1> DEFINE Opens(a) == text[a].kind = "banner" /\ text[a].carets \notin {0, 2} /\ Begun(text, a)
           Still(a, n) == \A m \in a+1..n-1 : GoesOn(text[m])
<1>1. \A n : InsideBanner(text, n) <=> \E a \in 1..n-1 : Opens(a) /\ Still(a, n)
  BY Zenon DEF InsideBanner
<1>2. \A a : a \in 1..(k + 1) - 1 <=> a \in 1..k - 1 \/ a = k
  OBVIOUS
<1>3. Still(k, k + 1)
  <2>1. \A m \in k+1..(k+1)-1 : FALSE
    OBVIOUS
  <2> QED  BY <2>1
<1>4. ASSUME NEW a \in 1..k - 1 PROVE Still(a, k + 1) <=> Still(a, k) /\ GoesOn(text[k])
  <2>1. \A m : m \in a+1..(k+1)-1 <=> m \in a+1..k-1 \/ m = k
    OBVIOUS
  <2> QED  BY <2>1, Zenon
<1> HIDE DEF Opens, Still
<1>5. InsideBanner(text, k + 1) <=>
        \/ Opens(k)
        \/ (\E a \in 1..k - 1 : Opens(a) /\ Still(a, k)) /\ GoesOn(text[k])
  BY <1>1, <1>2, <1>3, <1>4, Zenon
<1> QED  BY <1>1, <1>5, Zenon DEF Opens

MainAmong(text, n, c) == \E m \in Mains(text) : m <= n /\ c = <<"MAIN", text[m].text>>
SubAmong(text, n, c) ==
  \E k \in Subs(text) : \E m \in Mains(text) :
    k <= n /\ Below(text, m, k) /\ c = <<text[m].text, text[k].text>>

LEMMA CommandIs ==
  ASSUME NEW text, NEW n, NEW c
  PROVE  c \in CommandsUpto(text, n) <=>
           MainAmong(text, n, c) \/ SubAmong(text, n, c)
<1> DEFINE A == {<<"MAIN", text[m].text>> : m \in {k \in Mains(text) : k <= n}}
           Under(k) == {<<text[m].text, text[k].text>> : m \in {i \in Mains(text) : Below(text, i, k)}}
           B == UNION {Under(k) : k \in {i \in Subs(text) : i <= n}}
<1>1. CommandsUpto(text, n) = A \cup B
  BY DEF CommandsUpto, Subs
<1>2. c \in A <=> \E m \in Mains(text) : m <= n /\ c = <<"MAIN", text[m].text>>
  OBVIOUS
<1>3. c \in B <=> \E k \in Subs(text) : k <= n /\ c \in Under(k)
  <2> HIDE DEF Under
  <2> QED  OBVIOUS
<1>4. \A k : c \in Under(k) <=>
               \E m \in Mains(text) : Below(text, m, k) /\ c = <<text[m].text, text[k].text>>
  OBVIOUS
<1> HIDE DEF A, B, Under
<1>5. c \in CommandsUpto(text, n) <=> c \in A \/ c \in B
  BY <1>1
<1> QED  BY <1>2, <1>3, <1>4, <1>5, Zenon DEF MainAmong, SubAmong

(* Line k adds the command that it is, if it is one.                       *)
LEMMA SilentAdds ==
  ASSUME NEW S, NEW text \in Seq(S), NEW k \in 1..Len(text), k \notin Says(text)
  PROVE  CommandsUpto(text, k) = CommandsUpto(text, k - 1)
<1>1. \A i \in Says(text) : i <= k <=> i <= k - 1
  BY LinesAre
<1>2. Mains(text) \subseteq Says(text) /\ Subs(text) \subseteq Says(text)
  BY LinesAre DEF Subs
<1>3. \A c : c \in CommandsUpto(text, k) <=> c \in CommandsUpto(text, k - 1)
  <2>1. TAKE c
  <2>2. MainAmong(text, k, c) <=> MainAmong(text, k - 1, c)
    BY <1>1, <1>2, Zenon DEF MainAmong, SubAmong
  <2>3. SubAmong(text, k, c) <=> SubAmong(text, k - 1, c)
    BY <1>1, <1>2, Zenon DEF MainAmong, SubAmong
  <2> QED  BY <2>2, <2>3, CommandIs
<1> QED  BY <1>3, SameElements

LEMMA MainAdds ==
  ASSUME NEW S, NEW text \in Seq(S), NEW k \in 1..Len(text), k \in Mains(text)
  PROVE  CommandsUpto(text, k) = CommandsUpto(text, k - 1) \cup {<<"MAIN", text[k].text>>}
<1>1. \A i \in Says(text) : i <= k <=> i <= k - 1 \/ i = k
  BY LinesAre
<1>2. Mains(text) \subseteq Says(text) /\ Subs(text) \subseteq Says(text) /\ k \notin Subs(text)
  BY LinesAre DEF Subs
<1>3. k <= k
  OBVIOUS
<1>4. \A c : c \in CommandsUpto(text, k)
               <=> c \in CommandsUpto(text, k - 1) \cup {<<"MAIN", text[k].text>>}
  <2>1. TAKE c
  <2>2. MainAmong(text, k, c) <=> \/ MainAmong(text, k - 1, c)
              \/ c = <<"MAIN", text[k].text>>
    BY <1>1, <1>2, <1>3, Zenon DEF MainAmong, SubAmong
  <2>3. SubAmong(text, k, c) <=> SubAmong(text, k - 1, c)
    BY <1>1, <1>2, Zenon DEF MainAmong, SubAmong
  <2> QED  BY <2>2, <2>3, CommandIs
<1> QED  BY <1>4, SameElements

(* A line is below one command.                                            *)
LEMMA OneAbove ==
  ASSUME NEW S, NEW text \in Seq(S), NEW k \in Int, NEW m \in Mains(text), NEW i \in Mains(text),
         Below(text, m, k), Below(text, i, k)
  PROVE  m = i
<1>1. m \in Nat /\ i \in Nat
  BY LinesAre
<1>2. m < k /\ i < k /\ ~ (m < i /\ i < k) /\ ~ (i < m /\ m < k)
  BY DEF Below
<1> QED  BY <1>1, <1>2

LEMMA SubAdds ==
  ASSUME NEW S, NEW text \in Seq(S), NEW k \in 1..Len(text), k \in Subs(text),
         NEW p \in Mains(text), Below(text, p, k)
  PROVE  CommandsUpto(text, k) = CommandsUpto(text, k - 1) \cup {<<text[p].text, text[k].text>>}
<1>1. \A i \in Says(text) : i <= k <=> i <= k - 1 \/ i = k
  BY LinesAre
<1>2. Mains(text) \subseteq Says(text) /\ Subs(text) \subseteq Says(text) /\ k \notin Mains(text)
  BY LinesAre DEF Subs
<1>3. k <= k /\ \A m \in Mains(text) : Below(text, m, k) => m = p
  BY OneAbove
<1>4. \A c : c \in CommandsUpto(text, k)
               <=> c \in CommandsUpto(text, k - 1) \cup {<<text[p].text, text[k].text>>}
  <2>1. TAKE c
  <2>2. MainAmong(text, k, c) <=> MainAmong(text, k - 1, c)
    BY <1>1, <1>2, Zenon DEF MainAmong, SubAmong
  <2>3. SubAmong(text, k, c) <=> \/ SubAmong(text, k - 1, c)
              \/ c = <<text[p].text, text[k].text>>
    BY <1>1, <1>2, <1>3, Zenon DEF MainAmong, SubAmong
  <2> QED  BY <2>2, <2>3, CommandIs
<1> QED  BY <1>4, SameElements

(* Nothing that is said comes behind the end.                              *)
LEMMA AllBeforeEnd ==
  ASSUME NEW S, NEW text \in Seq(S), NEW k \in Ends(text)
  PROVE  CommandsUpto(text, k - 1) = CommandsIn(text)
<1>1. k \in 1..Len(text) /\ Len(text) \in Nat /\ \A i \in Says(text) : i \in 1..Len(text) /\ i < k
  BY LinesAre DEF Says
<1>2. \A i \in Says(text) : i <= k - 1 <=> i <= Len(text)
  BY <1>1
<1>3. Mains(text) \subseteq Says(text) /\ Subs(text) \subseteq Says(text)
  BY LinesAre DEF Subs
<1>4. \A c : c \in CommandsUpto(text, k - 1) <=> c \in CommandsUpto(text, Len(text))
  <2>1. TAKE c
  <2>2. MainAmong(text, k - 1, c) <=> MainAmong(text, Len(text), c)
    BY <1>2, <1>3, Zenon DEF MainAmong, SubAmong
  <2>3. SubAmong(text, k - 1, c) <=> SubAmong(text, Len(text), c)
    BY <1>2, <1>3, Zenon DEF MainAmong, SubAmong
  <2> QED  BY <2>2, <2>3, CommandIs
<1> QED  BY <1>4, SameElements DEF CommandsIn

LEMMA OneIsAbove ==
  ASSUME NEW S, NEW text \in Seq(S), Orderly(text), NEW k \in Subs(text)
  PROVE  \E m \in Mains(text) : Below(text, m, k)
<1>1. k \in Nat /\ Len(text) \in Nat /\ Mains(text) \subseteq 1..Len(text)
  BY LinesAre DEF Subs
<1> DEFINE T == {m \in Mains(text) : m < k}
<1>2. T \subseteq 1..Len(text) /\ T # {}
  BY <1>1 DEF Orderly, Subs
<1>3. PICK m \in T : \A y \in T : y <= m
  <2> HIDE DEF T
  <2> QED  BY <1>1, <1>2, NatGreatest
<1>4. ASSUME NEW i \in Mains(text), m < i, i < k PROVE FALSE
  <2>1. i <= m /\ i \in Nat /\ m \in Nat
    BY <1>1, <1>3, <1>4
  <2> QED  BY <1>4, <2>1
<1> QED  BY <1>3, <1>4 DEF Below

-----------------------------------------------------------------------------
(* Line by line: where cdiff is when it has read n lines of a text.        *)

LevelAt(text, n, lev, last) ==
  \A m \in Mains(text) : Below(text, m, n + 1) =>
    IF lev = "MAIN" THEN last = text[m].text ELSE lev = text[m].text

ReadUpto(text, n, found, banner, lev, last, R) ==
  /\ found \in BOOLEAN /\ (found <=> Begun(text, n + 1))
  /\ banner \in BOOLEAN /\ (banner <=> InsideBanner(text, n + 1))
  /\ \A e \in Ends(text) : n < e
  /\ LevelAt(text, n, lev, last)
  /\ R = CommandsUpto(text, n)

LEMMA NothingRead ==
  ASSUME NEW S, NEW text \in Seq(S), NEW lev, NEW last
  PROVE  ReadUpto(text, 0, FALSE, FALSE, lev, last, {})
<1>1. Mains(text) \subseteq 1..Len(text) /\ Subs(text) \subseteq 1..Len(text)
      /\ Ends(text) \subseteq 1..Len(text) /\ Len(text) \in Nat
  BY LinesAre DEF Subs
<1>2. ~ Begun(text, 0 + 1) /\ ~ InsideBanner(text, 0 + 1)
  <2>1. 1..(0 + 1) - 1 = {}
    OBVIOUS
  <2> QED  BY <2>1, Zenon DEF Begun, InsideBanner
<1>3. LevelAt(text, 0, lev, last)
  <2>1. \A m \in Mains(text) : ~ (m < 0 + 1)
    BY <1>1
  <2> QED  BY <2>1, Zenon DEF LevelAt, Below
<1>4. \A c : c \notin CommandsUpto(text, 0)
  <2>1. \A m \in Mains(text) : ~ (m <= 0)
    BY <1>1
  <2>2. \A m \in Subs(text) : ~ (m <= 0)
    BY <1>1
  <2> QED  BY <2>1, <2>2, CommandIs DEF MainAmong, SubAmong
<1>5. {} = CommandsUpto(text, 0)
  BY <1>4, SameElements
<1>6. \A e \in Ends(text) : 0 < e
  BY <1>1
<1> QED  BY <1>2, <1>3, <1>5, <1>6 DEF ReadUpto

LEMMA NextFlags ==
  ASSUME NEW S, NEW text \in Seq(S), NEW k \in 1..Len(text), NEW f, NEW b, NEW lev, NEW last, NEW R,
         ReadUpto(text, k - 1, f, b, lev, last, R), k \notin Ends(text)
  PROVE  /\ f \in BOOLEAN /\ b \in BOOLEAN
         /\ f <=> Begun(text, k)
         /\ b <=> InsideBanner(text, k)
         /\ Begun(text, k + 1) <=> f \/ text[k].kind = "!"
         /\ InsideBanner(text, k + 1) <=>
              \/ text[k].kind = "banner" /\ text[k].carets \notin {0, 2} /\ f
              \/ b /\ GoesOn(text[k])
         /\ \A e \in Ends(text) : k < e
<1>1. k \in Nat /\ k > 0 /\ (k - 1) + 1 = k
  OBVIOUS
<1>2. f \in BOOLEAN /\ b \in BOOLEAN /\ (f <=> Begun(text, k)) /\ (b <=> InsideBanner(text, k))
  BY <1>1 DEF ReadUpto
<1>3. Begun(text, k + 1) <=> f \/ text[k].kind = "!"
  BY <1>1, <1>2, BegunNext
<1>4. InsideBanner(text, k + 1) <=>
        \/ text[k].kind = "banner" /\ text[k].carets \notin {0, 2} /\ f
        \/ b /\ GoesOn(text[k])
  BY <1>1, <1>2, InsideNext, Zenon
<1>5. \A e \in Ends(text) : k < e
  <2>1. TAKE e \in Ends(text)
  <2>2. k - 1 < e /\ e \in Nat /\ e # k
    BY LinesAre DEF ReadUpto
  <2> QED  BY <1>1, <2>2
<1> QED  BY <1>2, <1>3, <1>4, <1>5, Zenon

(* A line that is no command.                                              *)
LEMMA QuietLine ==
  ASSUME NEW S, NEW text \in Seq(S), NEW k \in 1..Len(text), NEW f, NEW b, NEW lev, NEW last, NEW R,
         ReadUpto(text, k - 1, f, b, lev, last, R), k \notin Ends(text), k \notin Says(text),
         NEW f2 \in BOOLEAN, f2 <=> (f \/ text[k].kind = "!"),
         NEW b2 \in BOOLEAN, b2 <=> \/ text[k].kind = "banner" /\ text[k].carets \notin {0, 2} /\ f
                                    \/ b /\ GoesOn(text[k])
  PROVE  ReadUpto(text, k, f2, b2, lev, last, R)
<1>1. /\ f2 <=> Begun(text, k + 1)
      /\ b2 <=> InsideBanner(text, k + 1)
      /\ \A e \in Ends(text) : k < e
  <2>1. Begun(text, k + 1) <=> f \/ text[k].kind = "!"
    BY NextFlags
  <2>2. InsideBanner(text, k + 1) <=>
          \/ text[k].kind = "banner" /\ text[k].carets \notin {0, 2} /\ f
          \/ b /\ GoesOn(text[k])
    BY NextFlags
  <2>3. \A e \in Ends(text) : k < e
    BY NextFlags, Zenon
  <2> QED  BY <2>1, <2>2, <2>3, Zenon
<1>2. R = CommandsUpto(text, k)
  BY SilentAdds DEF ReadUpto
<1>3. LevelAt(text, k, lev, last)
  <2>1. \A m \in Mains(text) : Below(text, m, k + 1) => Below(text, m, k)
    <3>1. TAKE m \in Mains(text)
    <3>2. HAVE Below(text, m, k + 1)
    <3>3. m \in Nat /\ m # k /\ \A i \in Mains(text) : i \in Nat
      BY LinesAre
    <3>4. m < k /\ \A i \in Mains(text) : i < k => i < k + 1
      BY <3>2, <3>3 DEF Below
    <3> QED  BY <3>2, <3>4, Zenon DEF Below
  <2>2. (k - 1) + 1 = k
    OBVIOUS
  <2>3. LevelAt(text, k - 1, lev, last)
    BY DEF ReadUpto
  <2> QED  BY <2>1, <2>2, <2>3 DEF LevelAt
<1> QED  BY <1>1, <1>2, <1>3, Zenon DEF ReadUpto

(* A command: at the top level, or below the last one there.               *)
LEMMA CommandLine ==
  ASSUME NEW S, NEW text \in Seq(S), Orderly(text), NEW k \in 1..Len(text),
         NEW lev, NEW last, NEW R,
         ReadUpto(text, k - 1, TRUE, FALSE, lev, last, R),
         text[k].kind \notin SaysNothing \cup {"banner", "end"},
         NEW lev2, lev2 = IF text[k].kind # "sub" THEN "MAIN" ELSE IF lev = "MAIN" THEN last ELSE lev
  PROVE  ReadUpto(text, k, TRUE, FALSE, lev2, text[k].text, R \cup {<<lev2, text[k].text>>})
<1>1. k \in Nat /\ (k - 1) + 1 = k /\ k \in DOMAIN text /\ k < k + 1
  OBVIOUS
<1>2. k \notin Ends(text)
  BY DEF Ends
<1>3. /\ Begun(text, k) /\ ~ InsideBanner(text, k)
      /\ Begun(text, k + 1) /\ ~ InsideBanner(text, k + 1)
      /\ \A e \in Ends(text) : k < e
  <2>1. text[k].kind # "banner"
    OBVIOUS
  <2> QED  BY <1>2, <2>1, NextFlags, Zenon
<1>4. k \in Says(text)
  BY <1>1, <1>3 DEF Says
<1>5. R = CommandsUpto(text, k - 1) /\ LevelAt(text, k - 1, lev, last)
  BY DEF ReadUpto
<1>6. CASE text[k].kind # "sub"
  <2>1. k \in Mains(text) /\ lev2 = "MAIN"
    BY <1>4, <1>6 DEF Mains
  <2>2. R \cup {<<lev2, text[k].text>>} = CommandsUpto(text, k)
    BY <1>5, <2>1, MainAdds
  <2>3. ASSUME NEW m \in Mains(text), Below(text, m, k + 1) PROVE m = k
    <3>1. m \in Nat /\ m < k + 1 /\ ~ (m < k)
      BY <1>1, <2>1, <2>3, LinesAre DEF Below
    <3> QED  BY <1>1, <3>1
  <2>4. LevelAt(text, k, lev2, text[k].text)
    BY <2>1, <2>3 DEF LevelAt
  <2> QED  BY <1>3, <2>2, <2>4, Zenon DEF ReadUpto
<1>7. CASE text[k].kind = "sub"
  <2>1. k \in Subs(text) /\ k \notin Mains(text) /\ lev2 = IF lev = "MAIN" THEN last ELSE lev
    BY <1>4, <1>7 DEF Mains, Subs
  <2>2. PICK p \in Mains(text) : Below(text, p, k)
    BY <2>1, OneIsAbove
  <2>3. lev2 = text[p].text /\ text[p].text # "MAIN"
    BY <1>1, <1>5, <2>1, <2>2 DEF LevelAt, Orderly
  <2>4. R \cup {<<lev2, text[k].text>>} = CommandsUpto(text, k)
    BY <1>5, <2>1, <2>2, <2>3, SubAdds
  <2>5. ASSUME NEW m \in Mains(text), Below(text, m, k + 1) PROVE m = p
    <3>1. m \in Nat /\ m # k /\ \A i \in Mains(text) : i \in Nat
      BY <2>1, LinesAre
    <3>2. m < k /\ \A i \in Mains(text) : i < k => i < k + 1
      BY <1>1, <2>5, <3>1 DEF Below
    <3>3. Below(text, m, k)
      BY <2>5, <3>2, Zenon DEF Below
    <3> QED  BY <1>1, <2>2, <3>3, OneAbove
  <2>6. LevelAt(text, k, lev2, text[k].text)
    BY <2>3, <2>5 DEF LevelAt
  <2> QED  BY <1>3, <2>4, <2>6, Zenon DEF ReadUpto
<1> QED  BY <1>6, <1>7

-----------------------------------------------------------------------------
(* What diff shows of two routers.                                         *)

Nested(R) ==
  /\ <<"MAIN", "MAIN">> \notin R
  /\ \A c \in R : c[1] # "MAIN" => <<"MAIN", c[1]>> \in R

LEMMA AllNested ==
  ASSUME NEW S, NEW text \in Seq(S), Orderly(text) PROVE Nested(CommandsIn(text))
<1>1. Len(text) \in Nat /\ \A m \in Mains(text) : m <= Len(text)
  BY LinesAre
<1>2. \A m \in Mains(text) : <<"MAIN", text[m].text>> \in CommandsIn(text)
  BY <1>1, CommandIs DEF CommandsIn, MainAmong
<1>3. ASSUME NEW c \in CommandsIn(text)
      PROVE  \/ \E m \in Mains(text) : c = <<"MAIN", text[m].text>>
             \/ \E k \in Subs(text) : \E m \in Mains(text) : c = <<text[m].text, text[k].text>>
  BY CommandIs DEF CommandsIn, MainAmong, SubAmong
<1>4. <<"MAIN", "MAIN">> \notin CommandsIn(text)
  BY <1>3 DEF Orderly
<1>5. \A c \in CommandsIn(text) : c[1] # "MAIN" => <<"MAIN", c[1]>> \in CommandsIn(text)
  BY <1>2, <1>3
<1> QED  BY <1>4, <1>5 DEF Nested

LEMMA MissingIs ==
  ASSUME NEW one, NEW two, Nested(one), Nested(two)
  PROVE  Missing(one, two) = {c \in one \ two : ~ OneSided(c[1], one, two)}
<1> DEFINE commands == {c \in one : c[1] = "MAIN" /\ c \notin two}
<1>1. ASSUME NEW c
      PROVE  c \in Missing(one, two) <=> c \in {d \in one \ two : ~ OneSided(d[1], one, two)}
  <2>1. c \in Missing(one, two) <=>
          \/ c \in commands
          \/ c \in one /\ <<"MAIN", c[1]>> \in commands
          \/ c \in one /\ c[1] # "MAIN" /\ (\E d \in two : d[1] = c[1]) /\ c \notin two
    BY DEF Missing
  <2>2. <<"MAIN", c[1]>> \in commands <=> <<"MAIN", c[1]>> \in one /\ <<"MAIN", c[1]>> \notin two
    OBVIOUS
  <2>3. CASE c \notin one
    BY <2>1, <2>3
  <2>4. CASE c \in one /\ c[1] = "MAIN"
    <3>1. ~ OneSided(c[1], one, two)
      BY <2>4 DEF OneSided, Nested
    <3>2. <<"MAIN", c[1]>> \notin commands
      BY <2>2, <2>4 DEF Nested
    <3> QED  BY <2>1, <2>4, <3>1, <3>2
  <2>5. CASE c \in one /\ c[1] # "MAIN"
    <3>1. <<"MAIN", c[1]>> \in one /\ (c \in two => <<"MAIN", c[1]>> \in two)
          /\ (\E d \in one : d[1] = c[1])
          /\ ((\E d \in two : d[1] = c[1]) => <<"MAIN", c[1]>> \in two)
      BY <2>5 DEF Nested
    <3>2. OneSided(c[1], one, two)
            <=> <<"MAIN", c[1]>> \in two /\ ~ \E d \in two : d[1] = c[1]
      BY <3>1, Zenon DEF OneSided
    <3> QED  BY <2>1, <2>2, <2>5, <3>1, <3>2
  <2> QED  BY <2>3, <2>4, <2>5
<1> QED  BY <1>1, SameElements

LEMMA EitherSide ==
  ASSUME NEW c, NEW one, NEW two PROVE OneSided(c, one, two) <=> OneSided(c, two, one)
BY Zenon DEF OneSided

-----------------------------------------------------------------------------
(* The whole of cdiff.                                                     *)

UnreadIs(text, n, u, S) ==
  /\ u \in Seq(S) /\ n \in Nat /\ Len(u) = Len(text) - n
  /\ \A i \in 1..Len(u) : u[i] = text[n + i]

LEMMA HeadTail ==
  ASSUME NEW S, NEW text \in Seq(S), NEW n, NEW u, UnreadIs(text, n, u, S), u # <<>>
  PROVE  /\ n + 1 \in 1..Len(text) /\ Head(u) = text[n + 1]
         /\ UnreadIs(text, n + 1, Tail(u), S)
<1>1. u \in Seq(S) /\ n \in Nat /\ Len(u) \in Nat /\ Len(u) = Len(text) - n /\ Len(text) \in Nat
      /\ \A i \in 1..Len(u) : u[i] = text[n + i]
  BY DEF UnreadIs
<1>2. Len(u) >= 1 /\ Head(u) = u[1]
  BY <1>1
<1>3. Tail(u) \in Seq(S) /\ Len(Tail(u)) = Len(u) - 1
      /\ \A i \in 1..Len(Tail(u)) : Tail(u)[i] = u[i + 1]
  BY <1>1, <1>2
<1>4. ASSUME NEW i \in 1..Len(Tail(u)) PROVE Tail(u)[i] = text[(n + 1) + i]
  <2>1. i + 1 \in 1..Len(u) /\ n + (i + 1) = (n + 1) + i
    BY <1>1, <1>3
  <2> QED  BY <1>1, <1>3, <2>1
<1> QED  BY <1>1, <1>2, <1>3, <1>4 DEF UnreadIs

(* Where cdiff is in the file it reads.                                    *)
Here(S) ==
  \E n \in Nat :
    /\ UnreadIs(configs[reading], n, unread, S)
    /\ ReadUpto(configs[reading], n, foundbeginning, inbanner, level, lastline, router[reading])

CdInv(S) ==
  /\ configs[1] \in Seq(S) /\ Orderly(configs[1])
  /\ configs[2] \in Seq(S) /\ Orderly(configs[2])
  /\ reading \in {1, 2}
  /\ router = <<router[1], router[2]>>
  /\ reading = 1 => router[2] = {}
  /\ cdpc = "read" => Here(S)
  /\ cdpc = "read" => reading = 1 \/ router[1] = CommandsIn(configs[1])
  /\ cdpc = "diff" => router = <<CommandsIn(configs[1]), CommandsIn(configs[2])>>
  /\ DifferencesShown

LEMMA AtTheStart ==
  ASSUME NEW S, NEW text \in Seq(S), NEW lev, NEW last
  PROVE  \E n \in Nat : UnreadIs(text, n, text, S) /\ ReadUpto(text, n, FALSE, FALSE, lev, last, {})
<1>1. UnreadIs(text, 0, text, S)
  BY DEF UnreadIs
<1> QED  BY <1>1, NothingRead

LEMMA CdStarts ==
  ASSUME NEW S, CdInit, configs[1] \in Seq(S), Orderly(configs[1]),
         configs[2] \in Seq(S), Orderly(configs[2])
  PROVE  CdInv(S)
<1>1. reading = 1 /\ router = <<{}, {}>> /\ cdpc = "read" /\ unread = configs[1]
      /\ foundbeginning = FALSE /\ inbanner = FALSE
  BY DEF CdInit, FreshReader
<1>2. Here(S)
  <2>1. router[reading] = {}
    BY <1>1
  <2> QED  BY <1>1, <2>1, AtTheStart DEF Here
<1> QED  BY <1>1, <1>2 DEF CdInv, DifferencesShown

(* The line that is read next, of the file that is read.                   *)
LineRead(S, text, k) ==
  /\ text = configs[reading] /\ text \in Seq(S) /\ Orderly(text)
  /\ k \in 1..Len(text) /\ This = text[k]
  /\ UnreadIs(text, k, Tail(unread), S)
  /\ ReadUpto(text, k - 1, foundbeginning, inbanner, level, lastline, router[reading])

LEMMA LineComes ==
  ASSUME NEW S, CdInv(S), cdpc = "read", unread # <<>>
  PROVE  \E text, k : LineRead(S, text, k)
<1>1. PICK text : text = configs[reading]
  OBVIOUS
<1>2. text \in Seq(S) /\ Orderly(text)
  <2>1. CASE reading = 1
    BY <1>1, <2>1 DEF CdInv
  <2>2. CASE reading = 2
    BY <1>1, <2>2 DEF CdInv
  <2> QED  BY <2>1, <2>2 DEF CdInv
<1>3. PICK n \in Nat :
        /\ UnreadIs(text, n, unread, S)
        /\ ReadUpto(text, n, foundbeginning, inbanner, level, lastline, router[reading])
  BY <1>1 DEF CdInv, Here
<1>4. (n + 1) - 1 = n
  OBVIOUS
<1>5. n + 1 \in 1..Len(text) /\ This = text[n + 1] /\ UnreadIs(text, n + 1, Tail(unread), S)
  BY <1>2, <1>3, HeadTail DEF This
<1>6. LineRead(S, text, n + 1)
  BY <1>1, <1>2, <1>3, <1>4, <1>5 DEF LineRead
<1> QED  BY <1>6

(* A step that stays in the file.                                          *)
LEMMA StaysInFile ==
  ASSUME NEW S, CdInv(S), cdpc = "read", NEW k \in Nat,
         UNCHANGED <<configs, reading, cdpc>>,
         UnreadIs(configs[reading], k, unread', S),
         ReadUpto(configs[reading], k, foundbeginning', inbanner', level', lastline',
                  router'[reading]),
         router' = <<router'[1], router'[2]>>,
         \A f \in {1, 2} : f # reading => router'[f] = router[f]
  PROVE  CdInv(S)'
<1>1. Here(S)'
  BY DEF Here
<1>2. cdpc' = "read" /\ reading' = reading /\ configs' = configs
  OBVIOUS
<1>3. reading' = 1 => router'[2] = {}
  BY <1>2 DEF CdInv
<1>4. reading' = 1 \/ router'[1] = CommandsIn(configs'[1])
  BY <1>2 DEF CdInv
<1> QED  BY <1>1, <1>2, <1>3, <1>4 DEF CdInv, DifferencesShown

(* Before the first comment there is no banner.                            *)
LEMMA NoBannerYet ==
  ASSUME NEW S, NEW text \in Seq(S), NEW k \in 1..Len(text), ~ Begun(text, k)
  PROVE  ~ InsideBanner(text, k) /\ k \notin Ends(text) /\ k \notin Says(text)
<1>1. ASSUME NEW a \in 1..k-1, Begun(text, a) PROVE FALSE
  BY <1>1 DEF Begun
<1> QED  BY <1>1 DEF InsideBanner, Ends, Says

LEMMA QuietStep ==
  ASSUME NEW S, CdInv(S),
         BeforeBeginning \/ SkipIgnored \/ Banner \/ InBanner
  PROVE  CdInv(S)'
<1>1. cdpc = "read" /\ unread # <<>> /\ unread' = Tail(unread)
      /\ UNCHANGED <<configs, reading, router, level, lastline, cdpc>>
  BY DEF BeforeBeginning, SkipIgnored, Banner, InBanner, Within, CdLine, reader
<1>2. PICK text, k : LineRead(S, text, k)
  BY <1>1, LineComes
<1>3. /\ text = configs[reading] /\ text \in Seq(S) /\ k \in 1..Len(text) /\ This = text[k]
      /\ UnreadIs(text, k, Tail(unread), S)
      /\ ReadUpto(text, k - 1, foundbeginning, inbanner, level, lastline, router[reading])
  BY <1>2 DEF LineRead
<1>4. (k - 1) + 1 = k /\ k \in Nat
  BY <1>3
<1>5. /\ foundbeginning \in BOOLEAN /\ (foundbeginning <=> Begun(text, k))
      /\ inbanner \in BOOLEAN /\ (inbanner <=> InsideBanner(text, k))
  BY <1>3, <1>4 DEF ReadUpto
<1>6. /\ k \notin Ends(text) /\ k \notin Says(text)
      /\ foundbeginning' \in BOOLEAN
      /\ foundbeginning' <=> foundbeginning \/ text[k].kind = "!"
      /\ inbanner' \in BOOLEAN
      /\ inbanner' <=> \/ text[k].kind = "banner" /\ text[k].carets \notin {0, 2} /\ foundbeginning
                       \/ inbanner /\ GoesOn(text[k])
  <2>1. CASE BeforeBeginning
    <3>1. ~ foundbeginning /\ foundbeginning' = (text[k].kind = "!") /\ inbanner' = inbanner
      BY <1>3, <2>1 DEF BeforeBeginning
    <3>2. ~ inbanner /\ k \notin Ends(text) /\ k \notin Says(text)
      BY <1>3, <1>5, <3>1, NoBannerYet
    <3> QED  BY <1>5, <3>1, <3>2
  <2>2. CASE SkipIgnored
    <3>1. foundbeginning /\ text[k].kind \in SaysNothing
          /\ foundbeginning' = foundbeginning /\ inbanner' = inbanner
      BY <1>3, <2>2 DEF SkipIgnored, Within, Ignored, SaysNothing, reader
    <3>2. k \notin Ends(text) /\ k \notin Says(text)
      BY <3>1 DEF Ends, Says, SaysNothing
    <3>3. text[k].kind # "banner" /\ GoesOn(text[k])
      BY <3>1 DEF GoesOn, SaysNothing
    <3> QED  BY <1>5, <3>1, <3>2, <3>3
  <2>3. CASE Banner
    <3>1. foundbeginning /\ text[k].kind = "banner" /\ inbanner' = (text[k].carets \notin {0, 2})
          /\ foundbeginning' = foundbeginning
      BY <1>3, <2>3 DEF Banner, Within
    <3>2. k \notin Ends(text) /\ k \notin Says(text)
      BY <3>1 DEF Ends, Says
    <3>3. ~ GoesOn(text[k])
      BY <3>1 DEF GoesOn
    <3> QED  BY <1>5, <3>1, <3>2, <3>3
  <2>4. CASE InBanner
    <3>1. foundbeginning /\ text[k].kind \notin SaysNothing /\ text[k].kind # "banner" /\ inbanner
          /\ inbanner' = (text[k].carets = 0) /\ foundbeginning' = foundbeginning
      BY <1>3, <2>4 DEF InBanner, Within, Ignored, SaysNothing
    <3>2. k \notin Ends(text) /\ k \notin Says(text)
      BY <1>5, <3>1 DEF Ends, Says
    <3>3. GoesOn(text[k]) <=> text[k].carets = 0
      BY <3>1 DEF GoesOn
    <3> QED  BY <1>5, <3>1, <3>2, <3>3
  <2> QED  BY <2>1, <2>2, <2>3, <2>4
<1>7. ReadUpto(text, k, foundbeginning', inbanner', level, lastline, router[reading])
  BY <1>3, <1>6, QuietLine
<1>8. router' = <<router'[1], router'[2]>> /\ router' = router /\ level' = level /\ lastline' = lastline
  BY <1>1 DEF CdInv
<1> QED  BY <1>1, <1>3, <1>4, <1>7, <1>8, StaysInFile

LEMMA CommandStep ==
  ASSUME NEW S, CdInv(S), Command PROVE CdInv(S)'
<1>1. cdpc = "read" /\ unread # <<>> /\ unread' = Tail(unread)
      /\ UNCHANGED <<configs, reading, foundbeginning, inbanner, cdpc>>
  BY DEF Command, Within, CdLine
<1>2. PICK text, k : LineRead(S, text, k)
  BY <1>1, LineComes
<1>3. /\ text = configs[reading] /\ text \in Seq(S) /\ Orderly(text)
      /\ k \in 1..Len(text) /\ This = text[k]
      /\ UnreadIs(text, k, Tail(unread), S)
      /\ ReadUpto(text, k - 1, foundbeginning, inbanner, level, lastline, router[reading])
  BY <1>2 DEF LineRead
<1>4. k \in Nat /\ reading \in {1, 2} /\ router = <<router[1], router[2]>>
  BY <1>3 DEF CdInv
<1>5. foundbeginning \in BOOLEAN /\ inbanner \in BOOLEAN
  BY <1>3 DEF ReadUpto
<1>6. /\ foundbeginning = TRUE /\ inbanner = FALSE
      /\ foundbeginning' = TRUE /\ inbanner' = FALSE
      /\ text[k].kind \notin SaysNothing \cup {"banner", "end"}
  BY <1>1, <1>3, <1>5 DEF Command, Within, Ignored, SaysNothing
<1>7. /\ level' = IF text[k].kind # "sub" THEN "MAIN" ELSE IF level = "MAIN" THEN lastline ELSE level
      /\ lastline' = text[k].text
      /\ router' = [router EXCEPT ![reading] = @ \cup {<<level', text[k].text>>}]
  BY <1>3 DEF Command, Level
<1>8. /\ router'[reading] = router[reading] \cup {<<level', text[k].text>>}
      /\ router' = <<router'[1], router'[2]>>
      /\ \A f \in {1, 2} : f # reading => router'[f] = router[f]
  <2>1. PICK new : new = <<level', text[k].text>>
    OBVIOUS
  <2>2. router' = [router EXCEPT ![reading] = @ \cup {new}]
    BY <1>7, <2>1
  <2> QED  BY <1>4, <2>1, <2>2
<1>9. ReadUpto(text, k, TRUE, FALSE, level', lastline', router'[reading])
  <2>1. ReadUpto(text, k - 1, TRUE, FALSE, level, lastline, router[reading])
    BY <1>3, <1>6
  <2>2. ReadUpto(text, k, TRUE, FALSE, level', text[k].text,
                 router[reading] \cup {<<level', text[k].text>>})
    BY <1>3, <1>6, <1>7, <2>1, CommandLine, Zenon
  <2> QED  BY <1>7, <1>8, <2>2
<1> QED  BY <1>1, <1>3, <1>4, <1>6, <1>8, <1>9, StaysInFile

LEMMA EndStep ==
  ASSUME NEW S, CdInv(S), EndOfConfig PROVE CdInv(S)'
<1>1. cdpc = "read" /\ unread # <<>> /\ UNCHANGED <<configs, router>>
  BY DEF EndOfConfig
<1>2. PICK text, k : LineRead(S, text, k)
  BY <1>1, LineComes
<1>3. /\ text = configs[reading] /\ text \in Seq(S) /\ k \in 1..Len(text) /\ This = text[k]
      /\ ReadUpto(text, k - 1, foundbeginning, inbanner, level, lastline, router[reading])
  BY <1>2 DEF LineRead
<1>4. /\ (k - 1) + 1 = k /\ k \in DOMAIN text
      /\ reading \in {1, 2} /\ router = <<router[1], router[2]>>
  BY <1>3 DEF CdInv
<1>5. /\ foundbeginning \in BOOLEAN /\ (foundbeginning <=> Begun(text, k))
      /\ inbanner \in BOOLEAN /\ (inbanner <=> InsideBanner(text, k))
      /\ router[reading] = CommandsUpto(text, k - 1)
  BY <1>3, <1>4 DEF ReadUpto
<1>6. foundbeginning /\ text[k].kind = "end" /\ ~ inbanner
  BY <1>3 DEF EndOfConfig
<1>7. k \in Ends(text)
  BY <1>4, <1>5, <1>6 DEF Ends
<1>8. router[reading] = CommandsIn(text)
  BY <1>3, <1>5, <1>7, AllBeforeEnd
<1>9. CASE reading = 1
  <2>1. /\ reading' = 2 /\ unread' = configs'[2] /\ configs' = configs /\ router' = router
        /\ foundbeginning' = FALSE /\ inbanner' = FALSE /\ cdpc' = "read"
    BY <1>1, <1>5, <1>6, <1>9 DEF EndOfConfig
  <2>2. router'[2] = {} /\ configs'[2] \in Seq(S)
    BY <1>9, <2>1 DEF CdInv
  <2>3. Here(S)'
    <3>1. PICK text2 : text2 = configs'[2]
      OBVIOUS
    <3>2. PICK n \in Nat : UnreadIs(text2, n, text2, S)
                           /\ ReadUpto(text2, n, FALSE, FALSE, level', lastline', {})
      BY <2>2, <3>1, AtTheStart
    <3> QED  BY <2>1, <2>2, <3>1, <3>2 DEF Here
  <2>4. router'[1] = CommandsIn(configs'[1])
    BY <1>3, <1>8, <1>9, <2>1
  <2> QED  BY <2>1, <2>3, <2>4 DEF CdInv, DifferencesShown
<1>10. CASE reading = 2
  <2>1. cdpc' = "diff" /\ reading' = 2 /\ configs' = configs /\ router' = router
    BY <1>1, <1>10 DEF EndOfConfig
  <2>2. router' = <<CommandsIn(configs'[1]), CommandsIn(configs'[2])>>
    BY <1>1, <1>3, <1>4, <1>8, <1>10, <2>1 DEF CdInv
  <2> QED  BY <2>1, <2>2 DEF CdInv, DifferencesShown
<1> QED  BY <1>4, <1>9, <1>10

LEMMA DiffStep ==
  ASSUME NEW S, CdInv(S), Diff PROVE CdInv(S)'
<1> DEFINE one == CommandsIn(configs[1])
           two == CommandsIn(configs[2])
<1>1. Nested(one) /\ Nested(two)
  BY AllNested DEF CdInv
<1>2. router[1] = one /\ router[2] = two
  BY DEF CdInv, Diff
<1> HIDE DEF one, two
<1>3. removed' = {c \in one \ two : ~ OneSided(c[1], one, two)}
  BY <1>1, <1>2, MissingIs DEF Diff
<1>4. added' = {c \in two \ one : ~ OneSided(c[1], one, two)}
  <2>1. added' = {c \in two \ one : ~ OneSided(c[1], two, one)}
    BY <1>1, <1>2, MissingIs DEF Diff
  <2>2. \A c : OneSided(c[1], two, one) <=> OneSided(c[1], one, two)
    BY EitherSide
  <2> QED  BY <2>1, <2>2
<1>5. configs' = configs /\ router' = router /\ reading' = reading /\ cdpc' = "done"
  BY DEF Diff
<1>6. DifferencesShown'
  BY <1>3, <1>4, <1>5 DEF DifferencesShown, one, two
<1> QED  BY <1>5, <1>6 DEF CdInv

LEMMA CdKeeps ==
  ASSUME NEW S, CdInv(S), [CdNext]_cdVars PROVE CdInv(S)'
<1>1. CASE BeforeBeginning \/ SkipIgnored \/ Banner \/ InBanner
  BY <1>1, QuietStep
<1>2. CASE Command
  BY <1>2, CommandStep
<1>3. CASE EndOfConfig
  BY <1>3, EndStep
<1>4. CASE BailOut
  <2>1. cdpc' = "die" /\ UNCHANGED <<configs, reading, router>>
    BY <1>4 DEF BailOut
  <2> QED  BY <2>1 DEF CdInv, DifferencesShown
<1>5. CASE Diff
  BY <1>5, DiffStep
<1>6. CASE UNCHANGED cdVars
  BY <1>6 DEF cdVars, reader, CdInv, Here, DifferencesShown
<1> QED  BY <1>1, <1>2, <1>3, <1>4, <1>5, <1>6 DEF CdNext

(* cdiff shows what is in one configuration and not in the other, whatever *)
(* the two files hold: no command is lost, none is shown under a command   *)
(* it does not belong to, and no line of a banner is taken for one         *)
(* (src/bin/cdiff).                                                        *)
THEOREM EveryDifferenceShown ==
  ASSUME NEW CONSTANT S
  PROVE  CdSpec /\ configs[1] \in Seq(S) /\ configs[2] \in Seq(S)
                /\ Orderly(configs[1]) /\ Orderly(configs[2])
           => []DifferencesShown
<1>1. CdInit /\ configs[1] \in Seq(S) /\ configs[2] \in Seq(S)
             /\ Orderly(configs[1]) /\ Orderly(configs[2]) => CdInv(S)
  BY CdStarts
<1>2. CdInv(S) /\ [CdNext]_cdVars => CdInv(S)'
  BY CdKeeps
<1>3. CdInv(S) => DifferencesShown
  BY DEF CdInv
<1> QED  BY <1>1, <1>2, <1>3, PTL DEF CdSpec

-----------------------------------------------------------------------------
(* crc16, for buffers of any length, any seed and any error in one byte.   *)

CrcInv ==
  /\ buffer \in Seq(SUBSET (0..7)) /\ damaged \in Seq(SUBSET (0..7))
  /\ Len(damaged) = Len(buffer)
  /\ count \in Nat /\ count <= Len(buffer)
  /\ crc \in SUBSET (0..7) /\ damagedcrc \in SUBSET (0..7)
  /\ LowByteOfLastRemainder
  /\ count > 0 => damagedcrc = Low(Remainder(damaged[count]))

LEMMA SeqOfLength ==
  ASSUME NEW S, NEW n \in Nat, NEW s \in [1..n -> S] PROVE s \in Seq(S)
<1>1. [i \in 1..n |-> s[i]] \in Seq(S)
  BY IsASeq
<1> QED  BY <1>1

(* Nothing of an 8-bit sum is left when it is moved by 8 bits, either way. *)
LEMMA UpdateForgets ==
  ASSUME NEW c \in SUBSET (0..7), NEW byte \in SUBSET (0..7)
  PROVE  Update(c, byte) = Low(Remainder(byte))
<1>1. Right(c) = {}
  BY DEF Right
<1>2. Low(byte ^^ Right(c)) = byte
  BY <1>1 DEF Low, ^^
<1>3. \A k \in Left(c) : k \notin 0..7
  BY DEF Left
<1>4. Low(Entry[byte] ^^ Left(c)) = Low(Entry[byte])
  BY <1>3 DEF Low, ^^
<1>5. Entry[byte] = Remainder(byte)
  BY TableOfPolynomial
<1> QED  BY <1>2, <1>4, <1>5 DEF Update

LEMMA LowBytesAreApart ==
  ASSUME NEW a \in SUBSET (0..7), NEW b \in SUBSET (0..7), Low(Entry[a]) = Low(Entry[b])
  PROVE  a = b
<1> DEFINE bytes == SUBSET (0..7)
           lows == {Low(Entry[byte]) : byte \in bytes}
           low == [byte \in bytes |-> Low(Entry[byte])]
<1>1. IsFiniteSet(bytes)
  <2>1. \A m, n \in Int : IsFiniteSet(m..n)
    BY FS_Interval, Zenon
  <2>2. IsFiniteSet(0..7)
    <3>1. 0 \in Int /\ 7 \in Int
      OBVIOUS
    <3> QED  BY <2>1, <3>1, Zenon
  <2> QED  BY <2>2, FS_SUBSET, Zenon
<1>2. Cardinality(bytes) = Cardinality(lows)
  BY LowBytesDiffer
<1>3. low \in [bytes -> lows] /\ \A t \in lows : \E byte \in bytes : low[byte] = t
  OBVIOUS
<1>4. low \in Surjection(bytes, lows)
  BY <1>3 DEF Surjection
<1>5. low \in Injection(bytes, lows)
  <2> HIDE DEF bytes, lows, low
  <2> QED  BY <1>1, <1>2, <1>4, FS_SurjSameCardinalityImpliesInj
<1>6. low[a] = low[b]
  OBVIOUS
<1>7. a \in bytes /\ b \in bytes
  OBVIOUS
<1> HIDE DEF bytes, lows, low
<1> QED  BY <1>5, <1>6, <1>7 DEF Injection, IsInjective

LEMMA CrcInitInv == CrcInit => CrcInv
<1> SUFFICES ASSUME CrcInit PROVE CrcInv
  OBVIOUS
<1>1. buffer \in Seq(SUBSET (0..7))
  <2>1. CASE buffer \in {<<b>> : b \in SUBSET (0..7)}
    <3>1. PICK b \in SUBSET (0..7) : buffer = <<b>>
      BY <2>1
    <3> QED  BY <3>1
  <2>2. CASE buffer \in [1..Length -> Bytes]
    <3> DEFINE bytes == SUBSET (0..7)
    <3>1. Length \in Nat /\ Bytes \subseteq bytes
      BY CrcParameters
    <3>2. buffer \in Seq(bytes)
      <4> HIDE DEF bytes
      <4>1. buffer \in [1..Length -> bytes]
        BY <2>2, <3>1
      <4> QED  BY <3>1, <4>1, SeqOfLength, Zenon
    <3> QED  BY <3>2
  <2> QED  BY <2>1, <2>2 DEF CrcInit
<1>2. PICK p \in DOMAIN buffer, e \in Errors : damaged = [buffer EXCEPT ![p] = @ ^^ e]
  BY DEF CrcInit
<1>3. buffer[p] ^^ e \in SUBSET (0..7)
  BY <1>1, <1>2, CrcParameters DEF ^^
<1>4. damaged \in Seq(SUBSET (0..7)) /\ Len(damaged) = Len(buffer)
  BY <1>1, <1>2, <1>3
<1>5. InitialCrc \in SUBSET (0..7)
  BY DEF InitialCrc, Low
<1> QED  BY <1>1, <1>4, <1>5 DEF CrcInit, CrcInv, LowByteOfLastRemainder

LEMMA CrcStepInv == CrcInv /\ [SumByte]_crcVars => CrcInv'
<1> SUFFICES ASSUME CrcInv, [SumByte]_crcVars PROVE CrcInv'
  OBVIOUS
<1>1. CASE SumByte
  <2>1. /\ count' = count + 1 /\ count' \in 1..Len(buffer)
        /\ buffer' = buffer /\ damaged' = damaged
    BY <1>1 DEF SumByte, CrcInv
  <2>2. buffer[count'] \in SUBSET (0..7) /\ damaged[count'] \in SUBSET (0..7)
    BY <2>1 DEF CrcInv
  <2>3. crc' = Low(Remainder(buffer[count'])) /\ damagedcrc' = Low(Remainder(damaged[count']))
    BY <1>1, <2>2, UpdateForgets DEF SumByte, CrcInv
  <2>4. crc' \in SUBSET (0..7) /\ damagedcrc' \in SUBSET (0..7)
    BY <2>3 DEF Low
  <2> QED  BY <2>1, <2>3, <2>4 DEF CrcInv, LowByteOfLastRemainder
<1>2. CASE UNCHANGED crcVars
  BY <1>2 DEF crcVars, CrcInv, LowByteOfLastRemainder
<1> QED  BY <1>1, <1>2

LEMMA CrcAlwaysInv == CrcSpec => []CrcInv
<1> QED  BY CrcInitInv, CrcStepInv, PTL DEF CrcSpec

(* What CRCCCITT returns is the low byte of the remainder of the last byte *)
(* of the buffer; neither the seed nor any byte before that has a part.    *)
THEOREM OnlyLastByteCounts == CrcSpec => []LowByteOfLastRemainder
<1>1. CrcInv => LowByteOfLastRemainder
  BY DEF CrcInv
<1> QED  BY <1>1, CrcAlwaysInv, PTL

(* An error in the last byte is always noticed; one before it is not, in a *)
(* buffer of any length, whatever the error is.                            *)
THEOREM OnlyLastByteIsChecked ==
  CrcSpec => [](count > 0 => ((damagedcrc = crc) <=> (damaged[count] = buffer[count])))
<1>1. ASSUME CrcInv, count > 0
      PROVE  (damagedcrc = crc) <=> (damaged[count] = buffer[count])
  <2>1. buffer[count] \in SUBSET (0..7) /\ damaged[count] \in SUBSET (0..7)
    BY <1>1 DEF CrcInv
  <2>2. \A byte \in SUBSET (0..7) : Low(Remainder(byte)) = Low(Entry[byte])
    BY TableOfPolynomial
  <2>3. crc = Low(Entry[buffer[count]]) /\ damagedcrc = Low(Entry[damaged[count]])
    BY <1>1, <2>1, <2>2 DEF CrcInv, LowByteOfLastRemainder
  <2> QED  BY <2>1, <2>3, LowBytesAreApart
<1>2. CrcInv => (count > 0 => ((damagedcrc = crc) <=> (damaged[count] = buffer[count])))
  BY <1>1
<1> QED  BY <1>2, CrcAlwaysInv, PTL
=============================================================================
