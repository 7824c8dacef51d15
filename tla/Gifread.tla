------------------------------- MODULE Gifread -------------------------------
(***************************************************************************)
(* src/c/gifread.c: what it reads of a file, call of getbytes by call, and *)
(* what it does next.  The fields it prints are left out.  A file is any   *)
(* sequence of bytes; nothing is assumed of it.                            *)
(***************************************************************************)
EXTENDS Integers, Sequences

Byte == 0..255
Capacity == 3 * 256 + 1                              (* sizeof (buffer)    *)

VARIABLES
  file,   (* the bytes of the file                                         *)
  starts, (* where the format has the parts of the file begin, and end     *)
  pos,    (* how many of them have been read                               *)
  buf,    (* the bytes of the last getbytes, before the '\0' it appends    *)
  gpc     (* the getbytes that comes next, or how the program has ended    *)

gifVars == <<file, starts, pos, buf, gpc>>

GifEnds == {"done", "unread", "error"}

(* ubuf[i], up to the '\0', after the getbytes of this step.               *)
Ubuf(i) == IF i < Len(buf') THEN buf'[i + 1] ELSE 0

(* getbytes(count), and what the program does with the bytes it got.       *)
GetBytes(count, next) ==
  /\ pos' = IF pos + count <= Len(file) THEN pos + count ELSE Len(file)
  /\ buf' = SubSeq(file, pos + 1, pos')
  /\ gpc' = IF Len(buf') = count THEN next ELSE "error"
  /\ UNCHANGED <<file, starts>>

HasTable(flags) == flags >= 128

(* Mutant of TableBytes: four bytes per colour.                            *)
TableBytesRGBA(flags) == 4 * 2 ^ ((flags % 8) + 1)

(* 3 * (2 << (flags & 7)) *)
TableBytes(flags) == 3 * 2 ^ ((flags % 8) + 1)

-----------------------------------------------------------------------------
GifInit ==
  /\ file \in Seq(Byte) /\ starts \in Seq(Nat)
  /\ pos = 0 /\ buf = <<>> /\ gpc = "header"

Header ==
  /\ gpc = "header"
  /\ GetBytes(6, IF <<Ubuf(0), Ubuf(1), Ubuf(2)>> = <<71, 73, 70>> (* GIF *)
                   THEN "screen" ELSE "error")

(* The logical screen descriptor; its flags stay in buf.                   *)
Screen ==
  /\ gpc = "screen"
  /\ GetBytes(7, IF HasTable(Ubuf(4)) THEN "table" ELSE "block")

GlobalTable == gpc = "table" /\ GetBytes(TableBytes(buf[5]), "block")

Block ==
  /\ gpc = "block"
  /\ GetBytes(1, CASE Ubuf(0) = 33 -> "label"         (* 0x21, extension  *)
                   [] Ubuf(0) = 44 -> "image"         (* 0x2C             *)
                   [] Ubuf(0) = 59 -> "end"           (* 0x3B, trailer    *)
                   [] OTHER -> "error")

ImageDescriptor ==
  /\ gpc = "image"
  /\ GetBytes(9, IF HasTable(Ubuf(8)) THEN "local table" ELSE "lzw")

LocalTable == gpc = "local table" /\ GetBytes(TableBytes(buf[9]), "lzw")

MinimumCodeSize == gpc = "lzw" /\ GetBytes(1, "size")

ExtensionLabel ==
  /\ gpc = "label"
  /\ GetBytes(1, CASE Ubuf(0) = 249 -> "graphic"      (* 0xF9             *)
                   [] Ubuf(0) = 1   -> "plain text"   (* 0x01             *)
                   [] Ubuf(0) = 255 -> "application"  (* 0xFF             *)
                   [] OTHER -> "size")                (* comment, unknown *)

GraphicControl == gpc = "graphic" /\ GetBytes(6, "block")

PlainText == gpc = "plain text" /\ GetBytes(13, "text")

(* Mutant of PlainTextData: the loop goes on until there is a byte.        *)
PlainTextForEver ==
  gpc = "text" /\ GetBytes(0, IF Ubuf(0) = 0 THEN "text" ELSE "data")

(* Asks for 0 bytes, so what it looks at is the '\0' that getbytes has     *)
(* just stored, and the body of the loop is never reached.                 *)
PlainTextData ==
  gpc = "text" /\ GetBytes(0, IF Ubuf(0) = 0 THEN "block" ELSE "data")

ApplicationName == gpc = "application" /\ GetBytes(9, "authentication")

(* With either name, NETSCAPE or another, the same bytes follow.           *)
Authentication == gpc = "authentication" /\ GetBytes(3, "size")

(* The loop over sub-blocks of images, comments, applications and unknown  *)
(* extensions: a length, and that many bytes.                              *)
SubBlockSize ==
  gpc = "size" /\ GetBytes(1, IF Ubuf(0) = 0 THEN "block" ELSE "data")

SubBlock == gpc = "data" /\ GetBytes(buf[1], "size")

(* Mutant of End: what follows the trailer is not looked at.               *)
EndAnyway == gpc = "end" /\ gpc' = "done" /\ UNCHANGED <<file, starts, pos, buf>>

End ==
  /\ gpc = "end"
  /\ gpc' = IF pos < Len(file) THEN "unread" ELSE "done"
  /\ UNCHANGED <<file, starts, pos, buf>>

GifNext ==
  \/ Header \/ Screen \/ GlobalTable \/ Block
  \/ ImageDescriptor \/ LocalTable \/ MinimumCodeSize
  \/ ExtensionLabel \/ GraphicControl \/ PlainText \/ PlainTextData
  \/ ApplicationName \/ Authentication \/ SubBlockSize \/ SubBlock \/ End

GifSpec == GifInit /\ [][GifNext]_gifVars
GifFairSpec == GifSpec /\ WF_gifVars(GifNext)

-----------------------------------------------------------------------------
(* Types, and how much each place finds in the buffer.                     *)
GifTypeOK ==
  /\ file \in Seq(Byte) /\ buf \in Seq(Byte)
  /\ pos \in Nat /\ pos <= Len(file)
  /\ gpc = "table" => Len(buf) = 7
  /\ gpc = "local table" => Len(buf) = 9
  /\ gpc = "data" => Len(buf) = 1

(* Whatever lengths the file gives for colour tables and sub-blocks, what  *)
(* getbytes stores and the '\0' behind it stay inside the buffer.          *)
NoOverrun == Len(buf) < Capacity

(* A file is accepted only when its last byte was taken for the trailer.   *)
AcceptedAtTrailer ==
  /\ gpc = "end" => pos > 0 /\ file[pos] = 59
  /\ gpc = "done" => pos = Len(file) /\ file[pos] = 59

-----------------------------------------------------------------------------
(* The format of GIF files, against which gifread is judged.  text is the  *)
(* whole of such a file; part k is what is behind at[k] and not behind     *)
(* at[k+1].  The first part is the header, the last one the trailer.       *)

ColourTable(flags) == IF flags \div 128 = 1 THEN 6 * 2 ^ (flags % 8) ELSE 0

HeadIn(text, j) ==
  /\ text[1] = 71 /\ text[2] = 73 /\ text[3] = 70
  /\ 13 <= j /\ j = 13 + ColourTable(text[11])

(* The lengths of the sub-blocks are the bytes behind the places of C,     *)
(* each of which leads to the next one; the one that is 0 is the last byte *)
(* of the part.                                                            *)
Chained(text, C, j) ==
  \A p \in C : IF text[p + 1] = 0 THEN p + 1 = j ELSE p + 1 + text[p + 1] \in C

SubBlocksIn(text, i, j) == \E C \in SUBSET (i..j-1) : i \in C /\ Chained(text, C, j)

ImageIn(text, i, j) ==
  /\ i + 10 <= j /\ text[i + 1] = 44
  /\ SubBlocksIn(text, i + 11 + ColourTable(text[i + 10]), j)

ExtensionIn(text, i, j) ==
  /\ i + 2 <= j /\ text[i + 1] = 33
  /\ CASE text[i + 2] = 249 -> j = i + 8
       [] text[i + 2] = 255 -> SubBlocksIn(text, i + 14, j)
       [] text[i + 2] = 1   -> SubBlocksIn(text, i + 15, j)
       [] OTHER             -> SubBlocksIn(text, i + 2, j)

IsGif(text, at) ==
  /\ at \in Seq(0..Len(text)) /\ Len(at) > 2
  /\ HeadIn(text, at[2])
  /\ \A k \in 2..Len(at)-2 : ImageIn(text, at[k], at[k+1]) \/ ExtensionIn(text, at[k], at[k+1])
  /\ at[Len(at)] = Len(text)
  /\ at[Len(at)-1] + 1 = Len(text) /\ text[Len(text)] = 59

(* Part k is a plain text extension.  gifread loses its place there, with  *)
(* text or without, since it does not read even the 0 at its end.          *)
HasText(k) ==
  /\ k \in 2..Len(starts)-2 /\ starts[k] + 2 <= Len(file)
  /\ file[starts[k] + 1] = 33 /\ file[starts[k] + 2] = 1

(* Until there is plain text, gifread looks for a block exactly where the  *)
(* format puts one: every length, fixed or read, was counted right.        *)
BlocksFoundInPlace ==
  gpc = "block" =>
    \/ \E k \in 2..Len(starts)-1 : pos = starts[k]
    \/ \E k \in DOMAIN starts : HasText(k) /\ pos > starts[k]

(* Without plain text, gifread accepts what is a whole file, and tells     *)
(* one that is cut short from one with something behind its trailer.       *)
VerdictIsRight ==
  (\A k \in DOMAIN starts : ~ HasText(k)) =>
    /\ gpc = "done" => Len(file) = starts[Len(starts)]
    /\ gpc = "unread" => Len(file) > starts[Len(starts)]
    /\ gpc = "error" => Len(file) < starts[Len(starts)]

(* The program comes to an end on every file, read errors or not.          *)
GifTerminates == <>(gpc \in GifEnds)
=============================================================================
