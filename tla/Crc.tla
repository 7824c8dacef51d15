--------------------------------- MODULE Crc ---------------------------------
(***************************************************************************)
(* CRCCCITT of src/c/crc16.c, one byte of the buffer per step.  Beside a   *)
(* buffer, a copy of it with an error in one byte is summed.               *)
(*                                                                         *)
(* A uint8_t and a uint16_t are the sets of the bits that are 1 in them.   *)
(***************************************************************************)
EXTENDS Integers, Sequences, FiniteSets

CONSTANTS Bytes,     (* the bytes that occur in longer buffers             *)
          Length,    (* of the longer buffers                              *)
          Errors,    (* the bits that may be wrong in a byte               *)
          Seed       (* @seed; @final is 0                                 *)

ASSUME CrcParameters ==
  /\ Bytes \subseteq SUBSET (0..7) /\ Errors \subseteq SUBSET (0..7)
  /\ Length \in Nat /\ Seed \in 0..65535

VARIABLES
  buffer,    (* @data                                                      *)
  damaged,   (* the copy                                                   *)
  count,     (* the bytes that have been summed; -1: not called            *)
  crc, damagedcrc

crcVars == <<buffer, damaged, count, crc, damagedcrc>>

crc_table ==
  <<0,  4129,  8258, 12387, 16516, 20645, 24774, 28903, 33032, 37161, 41290, 45419,
     49548, 53677, 57806, 61935,  4657,   528, 12915,  8786, 21173, 17044, 29431, 25302,
     37689, 33560, 45947, 41818, 54205, 50076, 62463, 58334,  9314, 13379,  1056,  5121,
     25830, 29895, 17572, 21637, 42346, 46411, 34088, 38153, 58862, 62927, 50604, 54669,
     13907,  9842,  5649,  1584, 30423, 26358, 22165, 18100, 46939, 42874, 38681, 34616,
     63455, 59390, 55197, 51132, 18628, 22757, 26758, 30887,  2112,  6241, 10242, 14371,
     51660, 55789, 59790, 63919, 35144, 39273, 43274, 47403, 23285, 19156, 31415, 27286,
      6769,  2640, 14899, 10770, 56317, 52188, 64447, 60318, 39801, 35672, 47931, 43802,
     27814, 31879, 19684, 23749, 11298, 15363,  3168,  7233, 60846, 64911, 52716, 56781,
     44330, 48395, 36200, 40265, 32407, 28342, 24277, 20212, 15891, 11826,  7761,  3696,
     65439, 61374, 57309, 53244, 48923, 44858, 40793, 36728, 37256, 33193, 45514, 41451,
     53516, 49453, 61774, 57711,  4224,   161, 12482,  8419, 20484, 16421, 28742, 24679,
     33721, 37784, 41979, 46042, 49981, 54044, 58239, 62302,   689,  4752,  8947, 13010,
     16949, 21012, 25207, 29270, 46570, 42443, 38312, 34185, 62830, 58703, 54572, 50445,
     13538,  9411,  5280,  1153, 29798, 25671, 21540, 17413, 42971, 47098, 34713, 38840,
     59231, 63358, 50973, 55100,  9939, 14066,  1681,  5808, 26199, 30326, 17941, 22068,
     55628, 51565, 63758, 59695, 39368, 35305, 47498, 43435, 22596, 18533, 30726, 26663,
      6336,  2273, 14466, 10403, 52093, 56156, 60223, 64286, 35833, 39896, 43963, 48026,
     19061, 23124, 27191, 31254,  2801,  6864, 10931, 14994, 64814, 60687, 56684, 52557,
     48554, 44427, 40424, 36297, 31782, 27655, 23652, 19525, 15522, 11395,  7392,  3265,
     61215, 65342, 53085, 57212, 44955, 49082, 36825, 40952, 28183, 32310, 20053, 24180,
     11923, 16050,  3793,  7920>>

Bits(n) == {k \in 0..15 : (n \div 2^k) % 2 = 1}

a ^^ b == (a \ b) \cup (b \ a)
Left(word) == {k + 8 : k \in word}
Right(word) == {k - 8 : k \in word \ (0..7)}
Low(word) == word \cap (0..7)

(* The entry that is at the place of a byte in the table.                  *)
Entry ==
  [byte \in SUBSET (0..7) |-> Bits(crc_table[(CHOOSE n \in 0..255 : Bits(n) = byte) + 1])]

(* uint8_t crc = seed; *)
InitialCrc == Low(Bits(Seed))

(* Mutant of Update: the table is indexed with the wrong half.             *)
UpdateLowHalf(c, b) == Low(Entry[Low(b ^^ c)] ^^ Left(c))

(* temp = (b ^ (crc >> 8)) & 0xff; crc = crc_table[temp] ^ (crc << 8);     *)
(* crc is a uint8_t, although the table holds 16 bits.                     *)
Update(c, b) == Low(Entry[Low(b ^^ Right(c))] ^^ Left(c))

CrcInit ==
  /\ buffer \in {<<b>> : b \in SUBSET (0..7)} \cup [1..Length -> Bytes]
  /\ \E p \in DOMAIN buffer, e \in Errors :
       damaged = [buffer EXCEPT ![p] = @ ^^ e]
  /\ count = 0
  /\ crc = InitialCrc /\ damagedcrc = InitialCrc

SumByte ==
  /\ count >= 0 /\ count < Len(buffer)
  /\ count' = count + 1
  /\ crc' = Update(crc, buffer[count'])
  /\ damagedcrc' = Update(damagedcrc, damaged[count'])
  /\ UNCHANGED <<buffer, damaged>>

CrcSpec == CrcInit /\ [][SumByte]_crcVars

-----------------------------------------------------------------------------
(* What is left of a byte, moved up by 16 bits, after the division by      *)
(* x^16 + x^12 + x^5 + 1, bit by bit.                                      *)
Remainder(byte) ==
  LET rest[k \in 0..8] ==
        IF k = 0 THEN Left(byte)
        ELSE LET twice == {i + 1 : i \in rest[k-1]}
             IN  IF 16 \in twice THEN twice ^^ {16, 12, 5, 0} ELSE twice
  IN  rest[8]

(* The table is that of the polynomial that the head of the file names.    *)
ASSUME TableOfPolynomial == \A byte \in SUBSET (0..7) : Entry[byte] = Remainder(byte)

(* The low bytes of its entries are as many as there are bytes.            *)
ASSUME LowBytesDiffer ==
  Cardinality({Low(Entry[byte]) : byte \in SUBSET (0..7)}) = Cardinality(SUBSET (0..7))

(* As crc has 8 bits, what the function returns is the low byte of the     *)
(* remainder of the last byte alone.                                       *)
LowByteOfLastRemainder ==
  count > 0 => crc = Low(Remainder(buffer[count]))

(* The comment at line 11: it can detect errors in any arbitrary number of *)
(* bits of data.  (Of one byte or of two, as here, the 16-bit code does.)  *)
DetectsErrors ==
  count = Len(buffer) => crc # damagedcrc
=============================================================================
