--------------------------------- MODULE Eax ---------------------------------
(***************************************************************************)
(* src/c/aes-eax.c: AES-128 EAX under one key.  A caller encrypts data in  *)
(* place; nonce, header, data and tag travel, and may not arrive as they   *)
(* were; a caller decrypts what arrived.  malloc and the AES functions may *)
(* fail at any call.                                                       *)
(*                                                                         *)
(* The cipher is ideal: a MAC or a block of key stream is an atom, and a   *)
(* string of bytes is a set of atoms whose exclusive or it is.             *)
(***************************************************************************)
EXTENDS Integers

CONSTANTS Strings,   (* nonces and headers                                 *)
          Texts      (* data, each a set of atoms                          *)

VARIABLES
  sent,     (* nonce, hdr and data as they were given to encrypt           *)
  args,     (* nonce, hdr, data and tag as given to the running function   *)
  data,     (* @data, encrypted or decrypted in place                      *)
  macs,     (* nonce_mac, hdr_mac and data_mac, so far                     *)
  tag,      (* @tag of encrypt                                             *)
  mode,     (* the running function: "encrypt" or "decrypt"                *)
  epc,      (* its next call, or "returned"                                *)
  ret       (* what it returned                                            *)

eaxVars == <<sent, args, data, macs, tag, mode, epc, ret>>

Zeros == {}
Xor(a, b) == (a \ b) \cup (b \ a)

(* omac1_aes_128 of 15 zeros, the byte domain, and a string.               *)
Omac(domain, string) == {<<"mac", domain, string>>}

(* aes_128_ctr_encrypt, which is its own inverse.                          *)
Ctr(mac, text) == Xor(text, {<<"pad", mac>>})

NoMacs == [nonce |-> Zeros, hdr |-> Zeros, data |-> Zeros]

EaxInit ==
  /\ sent \in [nonce : Strings, hdr : Strings, data : Texts]
  /\ args = [nonce |-> sent.nonce, hdr |-> sent.hdr, data |-> sent.data, tag |-> Zeros]
  /\ data = sent.data
  /\ macs = NoMacs /\ tag = Zeros
  /\ mode = "encrypt" /\ epc = "malloc" /\ ret = 0

Return(value) == epc' = "returned" /\ ret' = value
Proceed(next) == epc' = next /\ ret' = ret

(* The scratch buffer, long enough for each of the three strings.          *)
Malloc ==
  /\ epc = "malloc"
  /\ macs' = NoMacs
  /\ Proceed("nonce mac")
  /\ UNCHANGED <<sent, args, data, tag, mode>>

NonceMac ==
  /\ epc = "nonce mac"
  /\ macs' = [macs EXCEPT !.nonce = Omac(0, args.nonce)]
  /\ Proceed("hdr mac")
  /\ UNCHANGED <<sent, args, data, tag, mode>>

(* Mutant of HdrMac: buf[15] is still 0.                                   *)
HdrMacSameDomain ==
  /\ epc = "hdr mac"
  /\ macs' = [macs EXCEPT !.hdr = Omac(0, args.hdr)]
  /\ Proceed(IF mode = "encrypt" THEN "encrypt" ELSE "data mac")
  /\ UNCHANGED <<sent, args, data, tag, mode>>

HdrMac ==
  /\ epc = "hdr mac"
  /\ macs' = [macs EXCEPT !.hdr = Omac(1, args.hdr)]
  /\ Proceed(IF mode = "encrypt" THEN "encrypt" ELSE "data mac")
  /\ UNCHANGED <<sent, args, data, tag, mode>>

Encrypt ==
  /\ epc = "encrypt"
  /\ data' = Ctr(macs.nonce, data)
  /\ Proceed("data mac")
  /\ UNCHANGED <<sent, args, macs, tag, mode>>

(* Of the encrypted data, in both functions.                               *)
DataMac ==
  /\ epc = "data mac"
  /\ macs' = [macs EXCEPT !.data = Omac(2, data)]
  /\ Proceed(IF mode = "encrypt" THEN "tag" ELSE "compare")
  /\ UNCHANGED <<sent, args, data, tag, mode>>

Tag == Xor(Xor(macs.nonce, macs.data), macs.hdr)

MakeTag ==
  /\ epc = "tag"
  /\ tag' = Tag
  /\ Return(0)
  /\ UNCHANGED <<sent, args, data, macs, mode>>

(* Mutant of Compare: the data is decrypted before the answer is no.       *)
CompareLate ==
  /\ epc = "compare"
  /\ IF args.tag = Tag THEN Proceed("decrypt") /\ UNCHANGED data
     ELSE Return(-2) /\ data' = Ctr(macs.nonce, data)
  /\ UNCHANGED <<sent, args, macs, tag, mode>>

Compare ==
  /\ epc = "compare"
  /\ IF args.tag = Tag THEN Proceed("decrypt") ELSE Return(-2)
  /\ UNCHANGED <<sent, args, data, macs, tag, mode>>

Decrypt ==
  /\ epc = "decrypt"
  /\ data' = Ctr(macs.nonce, data)
  /\ Return(0)
  /\ UNCHANGED <<sent, args, macs, tag, mode>>

(* A call fails before it has done anything.                               *)
CallFails ==
  /\ epc \in {"malloc", "nonce mac", "hdr mac", "encrypt", "data mac", "decrypt"}
  /\ Return(-1)
  /\ UNCHANGED <<sent, args, data, macs, tag, mode>>

(* The other caller gets what was sent, or something else.                 *)
Arrive ==
  /\ mode = "encrypt" /\ epc = "returned" /\ ret = 0
  /\ args' \in [nonce : Strings, hdr : Strings, data : {data} \cup Texts, tag : {tag, Zeros}]
  /\ data' = args'.data
  /\ mode' = "decrypt" /\ epc' = "malloc" /\ ret' = 0
  /\ UNCHANGED <<sent, macs, tag>>

EaxNext ==
  \/ Malloc \/ NonceMac \/ HdrMac \/ Encrypt \/ DataMac \/ MakeTag
  \/ Compare \/ Decrypt \/ CallFails \/ Arrive

EaxSpec == EaxInit /\ [][EaxNext]_eaxVars

-----------------------------------------------------------------------------
Returned(function, value) == mode = function /\ epc = "returned" /\ ret = value

(* What decrypt returns 0 for was encrypted under this nonce and this      *)
(* header, and is the data that was encrypted; and it says -2 only when    *)
(* something has not arrived as it was sent.                               *)
DecryptsWhatWasSent ==
  /\ Returned("decrypt", 0) =>
       args.nonce = sent.nonce /\ args.hdr = sent.hdr /\ data = sent.data
  /\ Returned("decrypt", -2) =>
       \/ args.nonce # sent.nonce \/ args.hdr # sent.hdr
       \/ args.tag # tag \/ args.data # Ctr(Omac(0, sent.nonce), sent.data)

(* A call of decrypt that fails, at whatever step, leaves the data as it   *)
(* arrived; one of encrypt has no tag, but may have encrypted the data.    *)
FailureLeavesData ==
  /\ mode = "decrypt" /\ epc = "returned" /\ ret # 0 => data = args.data
  /\ Returned("encrypt", -1) =>
       /\ tag = Zeros
       /\ data \in {sent.data, Ctr(Omac(0, sent.nonce), sent.data)}
=============================================================================
