------------------------------- MODULE Readers -------------------------------
(***************************************************************************)
(* The programs that work on one input and nothing else, for TLC: gifread, *)
(* mctlife, cdiff, the functions of aes-eax and crc16, with the inputs     *)
(* they are run on and what is expected of them.  A behaviour is that of   *)
(* one of them; the variables of the others do not change.                 *)
(***************************************************************************)
EXTENDS Gifread, Life, Eax, Crc, Cdiff, SequencesExt

-----------------------------------------------------------------------------
(* The format of GIF files, as parts that are sequences of bytes.  Data    *)
(* holds bytes that would mean something else between two blocks.          *)

Zero(n) == [i \in 1..n |-> 0]

Signature == <<71, 73, 70, 56, 57, 97>>
ScreenPart(flags) == Signature \o Zero(4) \o <<flags, 0, 0>>
Table(n) == [i \in 1..n |-> 59]
Heads == {ScreenPart(0), ScreenPart(128) \o Table(6)}
LargeHead == ScreenPart(135) \o Table(768)

SubBlocks == {<<0>>, <<2, 59, 0, 1, 33, 0>>}
Images == {<<44>> \o Zero(8) \o t \o <<2>> \o s : t \in {<<7>>, <<128>> \o Table(6)}, s \in SubBlocks}
Graphics == {<<33, 249, 4, 0, 0, 0, 0, 0>>}
Comments == {<<33, c>> \o s : c \in {254, 206}, s \in SubBlocks}
Applications == {<<33, 255, 11>> \o Zero(8) \o <<50, 46, 48>> \o s : s \in SubBlocks}
PlainTexts == {<<33, 1, 12>> \o Zero(12) \o s : s \in SubBlocks}
Blocks == Images \cup Graphics \cup Comments \cup Applications \cup PlainTexts

Gifs ==
       {<<h, b, <<59>>>> : h \in Heads, b \in Blocks}
  \cup {<<h, b, c, <<59>>>> : h \in Heads, b \in Blocks, c \in Blocks}
  \cup {<<LargeHead, b, <<59>>>> : b \in Images}

(* What gifread is given: a whole file, one with some bytes cut off at its *)
(* end, or one with a byte too many.                                       *)
GifInput ==
  \E gif \in Gifs :
    LET whole == FlattenSeq(gif)
        Before(k) == Len(FlattenSeq(SubSeq(gif, 1, k - 1)))
    IN  /\ starts = [k \in 1..Len(gif)+1 |-> Before(k)]
        /\ IsGif(whole, starts)
        /\ \E cut \in -1..(IF Len(gif) = 3 THEN 20 ELSE 0) :
             file = IF cut = -1 THEN whole \o <<59>> ELSE SubSeq(whole, 1, Len(whole) - cut)

-----------------------------------------------------------------------------
(* Pattern files: what comes before the first row, and the rows.           *)

Note == Text("##", <<>>)
Empty == Row(<<>>)
Unended(line) == [line EXCEPT !.newline = FALSE]

Preambles == {<<Format>>, <<Note, Empty, Format>>, <<>>, <<Text("# other", <<>>)>>}

Full(n) == Row([i \in 1..n |-> TRUE])
Bodies ==
       {<<Row(a), Row(b)>> : a \in [1..4 -> BOOLEAN], b \in [1..4 -> BOOLEAN]}
  \cup {<<Note>> \o Glider, <<Empty>> \o Glider,
        <<Full(1), Full(1), Full(1), Full(1), Full(1)>>,         (* too high *)
        <<Full(Width + 1), Full(2)>>, <<Full(2), Full(Width)>>,  (* too wide *)
        <<Full(Linez - 2)>>, <<Full(Linez - 1)>>,                (* too long *)
        <<Full(3), Unended(Full(3))>>}

Patterns ==
       {<<Format>> \o b : b \in Bodies \cup {Glider}}
  \cup {p \o Glider : p \in Preambles}

-----------------------------------------------------------------------------
(* Configurations: commands, each with the commands below it.              *)

Config(n) == [1..n -> [command : {"a", "b"}, below : {<<>>, <<"x">>, <<"y">>, <<"x", "y">>}]]
Configs == Config(0) \cup Config(1) \cup Config(2)

CdText(kind, text) == [kind |-> kind, text |-> text, carets |-> 0]
Caret(kind, text) == [kind |-> kind, text |-> text, carets |-> 1]

(* What may come between two commands and says nothing.                    *)
Silences ==
  {<<>>,
   <<CdText("!", ""), CdText("", ""), CdText(" !", ""), CdText("ntp clock-period", "1")>>,
   <<Caret("banner", "motd"), CdText("a", "a"), CdText("end", ""), CdText("sub", "x"), Caret("a", "b")>>,
   <<[CdText("banner", "motd") EXCEPT !.carets = 2]>>, <<CdText("banner", "menu")>>}

Written(config, silence) ==
  LET Part(b) == silence \o <<CdText("main", b.command)>> \o silence
                    \o FlattenSeq([i \in DOMAIN b.below |-> <<CdText("sub", b.below[i])>>])
  IN  <<CdText("end", ""), CdText("!", "")>> \o FlattenSeq([k \in DOMAIN config |-> Part(config[k])])
        \o <<CdText("end", ""), CdText("main", "a")>>

EndMissing(text) == SubSeq(text, 1, Len(text) - 2)

CommandsOf(config) ==
  UNION {{<<"MAIN", config[k].command>>}
           \cup {<<config[k].command, config[k].below[i]>> : i \in DOMAIN config[k].below} :
         k \in DOMAIN config}

CdInput ==
  \E routers \in Configs \X Configs :
    LET second == Written(routers[2], <<>>)
    IN  /\ \/ configs = <<Written(routers[1], <<>>), second>>
           \/ /\ Len(routers[2]) = 1
              /\ \E s \in Silences : configs = <<Written(routers[1], s), second>>
           \/ routers[2] = <<>> /\ configs = <<EndMissing(Written(routers[1], <<>>)), second>>
        /\ \A k \in 1..2 : Orderly(configs[k]) /\ CommandsIn(configs[k]) = CommandsOf(routers[k])

-----------------------------------------------------------------------------
SomeTexts == {{}, {<<"text", "x">>}, {<<"text", "y">>}}

GifOff == file = <<>> /\ pos = 0 /\ buf = <<>> /\ gpc = "off" /\ starts = <<>>
LifeOff ==
  /\ world = [c \in Cells |-> FALSE] /\ lines = <<>> /\ readformat = FALSE
  /\ row = 0 /\ offsetw = 0 /\ gennum = 0 /\ lpc = "off" /\ pattern = <<>>
EaxOff ==
  /\ sent = [nonce |-> "none", hdr |-> "none", data |-> {}]
  /\ args = [nonce |-> "none", hdr |-> "none", data |-> {}, tag |-> Zeros]
  /\ data = {} /\ macs = NoMacs /\ tag = Zeros /\ mode = "off" /\ epc = "off" /\ ret = 0
CrcOff == buffer = <<>> /\ damaged = <<>> /\ count = -1 /\ crc = {} /\ damagedcrc = {}

CdOff ==
  /\ configs = <<<<>>, <<>>>> /\ reading = 1 /\ unread = <<>>
  /\ router = <<{}, {}>> /\ FreshReader /\ removed = {} /\ added = {} /\ cdpc = "off"

Init ==
  \/ GifInput /\ GifInit /\ LifeOff /\ EaxOff /\ CrcOff /\ CdOff
  \/ (\E p \in Patterns : LifeInit(p)) /\ GifOff /\ EaxOff /\ CrcOff /\ CdOff
  \/ EaxInit /\ GifOff /\ LifeOff /\ CrcOff /\ CdOff
  \/ CrcInit /\ GifOff /\ LifeOff /\ EaxOff /\ CdOff
  \/ CdInput /\ CdInit /\ GifOff /\ LifeOff /\ EaxOff /\ CrcOff

Next ==
  \/ GifNext  /\ UNCHANGED <<lifeVars, eaxVars, crcVars, cdVars>>
  \/ LifeNext /\ UNCHANGED <<gifVars, eaxVars, crcVars, cdVars>>
  \/ EaxNext  /\ UNCHANGED <<gifVars, lifeVars, crcVars, cdVars>>
  \/ SumByte  /\ UNCHANGED <<gifVars, lifeVars, eaxVars, cdVars>>
  \/ CdNext   /\ UNCHANGED <<gifVars, lifeVars, eaxVars, crcVars>>

Spec == Init /\ [][Next]_<<gifVars, lifeVars, eaxVars, crcVars, cdVars>>
             /\ WF_gifVars(GifNext /\ UNCHANGED <<lifeVars, eaxVars, crcVars, cdVars>>)

(* On every one of the files, whatever lengths it claims, gifread comes to *)
(* an end, the loop that asks for no bytes included.                       *)
GifreadEnds == [](gpc # "off" => <>(gpc \in GifEnds))
=============================================================================
