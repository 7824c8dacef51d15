-------------------------- MODULE NavigatorProofs --------------------------
(***************************************************************************)
(* The OPC client and the navigator, for any number of LEDs, any colours,  *)
(* any room in the network and any window.                                 *)
(***************************************************************************)
EXTENDS Navigator, Induction, SequenceTheorems, TLAPS

MsgLen == NumLeds + 1
Units == Colors \cup {"header"}
Connections == [units : Seq(Units), closed : BOOLEAN]
Messages == {m \in Seq(Units) : Len(m) = MsgLen /\ m[1] = "header"
                                  /\ \A k \in 2..MsgLen : m[k] \in Colors}

OpcTypeOK ==
  /\ long \in BOOLEAN /\ sock \in BOOLEAN /\ ret \in BOOLEAN /\ torn \in BOOLEAN
  /\ call \in {"can_connect", "put_pixels"}
  /\ opcpc \in {"idle", "connect", "send", "disconnect", "returned"}
  /\ handed \in 0..MsgLen
  /\ conns \in Seq(Connections) /\ got \in Seq(Units)
  /\ up \in BOOLEAN /\ outofstep \in BOOLEAN
  /\ strip \in [1..NumLeds -> Colors]

(* What a method's place in its code implies: put_pixels has its message   *)
(* until it is sent, and in short mode there is a socket only inside of a  *)
(* method, which has sent nothing yet before its send.                     *)
CallInv ==
  /\ opcpc = "connect" /\ call = "put_pixels" => message \in Messages
  /\ opcpc = "send" => sock /\ message \in Messages
  /\ ~ long => /\ ~ torn
               /\ sock => opcpc \in {"send", "disconnect"}
               /\ opcpc = "send" => handed = 0

(* What the server has of a message begins with the only header in it.     *)
GotInv ==
  Len(got) <= NumLeds /\ \A k \in 1..Len(got) : got[k] = "header" <=> k = 1

(* The units of connection k that belong to a message the server has not   *)
(* completed.                                                              *)
Stream(k) == IF k = 1 THEN got \o conns[1].units ELSE conns[k].units

(* A header begins every message, and nothing else is one.                 *)
Framed(s) ==
  /\ Len(s) > 0 => s[1] = "header"
  /\ \A p \in 1..Len(s) : s[p] = "header" =>
       /\ \A q \in p+1..p+NumLeds : q <= Len(s) => s[q] # "header"
       /\ p + MsgLen <= Len(s) => s[p + MsgLen] = "header"

(* The last message of s is as long as what was handed to the kernel.      *)
EndsWith(s, n) == Len(s) > 0 => n \in 1..Len(s) /\ s[Len(s) - n + 1] = "header"

(* As long as no message was cut by another, every stream consists of      *)
(* messages, and the end of the last one is what was handed to the kernel, *)
(* whether or not the client still has the connection.                     *)
StreamInv ==
  ~ torn =>
    /\ ~ outofstep
    /\ conns = <<>> => got = <<>>
    /\ \A k \in 1..Len(conns) : Framed(Stream(k))
    /\ conns # <<>> =>
         /\ EndsWith(Stream(Len(conns)), handed)
         /\ Len(conns) > 1 => Len(Stream(Len(conns))) >= handed

OpcInv == OpcTypeOK /\ CallInv /\ GotInv /\ StreamInv

-----------------------------------------------------------------------------
(* What the navigator's place implies of the client.                       *)
Frame == [i \in 1..NumLeds |-> leds[i - 1]]

NavTypeOK ==
  /\ dryrun \in BOOLEAN /\ sizes \subseteq Windows
  /\ leds \in [Leds -> Colors] /\ box_index \in Leds /\ box_color \in Colors
  /\ lines \in Nat /\ cols \in Nat
  /\ boxes_per_row = cols \div Pitch
  /\ navpc \in {"start", "update", "draw", "getkey", "quit", "exit", "crash", "interrupted"}

NavCallInv ==
  /\ dryrun => opcpc = "idle" /\ ~ sock
  /\ navpc = "start" => call = "can_connect" /\ opcpc # "send" /\ handed = 0
  /\ navpc \in {"start", "quit", "exit"} => leds = AllLeds("off")
  /\ navpc \notin {"start", "update", "quit"} => opcpc = "idle"
  /\ navpc \in {"update", "quit"} /\ opcpc # "idle" => call = "put_pixels"
  /\ navpc \in {"update", "quit"} /\ opcpc \in {"connect", "send"} =>
       message = <<"header">> \o Frame

(* The last frame was sent: the end of the client's stream shows the LEDs, *)
(* or the strip does.                                                      *)
Shown ==
  LET s == Stream(Len(conns))
  IN  IF Len(s) > 0 THEN \A i \in 1..NumLeds : s[Len(s) - NumLeds + i] = leds[i - 1]
                    ELSE \A i \in 1..NumLeds : strip[i] = leds[i - 1]

Showing ==
  /\ ~ dryrun /\ conns # <<>> /\ ~ torn /\ handed = MsgLen
  /\ \/ navpc \in {"draw", "getkey", "exit"}
     \/ navpc \in {"update", "quit"} /\ opcpc = "returned" /\ ret
     \/ navpc \in {"update", "quit"} /\ opcpc = "disconnect"

ShowInv == Showing => Shown

NavInv ==
  OpcInv /\ NavTypeOK /\ NavCallInv /\ ShowInv /\ LedsFollowCursor /\ CrashesExplained

-----------------------------------------------------------------------------
(* Sequences of messages.                                                  *)

(* A message, or the first part of one, behind whole messages.             *)
LEMMA FramedAppend ==
  ASSUME NEW s \in Seq(Units), NEW t \in Seq(Units), NEW h \in 0..MsgLen,
         Framed(s), EndsWith(s, h), h \notin 1..MsgLen - 1,
         Len(t) \in 1..MsgLen, t[1] = "header",
         \A k \in 2..Len(t) : t[k] # "header"
  PROVE  /\ s \o t \in Seq(Units) /\ Len(s \o t) = Len(s) + Len(t)
         /\ Framed(s \o t) /\ EndsWith(s \o t, Len(t))
         /\ \A k \in 1..Len(t) : (s \o t)[Len(s) + k] = t[k]
<1> DEFINE u == s \o t
           L == Len(s)
           n == Len(t)
<1>0. /\ s \o t \in Seq(Units) /\ Len(s \o t) = Len(s) + Len(t)
      /\ \A k \in 1..Len(s) + Len(t) :
           (s \o t)[k] = IF k <= Len(s) THEN s[k] ELSE t[k - Len(s)]
  BY ConcatProperties
<1> HIDE DEF u, L, n
<1>1. /\ L \in Nat /\ n \in 1..MsgLen /\ L = Len(s) /\ n = Len(t) /\ Len(u) = L + n
      /\ \A k \in 1..L + n : u[k] = IF k <= L THEN s[k] ELSE t[k - L]
  BY <1>0 DEF u, L, n
<1>2. NumLeds \in Nat \ {0} /\ MsgLen = NumLeds + 1
  BY OpcParameters DEF MsgLen
<1>3. /\ \A k \in 1..L : u[k] = s[k]
      /\ \A k \in 1..n : u[L + k] = t[k]
  BY <1>1, <1>2, SMTT(30)
<1>4. L > 0 => h = MsgLen /\ L >= MsgLen /\ s[L - MsgLen + 1] = "header"
  BY <1>1, <1>2 DEF EndsWith
<1>5. ASSUME NEW p \in 1..L, s[p] = "header"
      PROVE  p <= L - MsgLen + 1
  <2>1. SUFFICES ASSUME p > L - MsgLen + 1 PROVE FALSE
    BY <1>1, <1>2
  <2>2. L - MsgLen + 1 \in 1..L
    BY <1>1, <1>2, <1>4
  <2>3. p \in (L - MsgLen + 1) + 1..(L - MsgLen + 1) + NumLeds
    BY <1>1, <1>2, <2>1
  <2> QED  BY <1>1, <1>4, <1>5, <2>2, <2>3 DEF Framed
<1>6. u[1] = "header"
  <2>1. CASE L = 0
    BY <1>1, <1>3, <2>1
  <2>2. CASE L > 0
    BY <1>1, <1>3, <2>2 DEF Framed
  <2> QED  BY <1>1, <2>1, <2>2
<1>7. ASSUME NEW p \in 1..L, s[p] = "header"
      PROVE  /\ \A q \in p+1..p+NumLeds : u[q] # "header"
             /\ p + MsgLen <= L + n => u[p + MsgLen] = "header"
  <2>1. p + NumLeds <= L /\ p + MsgLen <= L + 1
    BY <1>1, <1>2, <1>5, <1>7
  <2>2. \A q \in p+1..p+NumLeds : s[q] # "header" /\ q \in 1..L
    BY <1>1, <1>2, <1>7, <2>1 DEF Framed
  <2>3. CASE p + MsgLen <= L
    <3>1. s[p + MsgLen] = "header"
      BY <1>1, <1>7, <2>3 DEF Framed
    <3>2. p + MsgLen \in 1..L
      BY <1>1, <1>2, <2>3
    <3> QED  BY <1>3, <2>2, <3>1, <3>2
  <2>4. CASE p + MsgLen = L + 1
    <3>1. u[p + MsgLen] = t[1]
      BY <1>1, <1>3, <2>4
    <3> QED  BY <1>3, <2>2, <3>1
  <2> QED  BY <1>1, <1>2, <2>1, <2>3, <2>4, SMTT(30)
<1>8. /\ \A q \in L+2..L+1+NumLeds : q <= L + n => u[q] # "header"
      /\ ~ (L + 1 + MsgLen <= L + n)
  <2>1. \A q \in L+2..L+n : u[q] = t[q - L] /\ q - L \in 2..n
    BY <1>1
  <2> QED  BY <1>1, <1>2, <2>1
<1>9. ASSUME NEW p \in 1..L + n, u[p] = "header"
      PROVE  (p \in 1..L /\ s[p] = "header") \/ p = L + 1
  <2>1. CASE p <= L
    BY <1>1, <1>3, <1>9, <2>1
  <2>2. CASE p > L + 1
    <3>1. p - L \in 2..n /\ u[p] = t[p - L]
      BY <1>1, <2>2
    <3> QED  BY <1>1, <1>9, <3>1
  <2>3. p <= L \/ p = L + 1 \/ p > L + 1
    BY <1>1
  <2> QED  BY <2>1, <2>2, <2>3
<1>10. ASSUME NEW p \in 1..L + n, u[p] = "header"
       PROVE  /\ \A q \in p+1..p+NumLeds : q <= L + n => u[q] # "header"
              /\ p + MsgLen <= L + n => u[p + MsgLen] = "header"
  <2>1. CASE p \in 1..L /\ s[p] = "header"
    BY <1>7, <2>1
  <2>2. CASE p = L + 1
    BY <1>1, <1>2, <1>8, <2>2
  <2> QED  BY <1>9, <1>10, <2>1, <2>2
<1>11. Framed(u)
  BY <1>1, <1>6, <1>10 DEF Framed
<1>12. EndsWith(u, n)
  <2>1. Len(u) - n + 1 = L + 1 /\ n \in 1..Len(u)
    BY <1>1, <1>2
  <2>2. u[L + 1] = t[1]
    BY <1>1, <1>3
  <2> QED  BY <2>1, <2>2 DEF EndsWith
<1> QED
  BY <1>0, <1>3, <1>11, <1>12 DEF u, L, n

(* What is left when the first message is taken away.                      *)
LEMMA FramedDrop ==
  ASSUME NEW s \in Seq(Units), NEW t \in Seq(Units), Len(s) = MsgLen,
         Framed(s \o t)
  PROVE  /\ Framed(t)
         /\ \A h \in 0..MsgLen : EndsWith(s \o t, h) => EndsWith(t, h)
<1> DEFINE u == s \o t
           n == Len(t)
<1>0. /\ s \o t \in Seq(Units) /\ Len(s \o t) = Len(s) + Len(t)
      /\ \A k \in 1..Len(s) + Len(t) :
           (s \o t)[k] = IF k <= Len(s) THEN s[k] ELSE t[k - Len(s)]
  BY ConcatProperties
<1> HIDE DEF u, n
<1>1. /\ Len(u) = MsgLen + n /\ n \in Nat /\ n = Len(t)
      /\ \A k \in 1..MsgLen + n : u[k] = IF k <= MsgLen THEN s[k] ELSE t[k - MsgLen]
  BY <1>0 DEF u, n
<1>2. NumLeds \in Nat \ {0} /\ MsgLen = NumLeds + 1
  BY OpcParameters DEF MsgLen
<1>3. \A k \in 1..n : u[MsgLen + k] = t[k]
  BY <1>1, <1>2
<1>9. Framed(u)
  BY DEF u
<1>4. /\ u[1] = "header" /\ \A q \in 2..MsgLen : u[q] # "header"
      /\ n > 0 => u[MsgLen + 1] = "header"
  <2>1. u[1] = "header" /\ 1 \in 1..Len(u)
    BY <1>1, <1>2, <1>9 DEF Framed
  <2> QED  BY <1>1, <1>2, <1>9, <2>1 DEF Framed
<1>5. n > 0 => t[1] = "header"
  <2>1. n > 0 => u[MsgLen + 1] = t[1]
    BY <1>1, <1>3
  <2> QED  BY <1>4, <2>1
<1>6. ASSUME NEW p \in 1..n, t[p] = "header"
      PROVE  /\ \A q \in p+1..p+NumLeds : q <= n => t[q] # "header"
             /\ p + MsgLen <= n => t[p + MsgLen] = "header"
  <2>1. u[MsgLen + p] = "header" /\ MsgLen + p \in 1..Len(u)
    BY <1>1, <1>2, <1>3, <1>6
  <2>2. /\ \A q \in MsgLen+p+1..MsgLen+p+NumLeds : q <= Len(u) => u[q] # "header"
        /\ MsgLen + p + MsgLen <= Len(u) => u[MsgLen + p + MsgLen] = "header"
    BY <1>9, <2>1 DEF Framed
  <2>3. ASSUME NEW q \in p+1..p+NumLeds, q <= n PROVE t[q] # "header"
    <3>1. MsgLen + q \in MsgLen+p+1..MsgLen+p+NumLeds /\ MsgLen + q <= Len(u) /\ q \in 1..n
      BY <1>1, <1>2, <2>3
    <3> QED  BY <1>3, <2>2, <3>1
  <2>4. ASSUME p + MsgLen <= n PROVE t[p + MsgLen] = "header"
    <3>1. p + MsgLen \in 1..n /\ MsgLen + p + MsgLen <= Len(u) /\ MsgLen + p + MsgLen = MsgLen + (p + MsgLen)
      BY <1>1, <1>2, <2>4
    <3> QED  BY <1>3, <2>2, <3>1
  <2> QED  BY <2>3, <2>4
<1>7. Framed(t)
  BY <1>1, <1>5, <1>6 DEF Framed
<1>8. ASSUME NEW h \in 0..MsgLen, EndsWith(u, h), n > 0 PROVE h \in 1..n /\ t[n - h + 1] = "header"
  <2>1. h \in 1..MsgLen + n /\ u[MsgLen + n - h + 1] = "header"
    BY <1>1, <1>2, <1>8 DEF EndsWith
  <2>2. h <= n
    BY <1>1, <1>2, <1>4, <1>8, <2>1
  <2>3. n - h + 1 \in 1..n /\ MsgLen + n - h + 1 = MsgLen + (n - h + 1)
    BY <1>1, <1>2, <2>1, <2>2
  <2> QED  BY <1>3, <2>1, <2>2, <2>3
<1> QED
  BY <1>1, <1>7, <1>8 DEF EndsWith, u

(* The server moves a unit from the connection to what it has of a message.*)
LEMMA MoveUnit ==
  ASSUME NEW s \in Seq(Units), NEW t \in Seq(Units), t # <<>>
  PROVE  /\ Append(s, Head(t)) \in Seq(Units) /\ Len(Append(s, Head(t))) = Len(s) + 1
         /\ Tail(t) \in Seq(Units)
         /\ Append(s, Head(t)) \o Tail(t) = s \o t
<1>1. /\ Head(t) \in Units /\ Tail(t) \in Seq(Units) /\ Len(Tail(t)) = Len(t) - 1
      /\ \A i \in 1..Len(Tail(t)) : Tail(t)[i] = t[i + 1]
      /\ Head(t) = t[1] /\ Len(t) \in Nat \ {0} /\ Len(s) \in Nat
  BY HeadTailProperties
<1>2. /\ Append(s, Head(t)) \in Seq(Units) /\ Len(Append(s, Head(t))) = Len(s) + 1
      /\ \A i \in 1..Len(s) : Append(s, Head(t))[i] = s[i]
      /\ Append(s, Head(t))[Len(s) + 1] = Head(t)
  BY <1>1, AppendProperties
<1> DEFINE a == Append(s, Head(t))
           b == Tail(t)
           c == a \o b
           d == s \o t
<1> HIDE DEF a, b
<1>3. /\ c \in Seq(Units) /\ Len(c) = Len(a) + Len(b)
      /\ \A i \in 1..Len(a) + Len(b) :
           c[i] = IF i <= Len(a) THEN a[i] ELSE b[i - Len(a)]
  BY <1>1, <1>2, ConcatProperties DEF a, b
<1>4. /\ d \in Seq(Units) /\ Len(d) = Len(s) + Len(t)
      /\ \A i \in 1..Len(s) + Len(t) :
           d[i] = IF i <= Len(s) THEN s[i] ELSE t[i - Len(s)]
  BY ConcatProperties
<1> HIDE DEF c, d
<1>5. /\ Len(a) = Len(s) + 1 /\ Len(b) = Len(t) - 1 /\ a[Len(s) + 1] = t[1]
      /\ \A i \in 1..Len(s) : a[i] = s[i]
      /\ \A i \in 1..Len(t) - 1 : b[i] = t[i + 1]
  BY <1>1, <1>2 DEF a, b
<1>6. ASSUME NEW i \in 1..Len(s) + Len(t) PROVE c[i] = d[i]
  <2>0. i \in 1..Len(a) + Len(b)
    BY <1>1, <1>5
  <2>1. CASE i <= Len(s)
    BY <1>1, <1>3, <1>4, <1>5, <2>0, <2>1, SMTT(30)
  <2>2. CASE i = Len(s) + 1
    BY <1>1, <1>3, <1>4, <1>5, <2>0, <2>2, SMTT(30)
  <2>3. CASE i > Len(s) + 1
    <3>1. i - Len(a) \in 1..Len(t) - 1 /\ i - Len(a) + 1 = i - Len(s)
      BY <1>1, <1>5, <2>3
    <3> QED  BY <1>1, <1>3, <1>4, <1>5, <2>0, <2>3, <3>1, SMTT(30)
  <2> QED  BY <1>1, <2>1, <2>2, <2>3
<1>7. c = d
  <2>1. Len(c) = Len(d) /\ Len(c) = Len(s) + Len(t)
    BY <1>1, <1>3, <1>4, <1>5
  <2> QED  BY <1>3, <1>4, <1>6, <2>1, SeqEqual
<1> QED
  BY <1>1, <1>2, <1>7 DEF a, b, c, d

-----------------------------------------------------------------------------
(* The client's and the server's steps.                                    *)

USE DEF client, opcServer

LEMMA OpcInitInv == OpcInit => OpcInv
<1> SUFFICES ASSUME OpcInit PROVE OpcInv
  OBVIOUS
<1>1. NumLeds \in Nat \ {0} /\ "off" \in Colors /\ MsgLen = NumLeds + 1
  BY OpcParameters DEF MsgLen
<1>2. conns = <<>> /\ got = <<>> /\ Len(conns) = 0 /\ Len(got) = 0
  BY DEF OpcInit
<1>3. OpcTypeOK
  <2>1. conns \in Seq(Connections) /\ got \in Seq(Units)
    BY <1>2, EmptySeq
  <2>2. strip \in [1..NumLeds -> Colors] /\ handed \in 0..MsgLen
    BY <1>1 DEF OpcInit, Dark
  <2> QED  BY <2>1, <2>2 DEF OpcInit, OpcTypeOK
<1>4. CallInv /\ GotInv
  BY <1>1, <1>2 DEF OpcInit, CallInv, GotInv
<1>5. StreamInv
  BY <1>1, <1>2 DEF OpcInit, StreamInv
<1> QED  BY <1>3, <1>4, <1>5 DEF OpcInv

(* The streams depend on got and on what is in the connections.            *)
LEMMA SameStreams ==
  ASSUME StreamInv, torn' = torn, outofstep' = outofstep, got' = got,
         handed' = handed, Len(conns') = Len(conns), Len(conns) \in Nat,
         conns = <<>> <=> Len(conns) = 0, conns' = <<>> <=> Len(conns') = 0,
         \A k \in 1..Len(conns) : conns'[k].units = conns[k].units
  PROVE  StreamInv'
<1>1. \A k \in 1..Len(conns) : Stream(k)' = Stream(k)
  BY DEF Stream
<1> QED
  BY <1>1 DEF StreamInv, Framed, EndsWith

LEMMA ConnsProperties ==
  ASSUME OpcTypeOK
  PROVE  /\ Len(conns) \in Nat /\ (conns = <<>> <=> Len(conns) = 0)
         /\ \A k \in 1..Len(conns) :
              conns[k] \in Connections /\ conns[k].units \in Seq(Units)
<1>1. conns \in Seq(Connections)
  BY DEF OpcTypeOK
<1>2. Len(conns) \in Nat /\ (conns = <<>> <=> Len(conns) = 0)
  BY <1>1
<1>3. \A k \in 1..Len(conns) : conns[k] \in Connections
  BY <1>1
<1> QED  BY <1>2, <1>3 DEF Connections

(* A connection that is closed keeps what is in it.                        *)
LEMMA CloseKeeps ==
  ASSUME OpcTypeOK
  PROVE  /\ Close(conns) \in Seq(Connections) /\ Len(Close(conns)) = Len(conns)
         /\ Close(conns) = <<>> <=> Len(Close(conns)) = 0
         /\ \A k \in 1..Len(conns) : Close(conns)[k].units = conns[k].units
<1>1. CASE Lost
  BY <1>1, ConnsProperties DEF Close, Lost, OpcTypeOK
<1>2. CASE ~ Lost
  <2> DEFINE e == [conns[Own] EXCEPT !.closed = TRUE]
             c == [conns EXCEPT ![Own] = e]
  <2>0. Own \in 1..Len(conns) /\ conns[Own] \in Connections
    BY <1>2, ConnsProperties DEF Lost, Own
  <2>1. e \in Connections /\ e.units = conns[Own].units
    BY <2>0 DEF Connections
  <2>2. Close(conns) = c
    BY <1>2 DEF Close, Lost
  <2>3. c \in Seq(Connections) /\ Len(c) = Len(conns)
        /\ \A j \in 1..Len(conns) : c[j] = IF j = Own THEN e ELSE conns[j]
    <3> HIDE DEF e
    <3> QED  BY <2>0, <2>1, ExceptSeq DEF OpcTypeOK
  <2> HIDE DEF c, e
  <2> QED
    BY <2>0, <2>1, <2>2, <2>3, ConnsProperties
<1> QED  BY <1>1, <1>2

LEMMA CanConnectInv == ASSUME OpcInv, CanConnect PROVE OpcInv'
<1>1. OpcTypeOK' /\ CallInv' /\ GotInv'
  BY DEF OpcInv, CanConnect, Begin, OpcTypeOK, CallInv, GotInv
<1>2. StreamInv'
  BY SameStreams, ConnsProperties DEF OpcInv, CanConnect, Begin
<1> QED  BY <1>1, <1>2 DEF OpcInv

(* A frame with its header is a message.                                   *)
LEMMA FrameIsMessage ==
  ASSUME NEW frame \in [1..NumLeds -> Colors]
  PROVE  /\ <<"header">> \o frame \in Messages
         /\ \A k \in 1..NumLeds : (<<"header">> \o frame)[k + 1] = frame[k]
<1>1. NumLeds \in Nat \ {0} /\ MsgLen = NumLeds + 1
  BY OpcParameters DEF MsgLen
<1>2. frame \in Seq(Units) /\ Len(frame) = NumLeds
  BY <1>1 DEF Units
<1>3. <<"header">> \in Seq(Units) /\ Len(<<"header">>) = 1 /\ <<"header">>[1] = "header"
  BY DEF Units
<1> DEFINE h == <<"header">>
<1> HIDE DEF h
<1>4. /\ h \o frame \in Seq(Units) /\ Len(h \o frame) = MsgLen
      /\ \A i \in 1..MsgLen : (h \o frame)[i] = IF i <= 1 THEN h[i] ELSE frame[i - 1]
  BY <1>1, <1>2, <1>3, ConcatProperties DEF h
<1>5. (h \o frame)[1] = "header"
  BY <1>1, <1>3, <1>4 DEF h
<1>6. \A k \in 1..NumLeds : (h \o frame)[k + 1] = frame[k]
  BY <1>1, <1>4
<1>7. \A k \in 2..MsgLen : (h \o frame)[k] \in Colors
  BY <1>1, <1>4
<1> QED
  BY <1>4, <1>5, <1>6, <1>7 DEF Messages, h

LEMMA PutPixelsInv ==
  ASSUME OpcInv, NEW frame \in [1..NumLeds -> Colors], PutPixels(frame) PROVE OpcInv'
<1>1. message' \in Messages
  BY FrameIsMessage DEF PutPixels
<1>2. OpcTypeOK' /\ CallInv' /\ GotInv'
  BY <1>1 DEF OpcInv, PutPixels, Begin, OpcTypeOK, CallInv, GotInv
<1>3. StreamInv'
  BY SameStreams, ConnsProperties DEF OpcInv, PutPixels, Begin
<1> QED  BY <1>2, <1>3 DEF OpcInv

LEMMA ConnectedInv == ASSUME OpcInv, Connected PROVE OpcInv'
<1>1. OpcTypeOK' /\ CallInv' /\ GotInv'
  BY DEF OpcInv, Connected, AfterConnect, OpcTypeOK, CallInv, GotInv
<1>2. StreamInv'
  BY SameStreams, ConnsProperties DEF OpcInv, Connected
<1> QED  BY <1>1, <1>2 DEF OpcInv

LEMMA ConnectFailsInv == ASSUME OpcInv, ConnectFails PROVE OpcInv'
<1>1. OpcTypeOK' /\ CallInv' /\ GotInv'
  BY DEF OpcInv, ConnectFails, AfterConnect, OpcTypeOK, CallInv, GotInv
<1>2. StreamInv'
  BY SameStreams, ConnsProperties DEF OpcInv, ConnectFails
<1> QED  BY <1>1, <1>2 DEF OpcInv

LEMMA SendFailsInv == ASSUME OpcInv, SendFails PROVE OpcInv'
<1>1. OpcTypeOK' /\ CallInv' /\ GotInv'
  BY CloseKeeps DEF OpcInv, SendFails, OpcTypeOK, CallInv, GotInv
<1>2. StreamInv'
  BY SameStreams, CloseKeeps, ConnsProperties DEF OpcInv, SendFails
<1> QED  BY <1>1, <1>2 DEF OpcInv

LEMMA DisconnectInv == ASSUME OpcInv, Disconnect PROVE OpcInv'
<1>1. OpcTypeOK' /\ CallInv' /\ GotInv'
  BY CloseKeeps DEF OpcInv, Disconnect, OpcTypeOK, CallInv, GotInv
<1>2. StreamInv'
  BY SameStreams, CloseKeeps, ConnsProperties DEF OpcInv, Disconnect
<1> QED  BY <1>1, <1>2 DEF OpcInv

LEMMA ServerGoesInv == ASSUME OpcInv, ServerGoes PROVE OpcInv'
<1>0. /\ NumLeds \in Nat /\ Len(<<>>) = 0 /\ OpcTypeOK /\ CallInv
      /\ conns' \in Seq(Connections) /\ got' \in Seq(Units) /\ Len(got') = 0
  BY OpcParameters, EmptySeq DEF OpcInv, ServerGoes
<1>1. OpcTypeOK' /\ CallInv' /\ GotInv'
  <2>1. OpcTypeOK'
    BY <1>0 DEF ServerGoes, OpcTypeOK
  <2>2. CallInv'
    BY <1>0 DEF ServerGoes, CallInv
  <2>3. GotInv'
    BY <1>0 DEF GotInv
  <2> QED  BY <2>1, <2>2, <2>3
<1>2. StreamInv'
  <2>1. conns' = <<>> /\ got' = <<>> /\ outofstep' = FALSE /\ Len(got') = 0 /\ Len(conns') = 0
    BY DEF ServerGoes
  <2> QED  BY <2>1, OpcParameters DEF StreamInv
<1> QED  BY <1>1, <1>2 DEF OpcInv

LEMMA ServerComesInv == ASSUME OpcInv, ServerComes PROVE OpcInv'
<1>1. OpcTypeOK' /\ CallInv' /\ GotInv'
  BY DEF OpcInv, ServerComes, OpcTypeOK, CallInv, GotInv
<1>2. StreamInv'
  BY SameStreams, ConnsProperties DEF OpcInv, ServerComes
<1> QED  BY <1>1, <1>2 DEF OpcInv

LEMMA ConnectInv == ASSUME OpcInv, Connect PROVE OpcInv'
<1>0. NumLeds \in Nat \ {0} /\ MsgLen = NumLeds + 1
  BY OpcParameters DEF MsgLen
<1> DEFINE c == [units |-> <<>>, closed |-> FALSE]
<1>8. PICK L \in Nat : L = Len(conns)
  BY ConnsProperties DEF OpcInv
<1>1. c \in Connections /\ c.units = <<>>
  BY EmptySeq DEF Connections
<1>2. conns' = Append(conns, c)
  BY DEF Connect
<1> HIDE DEF c
<1>3. /\ conns' \in Seq(Connections) /\ conns' # <<>> /\ Len(conns') = L + 1 /\ L \in Nat
      /\ \A k \in 1..L : conns'[k] = conns[k]
      /\ conns'[L + 1] = c
  BY <1>8, <1>1, <1>2, AppendProperties DEF OpcInv, OpcTypeOK
<1>4. /\ sock' = TRUE /\ ~ sock /\ handed' = 0 /\ opcpc = "connect"
      /\ opcpc' = (CASE call = "put_pixels" -> "send"
                     [] call = "can_connect" /\ ~ long -> "disconnect"
                     [] OTHER -> "returned")
      /\ ret' = TRUE /\ message' = message
      /\ UNCHANGED <<long, call, torn, up, got, outofstep, strip, breaks>>
  BY DEF Connect, AfterConnect
<1>5. OpcTypeOK'
  BY <1>0, <1>3, <1>4 DEF OpcInv, OpcTypeOK
<1>6. CallInv' /\ GotInv'
  BY <1>4 DEF OpcInv, OpcTypeOK, CallInv, GotInv
<1>7. StreamInv'
  <2>1. SUFFICES ASSUME ~ torn PROVE StreamInv'
    BY <1>4 DEF StreamInv
  <2>2. /\ ~ outofstep /\ (conns = <<>> => got = <<>>)
        /\ \A k \in 1..L : Framed(Stream(k))
    BY <1>8, <2>1 DEF OpcInv, StreamInv
  <2>3. \A k \in 1..L : Stream(k)' = Stream(k)
    BY <1>3, <1>4 DEF Stream
  <2>4. Stream(L + 1)' = <<>>
    <3>1. CASE L = 0
      <4>1. got = <<>>
        BY <1>8, <2>2, <3>1, ConnsProperties DEF OpcInv
      <4>2. <<>> \o <<>> = <<>>
        OBVIOUS
      <4> QED  BY <1>1, <1>3, <1>4, <3>1, <4>1, <4>2 DEF Stream
    <3>2. CASE L # 0
      BY <1>1, <1>3, <3>2 DEF Stream
    <3> QED  BY <3>1, <3>2
  <2>5. Framed(<<>>) /\ EndsWith(<<>>, 0) /\ Len(<<>>) = 0
    BY DEF Framed, EndsWith
  <2>6. \A k \in 1..Len(conns') : Framed(Stream(k)')
    <3>1. \A k \in 1..Len(conns') : k \in 1..L \/ k = L + 1
      BY <1>3
    <3> QED  BY <2>2, <2>3, <2>4, <2>5, <3>1
  <2>7. Stream(Len(conns))' = <<>>
    BY <1>3, <2>4
  <2>8. EndsWith(Stream(Len(conns)), handed)' /\ Len(Stream(Len(conns)))' >= handed'
    BY <1>4, <2>5, <2>7 DEF EndsWith
  <2>9. \A k \in 1..Len(conns') : Framed(Stream(k))'
    BY <2>6 DEF Framed
  <2> QED
    BY <1>3, <1>4, <2>2, <2>8, <2>9 DEF StreamInv
<1> QED  BY <1>5, <1>6, <1>7 DEF OpcInv

(* The beginning of a message.                                             *)
LEMMA MessageFront ==
  ASSUME NEW m \in Messages, NEW n \in 1..MsgLen
  PROVE  /\ SubSeq(m, 1, n) \in Seq(Units) /\ Len(SubSeq(m, 1, n)) = n
         /\ SubSeq(m, 1, n)[1] = "header"
         /\ \A k \in 1..n : SubSeq(m, 1, n)[k] = m[k]
         /\ \A k \in 2..n : SubSeq(m, 1, n)[k] # "header"
<1>0. NumLeds \in Nat \ {0} /\ MsgLen = NumLeds + 1 /\ "header" \notin Colors
  BY OpcParameters DEF MsgLen
<1>1. \A i \in 1..n : m[i] \in Units
  BY <1>0 DEF Messages, Units
<1>2. /\ SubSeq(m, 1, n) \in Seq(Units)
      /\ Len(SubSeq(m, 1, n)) = IF 1 <= n THEN n - 1 + 1 ELSE 0
      /\ \A i \in 1..n - 1 + 1 : SubSeq(m, 1, n)[i] = m[1 + i - 1]
  BY <1>0, <1>1, SubSeqProperties
<1>3. \A i \in 1..n : SubSeq(m, 1, n)[i] = m[i]
  BY <1>0, <1>2
<1> QED
  BY <1>0, <1>2, <1>3 DEF Messages

LEMMA SendInv ==
  ASSUME OpcInv, Send
  PROVE  /\ OpcInv'
         /\ conns' # <<>> =>
              /\ Stream(Len(conns)) \in Seq(Units)
              /\ Stream(Len(conns))' = Stream(Len(conns)) \o SubSeq(message, 1, handed')
<1>0. /\ NumLeds \in Nat \ {0} /\ MsgLen = NumLeds + 1 /\ Room \in Nat \ {0}
      /\ OpcTypeOK /\ CallInv /\ GotInv /\ StreamInv
  BY OpcParameters DEF MsgLen, OpcInv
<1>1. /\ message \in Messages /\ Len(message) = MsgLen /\ sock
      /\ Space > 0 /\ opcpc = "send"
      /\ handed' = IF MsgLen <= Space THEN MsgLen ELSE Space
      /\ torn' = (torn \/ handed \in 1..MsgLen-1)
      /\ opcpc' \in {"returned", "disconnect"} /\ ret' \in BOOLEAN
      /\ ~ long => opcpc' = "disconnect"
      /\ UNCHANGED <<long, sock, call, up, got, outofstep, strip, breaks>>
  <2>1. message \in Messages /\ Len(message) = MsgLen /\ sock
    BY <1>0 DEF Send, CallInv, Messages
  <2> QED  BY <1>0, <2>1 DEF Send, OpcTypeOK
<1>9. /\ torn' \in BOOLEAN /\ (~ torn' => ~ torn /\ handed \notin 1..MsgLen-1)
      /\ ~ long => ~ torn'
  <2>1. torn' = (torn \/ handed \in 1..MsgLen-1)
    BY <1>1
  <2>2. ~ long => ~ torn /\ handed = 0
    BY <1>0, <1>1 DEF CallInv
  <2>3. ~ (0 \in 1..MsgLen-1)
    OBVIOUS
  <2> QED  BY <2>1, <2>2, <2>3, Zenon
<1>2. PICK L \in Nat : L = Len(conns)
  BY <1>0, ConnsProperties
<1>3. Space \in Int
  BY <1>0, <1>2, ConnsProperties DEF Space, Lost, Own
<1>4. PICK n \in 1..MsgLen : n = handed'
  BY <1>0, <1>1, <1>3
<1>10. handed' \in 0..MsgLen
  BY <1>0, <1>4
<1> DEFINE t == SubSeq(message, 1, n)
<1>5. /\ t \in Seq(Units) /\ Len(t) = n /\ t[1] = "header"
      /\ \A k \in 2..n : t[k] # "header"
  BY <1>1, MessageFront
<1>6. CallInv' /\ GotInv'
  BY <1>0, <1>1, <1>9, <1>4 DEF CallInv, GotInv
<1>7. CASE Lost
  <2>1. conns' = conns /\ conns = <<>>
    BY <1>7 DEF Send, Lost
  <2>2. OpcTypeOK'
    BY <1>0, <1>1, <1>9, <1>10, <2>1 DEF OpcTypeOK
  <2>3. StreamInv'
    BY <1>0, <1>1, <1>9, <2>1, ConnsProperties DEF StreamInv
  <2> QED  BY <1>6, <2>1, <2>2, <2>3 DEF OpcInv
<1>8. CASE ~ Lost
  <2> DEFINE u == conns[L].units
             e == [conns[L] EXCEPT !.units = u \o t]
  <2>1. L \in 1..Len(conns) /\ conns[L] \in Connections /\ u \in Seq(Units)
    BY <1>0, <1>2, <1>8, ConnsProperties DEF Lost
  <2>2. u \o t \in Seq(Units)
    BY <1>5, <2>1, ConcatProperties
  <2>3. e \in Connections /\ e.units = u \o t
    <3> HIDE DEF u, t
    <3> QED  BY <2>1, <2>2 DEF Connections
  <2>4. conns' = [conns EXCEPT ![L] = e]
    BY <1>2, <1>4, <1>8 DEF Send, Own
  <2> HIDE DEF e, t
  <2>5. /\ conns' \in Seq(Connections) /\ Len(conns') = L
        /\ \A j \in 1..L : conns'[j] = IF j = L THEN e ELSE conns[j]
    BY <1>0, <1>2, <2>1, <2>3, <2>4, ExceptSeq DEF OpcTypeOK
  <2>6. OpcTypeOK'
    <3>1. conns' \in Seq(Connections)
      BY <2>5
    <3> QED  BY <1>0, <1>1, <1>9, <1>10, <3>1 DEF OpcTypeOK
  <2>7. \A k \in 1..L : k # L => Stream(k)' = Stream(k)
    BY <1>1, <1>2, <2>1, <2>5 DEF Stream
  <2>8. Stream(L) \in Seq(Units) /\ Stream(L)' = Stream(L) \o t
    <3>1. conns'[L].units = u \o t
      BY <1>2, <2>1, <2>3, <2>5
    <3>2. CASE L = 1
      <4>1. Stream(L) = got \o u /\ Stream(L)' = got \o (u \o t)
        BY <1>1, <3>1, <3>2 DEF Stream
      <4>2. got \in Seq(Units)
        BY <1>0 DEF OpcTypeOK
      <4> HIDE DEF u
      <4>3. got \o u \in Seq(Units) /\ got \o (u \o t) = (got \o u) \o t
        BY <1>5, <2>1, <4>2, ConcatProperties, ConcatAssociative DEF t
      <4> QED  BY <4>1, <4>3
    <3>3. CASE L # 1
      BY <2>1, <3>1, <3>3 DEF Stream
    <3> QED  BY <3>2, <3>3
  <2>9. StreamInv'
    <3>1. SUFFICES ASSUME ~ torn' PROVE StreamInv'
      BY DEF StreamInv
    <3>2. ~ torn /\ handed \notin 1..MsgLen-1 /\ handed \in 0..MsgLen
      BY <1>0, <1>9, <3>1 DEF OpcTypeOK
    <3>3. /\ ~ outofstep /\ conns # <<>>
          /\ \A k \in 1..L : Framed(Stream(k))
          /\ EndsWith(Stream(L), handed)
      BY <1>0, <1>1, <1>2, <1>8, <3>2 DEF StreamInv, Lost
    <3> DEFINE s == Stream(L)
    <3>4. s \in Seq(Units) /\ Framed(s) /\ EndsWith(s, handed)
      BY <1>2, <2>1, <2>8, <3>3
    <3> HIDE DEF s
    <3>5. /\ Len(s \o t) = Len(s) + n /\ Framed(s \o t) /\ EndsWith(s \o t, n)
          /\ Len(s) \in Nat
      <4>1. /\ t \in Seq(Units) /\ Len(t) = n /\ Len(t) \in 1..MsgLen /\ t[1] = "header"
            /\ \A k \in 2..Len(t) : t[k] # "header"
        BY <1>5 DEF t
      <4>2. /\ Len(s \o t) = Len(s) + Len(t) /\ Framed(s \o t)
            /\ EndsWith(s \o t, Len(t))
        BY <3>2, <3>4, <4>1, FramedAppend
      <4> QED  BY <3>4, <4>1, <4>2
    <3>6. Framed(Stream(L)') /\ EndsWith(Stream(L)', n) /\ Len(Stream(L)') >= n
      BY <1>4, <2>8, <3>5 DEF s
    <3>7. \A k \in 1..L : Framed(Stream(k)')
      BY <2>7, <3>3, <3>6
    <3>8. conns' # <<>> /\ ~ outofstep'
      BY <1>1, <1>2, <2>1, <2>5, <3>3
    <3>9. /\ \A k \in 1..Len(conns') : Framed(Stream(k))'
          /\ EndsWith(Stream(Len(conns)), handed)'
          /\ Len(Stream(Len(conns)))' >= handed'
      BY <1>4, <2>5, <3>6, <3>7 DEF Framed, EndsWith
    <3> QED
      BY <3>8, <3>9 DEF StreamInv
  <2>10. /\ Stream(Len(conns)) \in Seq(Units)
         /\ Stream(Len(conns))' = Stream(Len(conns)) \o t
    BY <1>2, <2>5, <2>8
  <2> QED  BY <1>4, <1>6, <2>6, <2>9, <2>10 DEF OpcInv, t
<1> QED  BY <1>7, <1>8

LEMMA ServerEndsInv ==
  ASSUME OpcInv, ServerEnds
  PROVE  /\ OpcInv' /\ conns # <<>>
         /\ conns' # <<>> => Len(conns) > 1 /\ Stream(Len(conns))' = Stream(Len(conns))
<1>0. /\ NumLeds \in Nat \ {0} /\ MsgLen = NumLeds + 1 /\ Len(<<>>) = 0
      /\ OpcTypeOK /\ CallInv /\ GotInv /\ StreamInv
  BY OpcParameters DEF MsgLen, OpcInv
<1>1. /\ conns # <<>> /\ conns[1].units = <<>> /\ conns' = Tail(conns)
      /\ got' = <<>> /\ outofstep' = FALSE
      /\ UNCHANGED <<long, client, up, strip, breaks>>
  BY DEF ServerEnds
<1>2. PICK L \in Nat : L = Len(conns)
  BY <1>0, ConnsProperties
<1>3. /\ L >= 1 /\ conns' \in Seq(Connections) /\ Len(conns') = L - 1
      /\ \A k \in 1..L - 1 : conns'[k] = conns[k + 1]
  BY <1>0, <1>1, <1>2, HeadTailProperties, ConnsProperties DEF OpcTypeOK
<1>4. OpcTypeOK' /\ CallInv' /\ GotInv'
  <2>1. got' \in Seq(Units) /\ Len(got') = 0
    BY <1>0, <1>1, EmptySeq
  <2>2. OpcTypeOK'
    BY <1>0, <1>1, <1>3, <2>1 DEF OpcTypeOK
  <2>3. CallInv'
    BY <1>0, <1>1 DEF CallInv
  <2>4. GotInv'
    BY <1>0, <2>1 DEF GotInv
  <2> QED  BY <2>2, <2>3, <2>4
<1>5. \A k \in 1..L - 1 : Stream(k)' = Stream(k + 1)
  <2>1. ASSUME NEW k \in 1..L - 1 PROVE Stream(k)' = Stream(k + 1)
    <3>1. Stream(k + 1) = conns[k + 1].units /\ conns'[k] = conns[k + 1]
      BY <1>2, <1>3, <2>1 DEF Stream
    <3>2. CASE k = 1
      <4>1. conns[k + 1].units \in Seq(Units)
        BY <1>0, <1>2, <2>1, ConnsProperties
      <4>2. <<>> \o conns[k + 1].units = conns[k + 1].units
        BY <4>1, ConcatEmptySeq
      <4> QED  BY <1>1, <3>1, <3>2, <4>2 DEF Stream
    <3>3. CASE k # 1
      BY <3>1, <3>3 DEF Stream
    <3> QED  BY <3>2, <3>3
  <2> QED  BY <2>1
<1>6. ASSUME ~ torn PROVE StreamInv'
  <2>1. /\ \A k \in 1..L : Framed(Stream(k))
        /\ EndsWith(Stream(L), handed)
        /\ L > 1 => Len(Stream(L)) >= handed
    BY <1>0, <1>1, <1>2, <1>6 DEF StreamInv
  <2>2. \A k \in 1..L - 1 : Framed(Stream(k)')
    <3>1. \A k \in 1..L - 1 : k + 1 \in 1..L
      BY <1>3
    <3> QED  BY <1>5, <2>1, <3>1
  <2>3. L > 1 => Stream(L - 1)' = Stream(L)
    BY <1>3, <1>5
  <2>4. ASSUME conns' # <<>>
        PROVE  /\ EndsWith(Stream(Len(conns)), handed)'
               /\ Len(conns') > 1 => Len(Stream(Len(conns)))' >= handed'
    <3>1. L > 1
      BY <1>3, <2>4
    <3> QED
      BY <1>1, <1>3, <2>1, <2>3, <2>4, <3>1 DEF EndsWith
  <2>5. \A k \in 1..Len(conns') : Framed(Stream(k))'
    BY <1>3, <2>2 DEF Framed
  <2> QED  BY <1>1, <2>4, <2>5 DEF StreamInv
<1>7. ASSUME conns' # <<>>
      PROVE  Len(conns) > 1 /\ Stream(Len(conns))' = Stream(Len(conns))
  <2>1. L > 1
    BY <1>3, <1>7
  <2>2. Stream(L - 1)' = Stream(L)
    BY <1>3, <1>5, <2>1
  <2> QED  BY <1>2, <1>3, <2>1, <2>2
<1> QED  BY <1>1, <1>4, <1>6, <1>7 DEF OpcInv, StreamInv

(* The connection that is read has lost its first unit.                    *)
LEMMA ReadConnection ==
  ASSUME OpcTypeOK, conns # <<>>, conns[1].units # <<>>,
         conns' = [conns EXCEPT ![1].units = Tail(@)]
  PROVE  /\ Len(conns) >= 1 /\ conns' # <<>>
         /\ conns[1].units \in Seq(Units)
         /\ conns' \in Seq(Connections) /\ Len(conns') = Len(conns)
         /\ conns'[1].units = Tail(conns[1].units)
         /\ \A k \in 2..Len(conns) : conns'[k] = conns[k]
<1> DEFINE e == [conns[1] EXCEPT !.units = Tail(@)]
<1>1. PICK L \in Nat : L = Len(conns)
  BY ConnsProperties
<1>2. L >= 1 /\ conns[1] \in Connections /\ conns[1].units \in Seq(Units)
  BY <1>1, ConnsProperties
<1>3. Tail(conns[1].units) \in Seq(Units)
  BY <1>2, HeadTailProperties
<1>4. e \in Connections /\ e.units = Tail(conns[1].units)
  BY <1>2, <1>3 DEF Connections
<1>5. conns' = [conns EXCEPT ![1] = e]
  OBVIOUS
<1> HIDE DEF e
<1>6. /\ conns' \in Seq(Connections) /\ Len(conns') = L
      /\ \A j \in 1..L : conns'[j] = IF j = 1 THEN e ELSE conns[j]
  <2> DEFINE c == [conns EXCEPT ![1] = e]
  <2>1. conns \in Seq(Connections) /\ 1 \in 1..Len(conns)
    BY <1>1, <1>2 DEF OpcTypeOK
  <2>2. e \in Connections
    BY <1>4
  <2>3. /\ c \in Seq(Connections) /\ Len(c) = Len(conns)
        /\ \A j \in 1..Len(conns) : c[j] = IF j = 1 THEN e ELSE conns[j]
    BY <2>1, <2>2, ExceptSeq
  <2> QED  BY <1>1, <1>5, <2>3
<1> QED
  BY <1>1, <1>2, <1>4, <1>6

(* What the server shows has a colour for each LED.                        *)
LEMMA StripType ==
  ASSUME NEW s \in Seq(Units), Len(s) = MsgLen, \A k \in 2..MsgLen : s[k] # "header"
  PROVE  /\ Tail(s) \in [1..NumLeds -> Colors]
         /\ \A i \in 1..NumLeds : Tail(s)[i] = s[i + 1]
<1>0. NumLeds \in Nat \ {0} /\ MsgLen = NumLeds + 1
  BY OpcParameters DEF MsgLen
<1>1. s # <<>>
  BY <1>0
<1>2. /\ Tail(s) \in Seq(Units) /\ Len(Tail(s)) = NumLeds
      /\ \A i \in 1..NumLeds : Tail(s)[i] = s[i + 1]
  BY <1>0, <1>1, HeadTailProperties
<1>3. \A i \in 1..NumLeds : Tail(s)[i] \in Colors
  <2>1. \A i \in 1..NumLeds : i + 1 \in 2..MsgLen /\ s[i + 1] \in Units
    BY <1>0
  <2> QED  BY <1>2, <2>1 DEF Units
<1>4. Tail(s) = [i \in 1..NumLeds |-> Tail(s)[i]]
  BY <1>2, LenProperties
<1> QED  BY <1>2, <1>3, <1>4

LEMMA ServerReadsInv ==
  ASSUME OpcInv, ServerReads
  PROVE  /\ OpcInv'
         /\ ~ torn => \/ strip' = strip /\ Stream(1)' = Stream(1)
                      \/ \E m \in Seq(Units) :
                           /\ Len(m) = MsgLen /\ Stream(1) = m \o Stream(1)'
                           /\ Stream(1)' \in Seq(Units)
                           /\ \A i \in 1..NumLeds : strip'[i] = m[i + 1]
<1>0. /\ NumLeds \in Nat \ {0} /\ MsgLen = NumLeds + 1 /\ Len(<<>>) = 0
      /\ OpcTypeOK /\ CallInv /\ GotInv /\ StreamInv /\ got \in Seq(Units)
  BY OpcParameters DEF MsgLen, OpcInv, OpcTypeOK
<1> DEFINE units == conns[1].units
           unit == Head(units)
           next == Append(got, unit)
<1>1. /\ conns # <<>> /\ units # <<>>
      /\ IF outofstep \/ ~ InPlace(unit)
           THEN outofstep' = TRUE /\ got' = <<>> /\ UNCHANGED strip
         ELSE IF Len(next) = MsgLen
           THEN strip' = Tail(next) /\ got' = <<>> /\ UNCHANGED outofstep
         ELSE got' = next /\ UNCHANGED <<strip, outofstep>>
      /\ UNCHANGED <<long, client, up, breaks>>
  BY <1>0 DEF ServerReads
<1>2. /\ Len(conns) >= 1 /\ conns' # <<>> /\ units \in Seq(Units)
      /\ conns' \in Seq(Connections) /\ Len(conns') = Len(conns)
      /\ conns'[1].units = Tail(units)
      /\ \A k \in 2..Len(conns) : conns'[k] = conns[k]
  BY <1>0, ReadConnection DEF ServerReads
<1>3. PICK L \in Nat : L = Len(conns)
  BY <1>0, ConnsProperties
<1> HIDE DEF units
<1>4. /\ next \in Seq(Units) /\ Len(next) = Len(got) + 1 /\ Tail(units) \in Seq(Units)
      /\ next \o Tail(units) = got \o units
      /\ unit \in Units
  BY <1>0, <1>1, <1>2, MoveUnit, HeadTailProperties
<1>11. Stream(1) = next \o Tail(units)
  BY <1>4 DEF Stream, units
<1>5. /\ \A k \in 1..Len(got) : next[k] = got[k]
      /\ next[Len(got) + 1] = unit
  BY <1>0, <1>4, AppendProperties
<1>6. Len(got) \in 0..NumLeds /\ (got = <<>> <=> Len(got) = 0)
  BY <1>0 DEF GotInv
<1> HIDE DEF unit, next
<1>7. ASSUME InPlace(unit)
      PROVE  \A k \in 1..Len(next) : next[k] = "header" <=> k = 1
  <2>1. ASSUME NEW k \in 1..Len(next) PROVE next[k] = "header" <=> k = 1
    <3>1. CASE k <= Len(got)
      BY <1>0, <1>4, <1>5, <1>6, <3>1 DEF GotInv
    <3>2. CASE k = Len(got) + 1
      BY <1>5, <1>6, <1>7, <3>2 DEF InPlace
    <3> QED  BY <1>4, <1>6, <3>1, <3>2
  <2> QED  BY <2>1
<1>8. CallInv'
  BY <1>0, <1>1 DEF CallInv
<1>9. CASE outofstep \/ ~ InPlace(unit)
  <2>1. outofstep' = TRUE /\ got' = <<>> /\ strip' = strip
    BY <1>1, <1>9
  <2>2. OpcTypeOK'
    BY <1>0, <1>1, <1>2, <2>1, EmptySeq DEF OpcTypeOK
  <2>3. GotInv'
    BY <1>0, <2>1 DEF GotInv
  <2>4. torn
    <3>1. SUFFICES ASSUME ~ torn PROVE FALSE
      OBVIOUS
    <3>2. ~ outofstep /\ Framed(Stream(1))
      <4>1. 1 \in 1..Len(conns)
        BY <1>2, <1>3
      <4> QED  BY <1>0, <3>1, <4>1 DEF StreamInv
    <3> DEFINE s == Stream(1)
    <3>3. /\ Len(s) >= Len(got) + 1 /\ s[Len(got) + 1] = unit
          /\ \A k \in 1..Len(got) : s[k] = got[k]
      <4>1. /\ Len(next \o Tail(units)) = Len(next) + Len(Tail(units))
            /\ \A i \in 1..Len(next) + Len(Tail(units)) :
                 (next \o Tail(units))[i]
                   = IF i <= Len(next) THEN next[i] ELSE Tail(units)[i - Len(next)]
        BY <1>4, ConcatProperties
      <4>2. Len(Tail(units)) \in Nat /\ s = next \o Tail(units)
        BY <1>4, <1>11
      <4> HIDE DEF s
      <4>3. /\ Len(s) = Len(next) + Len(Tail(units))
            /\ \A i \in 1..Len(next) : s[i] = next[i]
        BY <1>4, <1>6, <4>1, <4>2
      <4> QED  BY <1>4, <1>5, <1>6, <4>2, <4>3
    <3>4. Len(s) \in Nat /\ s[1] = "header"
      <4>1. s \in Seq(Units)
        BY <1>4, <1>11, ConcatProperties
      <4> QED  BY <1>6, <3>2, <3>3, <4>1 DEF Framed
    <3> HIDE DEF s
    <3>5. InPlace(unit)
      <4>1. CASE got = <<>>
        BY <1>6, <3>3, <3>4, <4>1 DEF InPlace
      <4>2. CASE got # <<>>
        <5>1. Len(got) + 1 \in 1+1..1+NumLeds /\ 1 \in 1..Len(s)
          BY <1>0, <1>6, <3>3, <3>4, <4>2
        <5>2. s[Len(got) + 1] # "header"
          BY <3>2, <3>3, <3>4, <5>1 DEF Framed, s
        <5> QED  BY <3>3, <4>2, <5>2 DEF InPlace
      <4> QED  BY <4>1, <4>2
    <3> QED  BY <1>9, <3>2, <3>5
  <2>5. StreamInv' /\ torn'
    BY <1>1, <2>4 DEF StreamInv
  <2> QED  BY <1>8, <2>2, <2>3, <2>4, <2>5 DEF OpcInv
<1>10. CASE ~ outofstep /\ InPlace(unit)
  <2>1. CASE Len(next) = MsgLen
    <3>1. strip' = Tail(next) /\ got' = <<>> /\ outofstep' = outofstep
      BY <1>1, <1>10, <2>1
    <3>2. \A k \in 2..MsgLen : next[k] # "header"
      BY <1>0, <1>7, <1>10, <2>1
    <3>3. /\ strip' \in [1..NumLeds -> Colors]
          /\ \A i \in 1..NumLeds : strip'[i] = next[i + 1]
      BY <1>4, <2>1, <3>1, <3>2, StripType
    <3>4. OpcTypeOK'
      BY <1>0, <1>1, <1>2, <3>1, <3>3, EmptySeq DEF OpcTypeOK
    <3>5. GotInv'
      BY <1>0, <3>1 DEF GotInv
    <3>6. Stream(1)' = Tail(units) /\ Stream(1) = next \o Tail(units)
      <4>1. <<>> \o Tail(units) = Tail(units)
        BY <1>4, ConcatEmptySeq
      <4> QED  BY <1>2, <1>11, <3>1, <4>1 DEF Stream
    <3>7. \A k \in 2..L : Stream(k)' = Stream(k)
      BY <1>2, <1>3 DEF Stream
    <3>8. ASSUME ~ torn PROVE StreamInv'
      <4>1. /\ \A k \in 1..L : Framed(Stream(k))
            /\ EndsWith(Stream(L), handed)
            /\ L > 1 => Len(Stream(L)) >= handed
            /\ handed \in 0..MsgLen
        BY <1>0, <1>1, <1>3, <3>8 DEF StreamInv, OpcTypeOK
      <4>2. /\ Framed(Stream(1)')
            /\ EndsWith(Stream(1), handed) => EndsWith(Stream(1)', handed)
        <5>1. 1 \in 1..L
          BY <1>2, <1>3
        <5>2. Framed(next \o Tail(units))
          BY <3>6, <4>1, <5>1
        <5> QED  BY <1>4, <2>1, <3>6, <4>1, <5>2, FramedDrop
      <4>3. \A k \in 1..L : Framed(Stream(k)')
        <5>1. \A k \in 1..L : k = 1 \/ k \in 2..L
          OBVIOUS
        <5> QED  BY <3>7, <4>1, <4>2, <5>1
      <4>4. /\ EndsWith(Stream(L)', handed)
            /\ L > 1 => Len(Stream(L)') >= handed
        <5>1. L = 1 \/ L \in 2..L
          BY <1>2, <1>3
        <5> QED  BY <3>7, <4>1, <4>2, <5>1
      <4>5. \A k \in 1..Len(conns') : Framed(Stream(k))'
        BY <1>2, <1>3, <4>3 DEF Framed
      <4>6. /\ EndsWith(Stream(Len(conns)), handed)'
            /\ Len(conns') > 1 => Len(Stream(Len(conns)))' >= handed'
        BY <1>1, <1>2, <1>3, <4>4 DEF EndsWith
      <4> QED
        BY <1>1, <1>2, <1>10, <3>1, <4>5, <4>6 DEF StreamInv
    <3> QED
      BY <1>1, <1>4, <1>8, <2>1, <3>3, <3>4, <3>5, <3>6, <3>8 DEF OpcInv, StreamInv
  <2>2. CASE Len(next) # MsgLen
    <3>1. strip' = strip /\ got' = next /\ outofstep' = outofstep
      BY <1>1, <1>10, <2>2
    <3>2. OpcTypeOK'
      BY <1>0, <1>1, <1>2, <1>4, <3>1 DEF OpcTypeOK
    <3>3. GotInv'
      BY <1>0, <1>4, <1>6, <1>7, <1>10, <2>2, <3>1 DEF GotInv
    <3>4. Stream(1)' = Stream(1)
      BY <1>2, <1>4, <3>1 DEF Stream, units
    <3>5. \A k \in 1..L : Stream(k)' = Stream(k)
      <4>1. \A k \in 2..L : Stream(k)' = Stream(k)
        BY <1>2, <1>3 DEF Stream
      <4>2. \A k \in 1..L : k = 1 \/ k \in 2..L
        OBVIOUS
      <4> QED  BY <3>4, <4>1, <4>2
    <3>6. StreamInv'
      BY <1>0, <1>1, <1>2, <1>3, <3>1, <3>5, SMTT(30) DEF StreamInv, Framed, EndsWith
    <3> QED  BY <1>8, <3>1, <3>2, <3>3, <3>4, <3>6 DEF OpcInv
  <2> QED  BY <2>1, <2>2
<1> QED  BY <1>9, <1>10

LEMMA OpcActionsInv == ASSUME OpcInv, OpcCall \/ OpcServer PROVE OpcInv'
<1>1. CASE OpcCall
  BY <1>1, ConnectedInv, ConnectInv, ConnectFailsInv, SendInv, SendFailsInv, DisconnectInv
  DEF OpcCall
<1>2. CASE OpcServer
  BY <1>2, ServerReadsInv, ServerEndsInv, ServerGoesInv, ServerComesInv DEF OpcServer
<1> QED  BY <1>1, <1>2

LEMMA OpcUnchangedInv == ASSUME OpcInv, UNCHANGED opcVars PROVE OpcInv'
<1>1. OpcTypeOK' /\ CallInv' /\ GotInv'
  BY DEF OpcInv, opcVars, OpcTypeOK, CallInv, GotInv
<1>2. StreamInv'
  BY SameStreams, ConnsProperties DEF OpcInv, opcVars
<1> QED  BY <1>1, <1>2 DEF OpcInv

LEMMA OpcStepInv == OpcInv /\ [OpcNext]_opcVars => OpcInv'
<1> SUFFICES ASSUME OpcInv, [OpcNext]_opcVars PROVE OpcInv'
  OBVIOUS
<1>1. CASE CanConnect
  BY <1>1, CanConnectInv
<1>2. ASSUME NEW frame \in Frames, PutPixels(frame) PROVE OpcInv'
  <2>1. frame \in [1..NumLeds -> Colors]
    BY DEF Frames
  <2> QED  BY <1>2, <2>1, PutPixelsInv
<1>3. CASE OpcCall \/ OpcServer
  BY <1>3, OpcActionsInv
<1>4. CASE UNCHANGED opcVars
  BY <1>4, OpcUnchangedInv
<1> QED  BY <1>1, <1>2, <1>3, <1>4 DEF OpcNext, Loop

LEMMA OpcInvInStep == OpcInv => InStep
BY DEF OpcInv, StreamInv, CallInv, OpcTypeOK, InStep

(* A server that counts units keeps its place in a client's stream, for    *)
(* any number of LEDs and any room in the network, as long as no message   *)
(* is cut by another; in short mode, always.                               *)
THEOREM ServerKeepsItsPlace == OpcSpec => []InStep
BY OpcInitInv, OpcStepInv, OpcInvInStep, PTL DEF OpcSpec

-----------------------------------------------------------------------------
(* The navigator.                                                          *)

USE DEF setup

LEMMA NavInitInv == OpcInit /\ NavInit => NavInv
<1> SUFFICES ASSUME OpcInit, NavInit PROVE NavInv
  OBVIOUS
<1>1. OpcInv /\ opcpc = "idle" /\ ~ sock /\ call = "can_connect"
  BY OpcInitInv DEF OpcInit
<1>2. /\ NumLeds \in Nat \ {0} /\ "off" \in Colors /\ Pitch \in Nat \ {0}
  BY OpcParameters, NavigatorParameters DEF Pitch, BoxWidth
<1>3. boxes_per_row = cols \div Pitch
  <2>1. 0 \div Pitch = 0
    BY <1>2
  <2> QED  BY <2>1 DEF NavInit
<1>4. NavTypeOK
  BY <1>2, <1>3 DEF NavInit, NavTypeOK, AllLeds, Leds
<1>5. NavCallInv /\ ShowInv
  BY <1>1 DEF OpcInit, NavInit, NavCallInv, ShowInv, Showing
<1>6. LedsFollowCursor /\ CrashesExplained
  BY <1>2 DEF NavInit, LedsFollowCursor, CrashesExplained, Leds
<1> QED  BY <1>1, <1>4, <1>5, <1>6 DEF NavInv

(* The lines and columns that curses reports.                              *)
LEMMA WindowSize ==
  ASSUME NEW w \in Windows
  PROVE  w[1] \in Nat \ {0} /\ w[2] \in Nat \ {0}
BY NavigatorParameters

(* What the server has to do is a sequence of units.                       *)
LEMMA StreamType ==
  ASSUME OpcTypeOK, NEW k \in 1..Len(conns) PROVE Stream(k) \in Seq(Units)
<1>1. conns[k].units \in Seq(Units) /\ got \in Seq(Units)
  BY ConnsProperties DEF OpcTypeOK
<1>2. got \o conns[k].units \in Seq(Units)
  BY <1>1, ConcatProperties
<1> QED  BY <1>1, <1>2 DEF Stream

(* What is shown depends on the end of the last stream, and on the strip   *)
(* only when nothing is left in the stream.                                *)
LEMMA ShownDepends ==
  ASSUME OpcTypeOK, conns # <<>>, Shown, leds' = leds,
         Stream(Len(conns))' = Stream(Len(conns)),
         Len(Stream(Len(conns))) = 0 => strip' = strip
  PROVE  Shown'
<1>1. Stream(Len(conns)) \in Seq(Units)
  BY ConnsProperties, StreamType
<1> QED  BY <1>1 DEF Shown

(* Closing the connection changes nothing of it.                           *)
LEMMA CloseShows ==
  ASSUME OpcTypeOK, conns' # <<>>, conns' \in {conns, Close(conns)},
         UNCHANGED <<leds, got, strip>>
  PROVE  conns # <<>> /\ (Shown => Shown')
<1>1. /\ Len(conns') = Len(conns) /\ (conns' = <<>> <=> Len(conns) = 0)
      /\ \A k \in 1..Len(conns) : conns'[k].units = conns[k].units
  BY CloseKeeps, ConnsProperties
<1>2. conns # <<>>
  BY <1>1, ConnsProperties
<1>3. Len(conns) \in 1..Len(conns) /\ 1 \in 1..Len(conns)
  BY <1>2, ConnsProperties
<1>4. Stream(Len(conns))' = Stream(Len(conns))
  BY <1>1, <1>3 DEF Stream
<1> QED  BY <1>2, <1>4, ShownDepends

(* A message that is taken as a whole shows the LEDs.                      *)
LEMMA SendShows ==
  ASSUME OpcInv, Send, message = <<"header">> \o Frame, leds \in [Leds -> Colors],
         leds' = leds, conns' # <<>>, handed' = MsgLen
  PROVE  Shown'
<1>0. NumLeds \in Nat \ {0} /\ MsgLen = NumLeds + 1
  BY OpcParameters DEF MsgLen
<1>1. Frame \in [1..NumLeds -> Colors] /\ \A i \in 1..NumLeds : Frame[i] = leds[i - 1]
  BY <1>0 DEF Frame, Leds
<1> DEFINE t == SubSeq(message, 1, MsgLen)
           s == Stream(Len(conns))
<1>2. message \in Messages /\ \A i \in 1..NumLeds : message[i + 1] = leds[i - 1]
  BY <1>1, FrameIsMessage
<1>3. /\ t \in Seq(Units) /\ Len(t) = MsgLen
      /\ \A k \in 1..MsgLen : t[k] = message[k]
  <2>1. MsgLen \in 1..MsgLen
    BY <1>0
  <2> QED  BY <1>2, <2>1, MessageFront
<1>4. s \in Seq(Units) /\ s' = s \o t
  BY SendInv
<1> HIDE DEF s, t
<1>5. /\ Len(s \o t) = Len(s) + MsgLen /\ Len(s) \in Nat
      /\ \A k \in 1..Len(s) + MsgLen : (s \o t)[k] = IF k <= Len(s) THEN s[k] ELSE t[k - Len(s)]
  <2>1. /\ Len(s \o t) = Len(s) + Len(t)
        /\ \A k \in 1..Len(s) + Len(t) :
             (s \o t)[k] = IF k <= Len(s) THEN s[k] ELSE t[k - Len(s)]
    BY <1>3, <1>4, ConcatProperties
  <2> QED  BY <1>3, <1>4, <2>1
<1>6. ASSUME NEW i \in 1..NumLeds PROVE (s \o t)[Len(s \o t) - NumLeds + i] = leds[i - 1]
  <2>1. Len(s \o t) - NumLeds + i = Len(s) + (i + 1)
    BY <1>0, <1>5
  <2>2. /\ Len(s) + (i + 1) \in 1..Len(s) + MsgLen /\ ~ (Len(s) + (i + 1) <= Len(s))
        /\ Len(s) + (i + 1) - Len(s) = i + 1 /\ i + 1 \in 1..MsgLen
    BY <1>0, <1>5
  <2>3. (s \o t)[Len(s) + (i + 1)] = t[i + 1]
    BY <1>5, <2>2
  <2> QED  BY <1>2, <1>3, <2>1, <2>2, <2>3
<1>7. Len(s') > 0
  BY <1>0, <1>4, <1>5
<1>8. \A i \in 1..NumLeds : s'[Len(s') - NumLeds + i] = leds'[i - 1]
  BY <1>4, <1>6
<1> QED
  BY <1>7, <1>8 DEF Shown, s

(* The server takes a message from a stream that ends with the LEDs: either*)
(* it was the last one, or the end is still there.                         *)
LEMMA ReadShows ==
  ASSUME NEW m \in Seq(Units), Len(m) = MsgLen,
         NEW u \in Seq(Units), EndsWith(u, MsgLen)
  PROVE  \A i \in 1..NumLeds :
           (m \o u)[Len(m \o u) - NumLeds + i]
             = IF Len(u) > 0 THEN u[Len(u) - NumLeds + i] ELSE m[i + 1]
<1> DEFINE s == m \o u
<1>0. NumLeds \in Nat \ {0} /\ MsgLen = NumLeds + 1
  BY OpcParameters DEF MsgLen
<1>1. /\ Len(s) = MsgLen + Len(u) /\ Len(u) \in Nat
      /\ \A k \in 1..MsgLen + Len(u) : s[k] = IF k <= MsgLen THEN m[k] ELSE u[k - MsgLen]
  <2>1. /\ Len(m \o u) = Len(m) + Len(u)
        /\ \A k \in 1..Len(m) + Len(u) :
             (m \o u)[k] = IF k <= Len(m) THEN m[k] ELSE u[k - Len(m)]
    BY ConcatProperties
  <2> QED  BY <2>1
<1> HIDE DEF s
<1>2. SUFFICES ASSUME NEW i \in 1..NumLeds
               PROVE  s[Len(s) - NumLeds + i]
                        = IF Len(u) > 0 THEN u[Len(u) - NumLeds + i] ELSE m[i + 1]
  BY DEF s
<1>3. PICK k \in Int : k = Len(s) - NumLeds + i
  BY <1>0, <1>1
<1>4. CASE Len(u) > 0
  <2>1. Len(u) >= MsgLen
    BY <1>0, <1>1, <1>4 DEF EndsWith
  <2>2. k \in 1..MsgLen + Len(u) /\ ~ (k <= MsgLen) /\ k - MsgLen = Len(u) - NumLeds + i
    BY <1>0, <1>1, <1>3, <2>1
  <2> QED  BY <1>1, <1>3, <1>4, <2>2
<1>5. CASE Len(u) = 0
  <2>1. k = i + 1 /\ k \in 1..MsgLen + Len(u) /\ k <= MsgLen
    BY <1>0, <1>1, <1>3, <1>5
  <2>2. s[k] = m[k]
    BY <1>1, <2>1
  <2> QED  BY <1>3, <1>5, <2>1, <2>2
<1> QED  BY <1>1, <1>4, <1>5

(* When the server reads, what is shown stays the same.                    *)
LEMMA ServerReadsShows ==
  ASSUME OpcInv, ServerReads, ~ torn, handed = MsgLen, leds' = leds, Shown
  PROVE  Shown'
<1>0. /\ NumLeds \in Nat \ {0} /\ MsgLen = NumLeds + 1
      /\ OpcTypeOK /\ StreamInv /\ StreamInv'
      /\ conns # <<>> /\ handed' = handed /\ torn' = torn
  BY OpcParameters, ServerReadsInv DEF MsgLen, OpcInv, ServerReads
<1>1. PICK L \in Nat : L = Len(conns)
  BY <1>0, ConnsProperties
<1>2. /\ L >= 1 /\ conns' # <<>> /\ Len(conns') = L
      /\ \A k \in 2..L : conns'[k] = conns[k]
  BY <1>0, <1>1, ReadConnection DEF ServerReads
<1>3. CASE L > 1
  <2>1. Stream(L)' = Stream(L)
    BY <1>1, <1>2, <1>3 DEF Stream
  <2>2. Len(Stream(L)) >= MsgLen
    BY <1>0, <1>1, <1>3 DEF StreamInv
  <2>3. Len(Stream(L)) # 0
    BY <1>0, <2>2
  <2> QED  BY <1>0, <1>1, <1>2, <2>1, <2>3, ShownDepends
<1>4. CASE L = 1
  <2>1. CASE strip' = strip /\ Stream(1)' = Stream(1)
    BY <1>0, <1>1, <1>2, <1>4, <2>1, ShownDepends
  <2>2. ASSUME NEW m \in Seq(Units), Len(m) = MsgLen, Stream(1) = m \o Stream(1)',
               Stream(1)' \in Seq(Units),
               \A i \in 1..NumLeds : strip'[i] = m[i + 1]
        PROVE  Shown'
    <3> DEFINE s == Stream(1)
               u == Stream(1)'
    <3>1. s \in Seq(Units)
      BY <1>0, <1>1, <1>4, StreamType
    <3>2. EndsWith(u, MsgLen)
      <4>1. EndsWith(Stream(Len(conns)), handed)'
        BY <1>0, <1>2 DEF StreamInv
      <4> QED  BY <1>0, <1>2, <1>4, <4>1 DEF EndsWith
    <3>3. /\ Len(s) = MsgLen + Len(u) /\ Len(u) \in Nat
      BY <2>2, ConcatProperties
    <3>4. Len(s) > 0
      BY <1>0, <3>3
    <3>5. \A i \in 1..NumLeds : s[Len(s) - NumLeds + i] = leds[i - 1]
      BY <1>1, <1>4, <3>4 DEF Shown
    <3> HIDE DEF s, u
    <3>6. \A i \in 1..NumLeds :
            IF Len(u) > 0 THEN u[Len(u) - NumLeds + i] = s[Len(s) - NumLeds + i]
                          ELSE m[i + 1] = s[Len(s) - NumLeds + i]
      <4>1. u \in Seq(Units) /\ s = m \o u
        BY <2>2 DEF s, u
      <4>2. \A i \in 1..NumLeds :
              (m \o u)[Len(m \o u) - NumLeds + i]
                = IF Len(u) > 0 THEN u[Len(u) - NumLeds + i] ELSE m[i + 1]
        BY <2>2, <3>2, <4>1, ReadShows
      <4> QED  BY <4>1, <4>2
    <3>7. IF Len(u) > 0 THEN \A i \in 1..NumLeds : u[Len(u) - NumLeds + i] = leds'[i - 1]
                        ELSE \A i \in 1..NumLeds : strip'[i] = leds'[i - 1]
      BY <2>2, <3>5, <3>6
    <3> QED  BY <1>2, <1>4, <3>7 DEF Shown, u
  <2> QED
    BY <2>1, <2>2, <1>0, ServerReadsInv
<1> QED  BY <1>2, <1>3, <1>4

(* A step of the client or the server keeps what the navigator shows.      *)
LEMMA OpcKeepsShow ==
  ASSUME NavInv, OpcCall \/ OpcServer, UNCHANGED navVars PROVE ShowInv'
<1>0. /\ OpcInv /\ OpcTypeOK /\ NavTypeOK /\ NavCallInv /\ ShowInv /\ OpcInv'
      /\ navpc' = navpc /\ dryrun' = dryrun /\ leds' = leds
  BY OpcActionsInv DEF NavInv, OpcInv, navVars
<1>1. CASE Send
  <2>1. message = <<"header">> \o Frame \/ navpc \notin {"update", "quit"}
    BY <1>0, <1>1 DEF Send, NavCallInv
  <2>2. leds \in [Leds -> Colors]
    BY <1>0 DEF NavTypeOK
  <2>3. navpc \in {"update", "quit"}
    BY <1>0, <1>1 DEF Send, NavCallInv
  <2>4. SUFFICES ASSUME conns' # <<>>, handed' = MsgLen
                 PROVE  Shown'
    BY <1>0 DEF ShowInv, Showing, MsgLen
  <2> QED  BY <1>0, <1>1, <2>1, <2>2, <2>3, <2>4, SendShows
<1>2. CASE Connected \/ Connect \/ ConnectFails \/ SendFails
  <2>1. opcpc \in {"connect", "send"}
    BY <1>2 DEF Connected, Connect, ConnectFails, SendFails
  <2>2. /\ navpc \in {"start", "update", "quit"}
        /\ navpc \in {"update", "quit"} => call = "put_pixels"
    BY <1>0, <2>1 DEF NavCallInv, NavTypeOK
  <2>3. navpc = "start" \/ (opcpc' # "disconnect" /\ (opcpc' = "returned" => ret' = FALSE))
    BY <1>2, <2>2 DEF Connected, Connect, ConnectFails, SendFails, AfterConnect
  <2> QED  BY <1>0, <2>2, <2>3 DEF ShowInv, Showing
<1>4. CASE Disconnect
  <2>1. SUFFICES ASSUME Showing' PROVE Shown'
    BY DEF ShowInv
  <2>2. /\ opcpc = "disconnect" /\ conns' \in {conns, Close(conns)}
        /\ UNCHANGED <<torn, handed, got, strip>>
    BY <1>4 DEF Disconnect
  <2>3. conns # <<>> /\ (Shown => Shown')
    BY <1>0, <2>1, <2>2, CloseShows DEF Showing
  <2>4. Showing
    BY <1>0, <2>1, <2>2, <2>3 DEF Showing, NavCallInv, MsgLen
  <2> QED  BY <1>0, <2>3, <2>4 DEF ShowInv
<1>3. CASE OpcServer
  <2>1. SUFFICES ASSUME Showing' PROVE Shown'
    BY DEF ShowInv
  <2>2. /\ ~ torn /\ handed = MsgLen
        /\ conns # <<>> => Showing
    <3>1. UNCHANGED client
      BY <1>3 DEF OpcServer, ServerReads, ServerEnds, ServerGoes, ServerComes
    <3>2. ~ torn' /\ handed' = MsgLen' /\ ~ dryrun'
      BY <2>1 DEF Showing
    <3>3. ~ torn /\ handed = MsgLen /\ ~ dryrun
      BY <1>0, <3>1, <3>2 DEF MsgLen
    <3>4. \/ navpc \in {"draw", "getkey", "exit"}
          \/ navpc \in {"update", "quit"} /\ opcpc = "returned" /\ ret
          \/ navpc \in {"update", "quit"} /\ opcpc = "disconnect"
      BY <1>0, <2>1, <3>1 DEF Showing
    <3> QED  BY <3>3, <3>4 DEF Showing
  <2>3. CASE ServerReads
    <3>1. conns # <<>>
      BY <2>3 DEF ServerReads
    <3> QED  BY <1>0, <2>2, <2>3, <3>1, ServerReadsShows DEF ShowInv
  <2>4. CASE ServerEnds
    <3>1. /\ conns # <<>> /\ Len(conns) > 1 /\ Stream(Len(conns))' = Stream(Len(conns))
          /\ strip' = strip
      BY <1>0, <2>1, <2>4, ServerEndsInv DEF Showing, ServerEnds
    <3>2. Shown
      BY <1>0, <2>2, <3>1 DEF ShowInv
    <3> QED  BY <1>0, <3>1, <3>2, ShownDepends
  <2>5. CASE ServerGoes
    BY <2>1, <2>5 DEF ServerGoes, Showing
  <2>6. CASE ServerComes
    <3>1. conns # <<>> /\ conns' = conns /\ got' = got /\ strip' = strip
      BY <2>1, <2>6 DEF ServerComes, Showing
    <3>2. Stream(Len(conns))' = Stream(Len(conns)) /\ Shown
      BY <1>0, <2>2, <3>1 DEF ShowInv, Stream
    <3> QED  BY <1>0, <3>1, <3>2, ShownDepends
  <2> QED  BY <1>3, <2>3, <2>4, <2>5, <2>6 DEF OpcServer
<1> QED  BY <1>1, <1>2, <1>3, <1>4 DEF OpcCall

LEMMA NavOpcInv ==
  ASSUME NavInv, OpcCall \/ OpcServer, UNCHANGED navVars PROVE NavInv'
<1>0. /\ OpcInv /\ OpcTypeOK /\ NavTypeOK /\ NavCallInv /\ OpcInv' /\ ShowInv'
      /\ UNCHANGED <<dryrun, sizes, leds, box_index, box_color, lines, cols, boxes_per_row, navpc>>
  BY OpcActionsInv, OpcKeepsShow DEF NavInv, OpcInv, navVars
<1>1. NavTypeOK'
  BY <1>0 DEF NavTypeOK
<1>2. LedsFollowCursor'
  BY <1>0 DEF NavInv, LedsFollowCursor
<1>3. CASE OpcServer
  <2>1. UNCHANGED client
    BY <1>3 DEF OpcServer, ServerReads, ServerEnds, ServerGoes, ServerComes
  <2>2. NavCallInv'
    BY <1>0, <2>1 DEF NavCallInv, Frame
  <2>3. CrashesExplained'
    BY <1>0, <2>1 DEF NavInv, CrashesExplained
  <2> QED  BY <1>0, <1>1, <1>2, <2>2, <2>3 DEF NavInv
<1>4. CASE OpcCall
  <2>1. opcpc # "idle" /\ call' = call
    BY <1>4
    DEF OpcCall, Connected, Connect, ConnectFails, Send, SendFails, Disconnect
  <2>2. ~ dryrun /\ navpc \in {"start", "update", "quit"} /\ Frame' = Frame
    BY <1>0, <2>1 DEF NavCallInv, NavTypeOK, Frame
  <2>3. opcpc' # "connect" /\ (opcpc' = "send" => message' = message /\ call = "put_pixels" /\ opcpc = "connect")
    BY <1>0, <1>4
    DEF OpcCall, Connected, Connect, ConnectFails, Send, SendFails, Disconnect, AfterConnect
  <2>6. navpc = "start" => handed' = 0
    BY <1>0, <1>4
    DEF OpcCall, Connected, Connect, ConnectFails, Send, SendFails, Disconnect, NavCallInv
  <2>4. NavCallInv'
    BY <1>0, <2>1, <2>2, <2>3, <2>6 DEF NavCallInv, AllLeds, Leds
  <2>5. CrashesExplained'
    BY <1>0, <2>2 DEF CrashesExplained
  <2> QED  BY <1>0, <1>1, <1>2, <2>4, <2>5 DEF NavInv
<1> QED  BY <1>3, <1>4

(* A place in the code from which nothing is expected of the screen.       *)
LEMMA NotShowing ==
  ASSUME navpc' \notin {"draw", "getkey", "exit"} \/ handed' = 0,
         navpc' \in {"update", "quit"} => opcpc' \notin {"returned", "disconnect"}
  PROVE  ShowInv'
BY OpcParameters DEF ShowInv, Showing, MsgLen

LEMMA StartConnectsInv == ASSUME NavInv, StartConnects PROVE NavInv'
<1>0. /\ OpcInv' /\ navpc = "start" /\ opcpc' = "connect" /\ call' = "can_connect" /\ ~ dryrun
      /\ handed' = handed
      /\ UNCHANGED <<dryrun, sizes, leds, box_index, box_color, lines, cols, boxes_per_row, navpc>>
  BY CanConnectInv DEF NavInv, StartConnects, CanConnect, Begin, navVars
<1>1. NavTypeOK' /\ NavCallInv'
  BY <1>0 DEF NavInv, NavTypeOK, NavCallInv, AllLeds, Leds
<1>2. LedsFollowCursor' /\ CrashesExplained'
  BY <1>0 DEF NavInv, LedsFollowCursor, CrashesExplained
<1> QED  BY <1>0, <1>1, <1>2, NotShowing DEF NavInv

(* When the navigator has the result of a call, the client is idle.        *)
LEMMA BackToIdle ==
  ASSUME OpcInv, dryrun \/ opcpc = "returned", dryrun => opcpc = "idle" /\ ~ sock,
         opcpc' = "idle",
         UNCHANGED <<long, sock, call, message, ret, handed, torn, conns, opcServer>>
  PROVE  OpcInv'
<1>1. OpcTypeOK' /\ GotInv'
  BY DEF OpcInv, OpcTypeOK, GotInv
<1>2. CallInv'
  BY DEF OpcInv, CallInv
<1>3. StreamInv'
  BY SameStreams, ConnsProperties DEF OpcInv
<1> QED  BY <1>1, <1>2, <1>3 DEF OpcInv

LEMMA StartInv == ASSUME NavInv, Start PROVE NavInv'
<1>0. /\ OpcInv /\ navpc = "start" /\ (dryrun \/ opcpc = "returned") /\ opcpc' = "idle"
      /\ UNCHANGED <<dryrun, sizes, leds, box_index, box_color>>
      /\ UNCHANGED <<long, sock, call, message, ret, handed, torn, conns, opcServer>>
      /\ NavTypeOK /\ NavCallInv
  BY DEF NavInv, Start
<1>1. OpcInv'
  BY <1>0, BackToIdle DEF NavCallInv
<1>2. /\ navpc' \in {"update", "exit"}
      /\ lines' \in Nat /\ cols' \in Nat /\ boxes_per_row' = cols' \div Pitch
  <2>1. CASE dryrun \/ ret
    <3>1. PICK w \in sizes : Resize(w)
      BY <2>1 DEF Start
    <3>2. w[1] \in Nat /\ w[2] \in Nat
      BY <1>0, WindowSize DEF NavTypeOK
    <3> QED  BY <2>1, <3>1, <3>2 DEF Start, Resize
  <2>2. CASE ~ (dryrun \/ ret)
    BY <1>0, <2>2 DEF Start, NavTypeOK
  <2> QED  BY <2>1, <2>2
<1>3. NavTypeOK' /\ NavCallInv'
  BY <1>0, <1>2 DEF NavTypeOK, NavCallInv, Pitch, AllLeds, Leds
<1>4. LedsFollowCursor' /\ CrashesExplained'
  BY <1>0, <1>2 DEF NavInv, LedsFollowCursor, CrashesExplained
<1>5. ShowInv'
  BY <1>0, <1>2, NotShowing DEF NavCallInv
<1> QED  BY <1>1, <1>3, <1>4, <1>5 DEF NavInv

LEMMA UpdateOpcInv == ASSUME NavInv, UpdateOpc PROVE NavInv'
<1>0. /\ OpcInv /\ NavTypeOK /\ navpc \in {"update", "quit"} /\ ~ dryrun /\ PutPixels(Frame)
      /\ UNCHANGED <<dryrun, sizes, leds, box_index, box_color, lines, cols, boxes_per_row, navpc>>
  BY DEF NavInv, UpdateOpc, Updating, Frame, navVars
<1>1. Frame \in [1..NumLeds -> Colors]
  BY <1>0, OpcParameters DEF Frame, NavTypeOK, Leds
<1>2. OpcInv' /\ opcpc' = "connect" /\ call' = "put_pixels" /\ message' = <<"header">> \o Frame
  BY <1>0, <1>1, PutPixelsInv DEF PutPixels, Begin
<1>3. NavTypeOK' /\ NavCallInv'
  BY <1>0, <1>2 DEF NavInv, NavTypeOK, NavCallInv, Frame, AllLeds, Leds
<1>4. LedsFollowCursor' /\ CrashesExplained'
  BY <1>0 DEF NavInv, LedsFollowCursor, CrashesExplained
<1>5. ShowInv'
  BY <1>0, <1>2, NotShowing
<1> QED  BY <1>2, <1>3, <1>4, <1>5 DEF NavInv

LEMMA UpdatedInv == ASSUME NavInv, Updated PROVE NavInv'
<1>0. /\ OpcInv /\ navpc \in {"update", "quit"} /\ (dryrun \/ opcpc = "returned") /\ opcpc' = "idle"
      /\ navpc' = IF ~ dryrun /\ ~ ret THEN "crash"
                  ELSE IF navpc = "quit" THEN "exit" ELSE "draw"
      /\ UNCHANGED <<dryrun, sizes, leds, box_index, box_color, lines, cols, boxes_per_row>>
      /\ UNCHANGED <<long, sock, call, message, ret, handed, torn, conns, opcServer>>
      /\ NavTypeOK /\ NavCallInv
  BY DEF NavInv, Updated, Updating
<1>1. OpcInv'
  BY <1>0, BackToIdle DEF NavCallInv
<1>2. NavTypeOK' /\ NavCallInv'
  BY <1>0 DEF NavTypeOK, NavCallInv
<1>3. LedsFollowCursor' /\ CrashesExplained'
  BY <1>0 DEF NavInv, LedsFollowCursor, CrashesExplained
<1>4. ShowInv'
  <2>1. SUFFICES ASSUME Showing' PROVE Shown'
    BY DEF ShowInv
  <2>2. Showing /\ conns # <<>> /\ OpcTypeOK
    BY <1>0, <2>1 DEF Showing, MsgLen, OpcInv
  <2>3. Stream(Len(conns))' = Stream(Len(conns)) /\ Shown
    BY <1>0, <2>2 DEF NavInv, ShowInv, Stream
  <2> QED  BY <1>0, <2>2, <2>3, ShownDepends
<1> QED  BY <1>1, <1>2, <1>3, <1>4 DEF NavInv

(* What a key leaves to be shown: colours, and a cursor among the LEDs.    *)
LEMMA SetLedFollows ==
  ASSUME NavTypeOK, NEW color \in Colors, box_index' \in Leds, SetLed(color)
  PROVE  /\ leds' \in [Leds -> Colors] /\ box_color' \in Colors
         /\ \A i \in Leds : leds'[i] = IF i = box_index' THEN box_color' ELSE "off"
BY OpcParameters DEF SetLed, AllLeds

LEMMA KeyInv ==
  ASSUME NavInv, navpc = "getkey", navpc' \in {"update", "quit"},
         UNCHANGED <<setup, opcVars>>,
         lines' \in Nat, cols' \in Nat, boxes_per_row' = cols' \div Pitch,
         leds' \in [Leds -> Colors], box_index' \in Leds, box_color' \in Colors,
         \/ leds' = AllLeds(box_color')
         \/ \A i \in Leds : leds'[i] = (IF i = box_index' THEN box_color' ELSE "off"),
         navpc' = "quit" => leds' = AllLeds("off")
  PROVE  NavInv'
<1>0. OpcInv' /\ opcpc = "idle" /\ opcpc' = "idle" /\ sock' = sock
  BY OpcUnchangedInv DEF NavInv, NavCallInv, opcVars
<1>1. NavTypeOK' /\ NavCallInv'
  BY <1>0 DEF NavInv, NavTypeOK, NavCallInv, Pitch, AllLeds, Leds
<1>2. LedsFollowCursor' /\ CrashesExplained'
  BY DEF LedsFollowCursor, CrashesExplained, AllLeds, Leds
<1> QED  BY <1>0, <1>1, <1>2, NotShowing DEF NavInv

LEMMA KeysInv ==
  ASSUME NavInv, KeyResize \/ KeyMove \/ KeyColor \/ KeyAll \/ OtherKey \/ KeyQuit
  PROVE  NavInv'
<1>0. /\ navpc = "getkey" /\ navpc' \in {"update", "quit"} /\ UNCHANGED <<setup, opcVars>>
      /\ NavTypeOK /\ LedsFollowCursor /\ "off" \in Colors
  BY OpcParameters
  DEF NavInv, KeyResize, KeyMove, KeyColor, KeyAll, OtherKey, KeyQuit, Key
<1>1. /\ leds \in [Leds -> Colors] /\ box_index \in Leds /\ box_color \in Colors
      /\ lines \in Nat /\ cols \in Nat /\ boxes_per_row = cols \div Pitch
      /\ \/ leds = AllLeds(box_color)
         \/ \A i \in Leds : leds[i] = (IF i = box_index THEN box_color ELSE "off")
  BY <1>0 DEF NavTypeOK, LedsFollowCursor
<1>8. KeyResize \/ KeyMove \/ KeyColor \/ KeyAll \/ OtherKey => navpc' = "update"
  BY DEF KeyResize, KeyMove, KeyColor, KeyAll, OtherKey, Key
<1>2. CASE KeyResize
  <2>1. PICK w \in sizes : Resize(w)
    BY <1>2 DEF KeyResize
  <2>2. w[1] \in Nat /\ w[2] \in Nat
    BY <1>0, WindowSize DEF NavTypeOK
  <2>3. lines' \in Nat /\ cols' \in Nat /\ boxes_per_row' = cols' \div Pitch
    BY <2>1, <2>2 DEF Resize
  <2>4. leds' = leds /\ box_index' = box_index /\ box_color' = box_color
    BY <1>2 DEF KeyResize
  <2> QED  BY <1>0, <1>1, <1>2, <1>8, <2>3, <2>4, KeyInv
<1>3. CASE KeyMove
  <2>1. PICK offset \in {-1, 1, -boxes_per_row, boxes_per_row} : MoveCursor(offset)
    BY <1>3 DEF KeyMove
  <2>2. UNCHANGED <<lines, cols, boxes_per_row>>
    BY <1>3 DEF KeyMove, window
  <2>3. CASE box_index + offset \in Leds
    <3>1. box_index' \in Leds /\ SetLed(box_color)
      BY <2>1, <2>3 DEF MoveCursor
    <3> QED  BY <1>0, <1>1, <1>3, <1>8, <2>2, <3>1, SetLedFollows, KeyInv
  <2>4. CASE box_index + offset \notin Leds
    <3>1. leds' = leds /\ box_index' = box_index /\ box_color' = box_color
      BY <2>1, <2>4 DEF MoveCursor
    <3> QED  BY <1>0, <1>1, <1>3, <1>8, <2>2, <3>1, KeyInv
  <2> QED  BY <2>3, <2>4
<1>4. CASE KeyColor
  <2>1. PICK color \in Colors : SetLed(color)
    BY <1>4 DEF KeyColor
  <2>2. UNCHANGED <<box_index, lines, cols, boxes_per_row>>
    BY <1>4 DEF KeyColor, window
  <2> QED  BY <1>0, <1>1, <1>4, <1>8, <2>1, <2>2, SetLedFollows, KeyInv
<1>5. CASE KeyAll
  <2>1. PICK color \in Colors : box_color' = color /\ leds' = AllLeds(color)
    BY <1>5 DEF KeyAll
  <2>2. UNCHANGED <<box_index, lines, cols, boxes_per_row>>
    BY <1>5 DEF KeyAll, window
  <2>3. leds' \in [Leds -> Colors]
    BY <2>1 DEF AllLeds
  <2> QED  BY <1>0, <1>1, <1>5, <1>8, <2>1, <2>2, <2>3, KeyInv
<1>6. CASE OtherKey
  <2>1. UNCHANGED <<leds, box_index, box_color, lines, cols, boxes_per_row>>
    BY <1>6 DEF OtherKey, window
  <2> QED  BY <1>0, <1>1, <1>6, <1>8, <2>1, KeyInv
<1>7. CASE KeyQuit
  <2>1. SetLed("off") /\ UNCHANGED <<box_index, lines, cols, boxes_per_row>>
    BY <1>7 DEF KeyQuit, window
  <2>2. leds' = AllLeds("off")
    BY <2>1 DEF SetLed, AllLeds
  <2> QED  BY <1>0, <1>1, <2>1, <2>2, SetLedFollows, KeyInv
<1> QED  BY <1>2, <1>3, <1>4, <1>5, <1>6, <1>7

LEMMA InterruptInv == ASSUME NavInv, Interrupt PROVE NavInv'
<1>0. /\ opcpc = "idle" /\ navpc' = "interrupted" /\ UNCHANGED opcVars
      /\ UNCHANGED <<dryrun, sizes, leds, box_index, box_color, lines, cols, boxes_per_row>>
  BY DEF Interrupt, window
<1>1. OpcInv' /\ opcpc' = "idle" /\ sock' = sock
  BY <1>0, OpcUnchangedInv DEF NavInv, opcVars
<1>2. NavTypeOK' /\ NavCallInv'
  BY <1>0, <1>1 DEF NavInv, NavTypeOK, NavCallInv
<1>3. LedsFollowCursor' /\ CrashesExplained'
  BY <1>0 DEF NavInv, LedsFollowCursor, CrashesExplained
<1> QED  BY <1>0, <1>1, <1>2, <1>3, NotShowing DEF NavInv

LEMMA SocketClosesInv == ASSUME NavInv, SocketCloses PROVE NavInv'
<1>0. /\ OpcInv /\ OpcTypeOK /\ navpc \in NavEnds /\ sock' = FALSE /\ conns' = Close(conns)
      /\ UNCHANGED <<navVars, long, call, opcpc, message, ret, handed, torn, opcServer>>
  BY DEF NavInv, OpcInv, SocketCloses
<1>1. OpcTypeOK' /\ CallInv' /\ GotInv'
  <2>1. opcpc = "idle"
    BY <1>0 DEF NavInv, NavCallInv, NavEnds
  <2> QED  BY <1>0, <2>1, CloseKeeps DEF OpcInv, OpcTypeOK, CallInv, GotInv
<1>2. StreamInv'
  BY <1>0, SameStreams, CloseKeeps, ConnsProperties DEF OpcInv
<1>3. NavTypeOK' /\ NavCallInv'
  BY <1>0 DEF NavInv, NavTypeOK, NavCallInv, navVars, NavEnds, AllLeds, Leds
<1>4. LedsFollowCursor' /\ CrashesExplained'
  BY <1>0 DEF NavInv, LedsFollowCursor, CrashesExplained, navVars
<1>5. ShowInv'
  <2>1. SUFFICES ASSUME Showing' PROVE Shown'
    BY DEF ShowInv
  <2>2. conns # <<>> /\ (Shown => Shown')
    BY <1>0, <2>1, CloseShows DEF Showing, navVars
  <2>3. Showing
    BY <1>0, <2>1, <2>2 DEF Showing, navVars, MsgLen
  <2> QED  BY <2>2, <2>3 DEF NavInv, ShowInv
<1> QED  BY <1>1, <1>2, <1>3, <1>4, <1>5 DEF NavInv, OpcInv

-----------------------------------------------------------------------------
(* Where the boxes are.                                                    *)

(* The boxes that paint draws in a row: one, if there is room for none.    *)
InRow == IF cols < Pitch THEN 1 ELSE cols \div Pitch

LEMMA RowFits ==
  ASSUME cols \in Nat
  PROVE  /\ Pitch \in Nat \ {0} /\ InRow \in Nat \ {0}
         /\ Pitch * InRow + Pitch > cols
         /\ \A k \in Nat : k + 1 < InRow => Pitch * (k + 1) + Pitch <= cols
         /\ \A k \in Nat : Pitch * k \in Nat /\ Pitch * (k + 1) = Pitch * k + Pitch
         /\ Pitch * 0 = 0
<1>1. Pitch \in Nat \ {0}
  BY NavigatorParameters DEF Pitch, BoxWidth
<1>2. PICK P \in Nat \ {0} : P = Pitch
  BY <1>1
<1>3. \A k \in Nat : P * k \in Nat /\ P * (k + 1) = P * k + P /\ P * 0 = 0
  OBVIOUS
<1>4. CASE cols < P
  <2>1. InRow = 1 /\ P * 1 = P
    BY <1>2, <1>4 DEF InRow
  <2> QED  BY <1>1, <1>2, <1>3, <1>4, <2>1
<1>5. CASE ~ (cols < P)
  <2>1. PICK q \in Nat, r \in 0..P - 1 : cols = P * q + r /\ q = cols \div P
    BY NextQuotient
  <2>2. InRow = q
    BY <1>2, <1>5, <2>1 DEF InRow
  <2>3. q # 0
    BY <1>3, <1>5, <2>1
  <2>4. P * q + P > cols
    BY <1>3, <2>1
  <2>5. ASSUME NEW k \in Nat, k + 1 < q PROVE P * (k + 1) + P <= cols
    <3>1. PICK d \in Nat : q = (k + 2) + d
      BY <2>5
    <3>2. P * q = P * (k + 2) + P * d /\ P * d \in Nat
      BY <3>1
    <3>3. P * (k + 2) = P * (k + 1) + P
      OBVIOUS
    <3>4. P * (k + 2) \in Nat
      OBVIOUS
    <3> QED  BY <1>3, <2>1, <3>2, <3>3, <3>4, SMTT(30)
  <2> QED  BY <1>1, <1>2, <1>3, <2>2, <2>3, <2>4, <2>5
<1> QED  BY <1>4, <1>5

(* The loop's place before box i, written without the loop.                *)
LEMMA SpotClosed ==
  ASSUME cols \in Nat, NEW i \in 0..NumLeds
  PROVE  Spot[i] = <<1 + BoxHeight * (i \div InRow), Pitch * (i % InRow)>>
<1> DEFINE next(p) == LET x == p[2] + Pitch
                      IN  IF x + Pitch > cols THEN <<p[1] + BoxHeight, 0>> ELSE <<p[1], x>>
           g == [j \in 0..NumLeds |-> <<1 + BoxHeight * (j \div InRow), Pitch * (j % InRow)>>]
<1>1. /\ NumLeds \in Nat /\ InRow \in Nat \ {0} /\ Pitch \in Nat \ {0}
      /\ \A k \in Nat : Pitch * k \in Nat /\ Pitch * (k + 1) = Pitch * k + Pitch
      /\ Pitch * 0 = 0
  BY OpcParameters, RowFits
<1>2. ASSUME NEW j \in Nat
      PROVE  next(<<1 + BoxHeight * (j \div InRow), Pitch * (j % InRow)>>)
               = <<1 + BoxHeight * ((j + 1) \div InRow), Pitch * ((j + 1) % InRow)>>
  <2>1. PICK q \in Nat, r \in 0..InRow - 1 : q = j \div InRow /\ r = j % InRow
    BY <1>1, NextQuotient
  <2>2. IF r = InRow - 1
          THEN (j + 1) % InRow = 0 /\ (j + 1) \div InRow = q + 1
          ELSE (j + 1) % InRow = r + 1 /\ (j + 1) \div InRow = q
    BY <1>1, <2>1, NextQuotient
  <2>3. r \in Nat /\ Pitch * r + Pitch = Pitch * (r + 1) /\ Pitch * r \in Nat
    BY <1>1
  <2>4. Pitch * r + Pitch + Pitch > cols <=> r = InRow - 1
    <3>1. CASE r = InRow - 1
      <4>1. r + 1 = InRow
        BY <1>1, <3>1
      <4>2. Pitch * (r + 1) + Pitch > cols
        BY <4>1, RowFits
      <4> QED  BY <2>3, <3>1, <4>2
    <3>2. CASE r # InRow - 1
      <4>1. Pitch * (r + 1) + Pitch <= cols
        BY <1>1, <2>3, <3>2, RowFits
      <4> QED  BY <1>1, <2>3, <3>2, <4>1
    <3> QED  BY <3>1, <3>2
  <2>5. BoxHeight * (q + 1) = BoxHeight * q + BoxHeight /\ BoxHeight * q \in Nat /\ BoxHeight \in Nat
    BY DEF BoxHeight
  <2> QED  BY <1>1, <2>1, <2>2, <2>3, <2>4, <2>5
<1>3. 0 \div InRow = 0 /\ 0 % InRow = 0
  BY <1>1, NextQuotient
<1>4. g[0] = <<1, 0>>
  BY <1>1, <1>3 DEF BoxHeight
<1>5. \A j \in 1..NumLeds : g[j] = next(g[j - 1])
  <2>1. ASSUME NEW j \in 1..NumLeds PROVE g[j] = next(g[j - 1])
    <3>1. j - 1 \in Nat /\ j - 1 + 1 = j /\ j - 1 \in 0..NumLeds /\ j \in 0..NumLeds
      BY <1>1
    <3> HIDE DEF next
    <3> QED  BY <1>2, <3>1
  <2> QED  BY <2>1
<1> HIDE DEF g
<1>6. g = [j \in 0..NumLeds |-> IF j = 0 THEN <<1, 0>> ELSE next(g[j - 1])]
  <2>1. \A j \in 0..NumLeds : j = 0 \/ j \in 1..NumLeds
    OBVIOUS
  <2>2. g = [j \in 0..NumLeds |-> g[j]]
    BY SMTT(30) DEF g
  <2> HIDE DEF next
  <2> QED  BY <1>4, <1>5, <2>1, <2>2
<1>7. Spot = [j \in 0..NumLeds |-> IF j = 0 THEN <<1, 0>> ELSE next(Spot[j - 1])]
  BY <1>6 DEF Spot
<1> HIDE DEF next
<1> DEFINE S == {n \in Nat : n <= NumLeds => Spot[n] = g[n]}
<1>8. Nat \subseteq S
  <2>1. 0 \in S
    BY <1>1, <1>4, <1>7
  <2>2. ASSUME NEW n \in Nat, n \in S PROVE n + 1 \in S
    <3>1. SUFFICES ASSUME n + 1 <= NumLeds PROVE Spot[n + 1] = g[n + 1]
      OBVIOUS
    <3>2. n + 1 \in 1..NumLeds /\ n + 1 - 1 = n /\ n + 1 # 0 /\ n + 1 \in 0..NumLeds /\ n <= NumLeds
      BY <1>1, <3>1
    <3>3. Spot[n + 1] = next(Spot[n]) /\ g[n + 1] = next(g[n])
      BY <1>5, <1>7, <3>2
    <3>4. Spot[n] = g[n]
      BY <2>2, <3>2
    <3> QED  BY <3>3, <3>4
  <2> HIDE DEF S
  <2> QED  BY <2>1, <2>2, SetInduction
<1>9. i \in Nat /\ i <= NumLeds
  BY <1>1
<1>10. Spot[i] = g[i]
  BY <1>8, <1>9
<1> QED  BY <1>10 DEF g

(* Every box begins at the left, or ends inside the window.                *)
LEMMA SpotBounds ==
  ASSUME cols \in Nat, NEW i \in 0..NumLeds
  PROVE  /\ Spot[i][1] \in Nat /\ Spot[i][2] \in Nat
         /\ Spot[i][2] = 0 \/ Spot[i][2] + Pitch <= cols
         /\ Spot[0] = <<1, 0>>
<1>1. /\ NumLeds \in Nat /\ i \in Nat /\ InRow \in Nat \ {0} /\ Pitch \in Nat \ {0}
      /\ \A k \in Nat : Pitch * k \in Nat /\ Pitch * (k + 1) = Pitch * k + Pitch
      /\ Pitch * 0 = 0
  BY OpcParameters, RowFits
<1>2. PICK q \in Nat, r \in 0..InRow - 1 : q = i \div InRow /\ r = i % InRow
  BY <1>1, NextQuotient
<1>3. Spot[i] = <<1 + BoxHeight * q, Pitch * r>>
  BY <1>2, SpotClosed
<1>4. 1 + BoxHeight * q \in Nat /\ Pitch * r \in Nat
  BY <1>1 DEF BoxHeight
<1>5. r = 0 \/ Pitch * r + Pitch <= cols
  <2>1. CASE r # 0
    <3>1. r - 1 \in Nat /\ r - 1 + 1 = r /\ r < InRow
      BY <1>1, <2>1
    <3>2. Pitch * (r - 1 + 1) + Pitch <= cols
      BY <3>1, RowFits
    <3> QED  BY <3>1, <3>2
  <2> QED  BY <2>1
<1>6. Spot[0] = <<1, 0>>
  <2>1. 0 \in 0..NumLeds /\ 0 \div InRow = 0 /\ 0 % InRow = 0
    BY <1>1, NextQuotient
  <2>2. Spot[0] = <<1 + BoxHeight * (0 \div InRow), Pitch * (0 % InRow)>>
    BY <2>1, SpotClosed
  <2> QED  BY <1>1, <2>1, <2>2 DEF BoxHeight
<1> QED  BY <1>1, <1>3, <1>4, <1>5, <1>6

LEMMA PaintSucceeds ==
  ASSUME NavTypeOK, PaintFails
  PROVE  lines < BoxHeight + 1 \/ cols < 45 \/ NumLeds > 100 \/ Kerning = 0
<1>1. SUFFICES ASSUME lines >= 6, cols >= 45, NumLeds <= 100, Kerning >= 1
               PROVE  FALSE
  BY OpcParameters, NavigatorParameters DEF NavTypeOK, BoxHeight
<1>2. /\ lines \in Nat /\ cols \in Nat /\ NumLeds \in Nat /\ Pitch \in Nat /\ Pitch >= 7
      /\ BoxHeight = 5 /\ BoxWidth = 6
  BY <1>1, OpcParameters, NavigatorParameters DEF NavTypeOK, Pitch, BoxWidth, BoxHeight
<1>3. ASSUME NEW i \in Drawn PROVE ~ BoxFails(i)
  <2>1. i \in 0..NumLeds - 1 /\ \A j \in 1..i : LinesLeft(j)
    BY DEF Drawn, Leds
  <2>2. /\ Spot[i][1] \in Nat /\ Spot[i][2] \in Nat
        /\ Spot[i][2] = 0 \/ Spot[i][2] + Pitch <= cols
    BY <1>2, <2>1, SpotBounds
  <2>3. Spot[i][1] + 5 <= lines
    <3>1. CASE i = 0
      BY <1>1, <1>2, <2>1, <3>1, SpotBounds
    <3>2. CASE i # 0
      BY <1>2, <2>1, <3>2 DEF LinesLeft
    <3> QED  BY <3>1, <3>2
  <2> QED  BY <1>1, <1>2, <2>1, <2>2, <2>3 DEF BoxFails
<1>4. \A left : WarningLength(left) \in 41..44
  BY DEF WarningLength
<1>5. WarningLength(NumLeds - Cardinality(Drawn)) \in 41..44
  BY <1>4
<1>6. cols - 1 < WarningLength(NumLeds - Cardinality(Drawn))
  BY <1>3 DEF PaintFails
<1> QED  BY <1>1, <1>2, <1>5, <1>6

LEMMA DrawInv == ASSUME NavInv, Draw PROVE NavInv'
<1>0. /\ OpcInv /\ NavTypeOK /\ NavCallInv /\ navpc = "draw" /\ UNCHANGED opcVars
      /\ navpc' = IF PaintFails THEN "crash" ELSE "getkey"
      /\ UNCHANGED <<dryrun, sizes, leds, box_index, box_color, lines, cols, boxes_per_row>>
  BY DEF NavInv, Draw
<1>1. OpcInv' /\ OpcTypeOK
  BY <1>0, OpcUnchangedInv DEF OpcInv
<1>2. NavTypeOK' /\ NavCallInv'
  BY <1>0 DEF NavTypeOK, NavCallInv, opcVars
<1>3. LedsFollowCursor'
  BY <1>0 DEF NavInv, LedsFollowCursor
<1>4. CrashesExplained'
  BY <1>0, PaintSucceeds DEF CrashesExplained
<1>5. ShowInv'
  <2>1. SUFFICES ASSUME Showing' PROVE Shown'
    BY DEF ShowInv
  <2>2. Showing /\ conns # <<>>
    BY <1>0, <2>1 DEF Showing, MsgLen, opcVars
  <2>3. Stream(Len(conns))' = Stream(Len(conns)) /\ Shown /\ strip' = strip
    BY <1>0, <2>2 DEF NavInv, ShowInv, Stream, opcVars
  <2> QED  BY <1>0, <1>1, <2>2, <2>3, ShownDepends
<1> QED  BY <1>1, <1>2, <1>3, <1>4, <1>5 DEF NavInv

LEMMA NavStepInv ==
  NavInv /\ [NavNext \/ ((OpcCall \/ OpcServer) /\ UNCHANGED navVars)]_<<navVars, opcVars>>
    => NavInv'
<1> SUFFICES ASSUME NavInv,
                    NavNext \/ ((OpcCall \/ OpcServer) /\ UNCHANGED navVars)
                      \/ UNCHANGED <<navVars, opcVars>>
             PROVE  NavInv'
  OBVIOUS
<1>1. CASE UNCHANGED <<navVars, opcVars>>
  <2>1. OpcInv' /\ NavTypeOK' /\ NavCallInv'
    BY <1>1, OpcUnchangedInv DEF NavInv, navVars, opcVars, NavTypeOK, NavCallInv, Frame
  <2>2. LedsFollowCursor' /\ CrashesExplained'
    BY <1>1 DEF NavInv, LedsFollowCursor, CrashesExplained, navVars, opcVars
  <2>3. ShowInv'
    BY <1>1 DEF NavInv, ShowInv, Showing, Shown, Stream, MsgLen, navVars, opcVars
  <2> QED  BY <2>1, <2>2, <2>3 DEF NavInv
<1>2. CASE (OpcCall \/ OpcServer) /\ UNCHANGED navVars
  BY <1>2, NavOpcInv
<1>3. CASE NavNext
  BY <1>3, StartConnectsInv, StartInv, UpdateOpcInv, UpdatedInv, DrawInv, KeysInv,
     InterruptInv, SocketClosesInv
  DEF NavNext
<1> QED  BY <1>1, <1>2, <1>3

LEMMA NavAlwaysInv == NavSpec => []NavInv
BY NavInitInv, NavStepInv, PTL DEF NavSpec

-----------------------------------------------------------------------------
(* The program ends with an error only in a window that is too small, with *)
(* more LEDs than two digits number, with boxes that touch, or because the *)
(* connection is lost.                                                     *)
THEOREM NavigatorCrashes == NavSpec => []CrashesExplained
BY NavAlwaysInv, PTL DEF NavInv

(* One LED shows the colour, at the cursor, or all of them do.             *)
THEOREM OneLedOrAll == NavSpec => []LedsFollowCursor
BY NavAlwaysInv, PTL DEF NavInv

LEMMA NavInvInStep == NavInv => InStep
BY OpcInvInStep DEF NavInv

(* Under the navigator, too, the server keeps its place.                   *)
THEOREM NavigatorKeepsPlace == NavSpec => []InStep
BY NavAlwaysInv, NavInvInStep, PTL

(* The server has read all that there is, and the connection still is.     *)
AllRead == ~ Lost /\ \A k \in 1..Len(conns) : conns[k].units = <<>>

(* In either mode, whether the connection is open or closed by now: when   *)
(* the kernel has taken the last frame, and no message was cut by another, *)
(* the strip shows that frame as soon as all is read.                      *)
FrameIsShown ==
  /\ navpc \in {"draw", "getkey", "exit"} /\ ~ dryrun
  /\ ~ torn /\ handed = NumLeds + 1 /\ AllRead
  => strip = Frame

(* The safety half of DarkAfterQuit.                                       *)
DarkWhenRead ==
  navpc = "exit" /\ ~ dryrun /\ ~ torn /\ handed = NumLeds + 1 /\ AllRead
    => strip = Dark

LEMMA NavInvShowsFrame == NavInv => FrameIsShown
<1> SUFFICES ASSUME NavInv, navpc \in {"draw", "getkey", "exit"}, ~ dryrun,
                    ~ torn, handed = NumLeds + 1, AllRead
             PROVE  strip = Frame
  BY DEF FrameIsShown
<1>1. NumLeds \in Nat \ {0} /\ conns # <<>> /\ Len(<<>>) = 0
  BY OpcParameters DEF AllRead, Lost
<1>2. /\ Shown /\ EndsWith(Stream(Len(conns)), handed) /\ GotInv
      /\ Len(conns) > 1 => Len(Stream(Len(conns))) >= handed
      /\ OpcTypeOK /\ got \in Seq(Units) /\ strip \in [1..NumLeds -> Colors]
  BY <1>1 DEF NavInv, ShowInv, Showing, OpcInv, OpcTypeOK, StreamInv, MsgLen
<1>3. PICK L \in Nat : L = Len(conns) /\ L >= 1
  BY <1>1, <1>2, ConnsProperties
<1>4. conns[L].units = <<>>
  BY <1>3 DEF AllRead
<1>5. L = 1
  <2>1. ASSUME L > 1 PROVE FALSE
    <3>1. Stream(L) = <<>>
      BY <1>4, <2>1 DEF Stream
    <3> QED  BY <1>1, <1>2, <1>3, <2>1, <3>1
  <2> QED  BY <1>3, <2>1
<1>6. Stream(L) = got
  BY <1>2, <1>4, <1>5, ConcatEmptySeq DEF Stream
<1>7. Len(got) = 0
  BY <1>1, <1>2, <1>3, <1>6 DEF EndsWith, GotInv
<1>8. \A i \in 1..NumLeds : strip[i] = leds[i - 1]
  BY <1>1, <1>2, <1>3, <1>6, <1>7 DEF Shown
<1> QED  BY <1>2, <1>8 DEF Frame

(* Whatever was sent last, by the last update before the exit too, is what *)
(* the strip shows when the server has read everything.                    *)
THEOREM LastFrameIsShown == NavSpec => []FrameIsShown
BY NavAlwaysInv, NavInvShowsFrame, PTL

(* After a quit the strip is dark as soon as the server has read all that  *)
(* the kernel took, in either mode and for any number of LEDs.             *)
THEOREM QuitDarkens == NavSpec => []DarkWhenRead
<1>1. NavInv /\ FrameIsShown => DarkWhenRead
  <2> SUFFICES ASSUME NavInv, navpc = "exit", strip = Frame PROVE strip = Dark
    BY DEF FrameIsShown, DarkWhenRead
  <2>1. leds = AllLeds("off")
    BY DEF NavInv, NavCallInv
  <2>2. \A i \in 1..NumLeds : leds[i - 1] = "off"
    BY <2>1, OpcParameters DEF AllLeds, Leds
  <2> QED  BY <2>2 DEF Frame, Dark
<1> QED  BY <1>1, NavAlwaysInv, LastFrameIsShown, PTL

LEMMA ShownStrip == NavInv => StripFollowsScreen
<1> SUFFICES ASSUME NavInv, navpc = "getkey", ~ dryrun,
                    conns = <<[units |-> <<>>, closed |-> FALSE]>>,
                    ~ torn, handed = NumLeds + 1, NEW i \in Leds
             PROVE  strip[i + 1] = leds[i]
  BY DEF StripFollowsScreen
<1>1. AllRead
  BY DEF AllRead, Lost
<1>2. strip = Frame
  BY <1>1, NavInvShowsFrame DEF FrameIsShown
<1>3. PICK j \in 1..NumLeds : j = i + 1 /\ j - 1 = i
  BY OpcParameters DEF Leds
<1>4. Frame[j] = leds[i]
  BY <1>3 DEF Frame
<1> QED  BY <1>2, <1>3, <1>4

(* Whatever the window, the network and the server do between the keys,    *)
(* when the server has read everything the strip shows the screen.         *)
THEOREM StripShowsScreen == NavSpec => []StripFollowsScreen
BY NavAlwaysInv, ShownStrip, PTL

(* In a window of any size, a key for up or down goes to the box above or  *)
(* below.                                                                  *)
LEMMA RowsAgree == NavInv => UpAndDown
<1> SUFFICES ASSUME NavInv, boxes_per_row # 0, NEW i \in Leds, i + boxes_per_row \in Leds
             PROVE  Spot[i + boxes_per_row] = <<Spot[i][1] + BoxHeight, Spot[i][2]>>
  BY DEF UpAndDown
<1>1. /\ cols \in Nat /\ Pitch \in Nat \ {0} /\ InRow \in Nat \ {0} /\ NumLeds \in Nat
      /\ boxes_per_row = cols \div Pitch
  BY RowFits, OpcParameters DEF NavInv, NavTypeOK
<1>2. boxes_per_row = InRow
  <2>1. CASE cols < Pitch
    <3>1. cols = Pitch * 0 + cols /\ cols \div Pitch = 0
      BY <1>1, <2>1
    <3> QED  BY <1>1, <3>1
  <2>2. CASE ~ (cols < Pitch)
    BY <1>1, <2>2 DEF InRow
  <2> QED  BY <2>1, <2>2
<1>3. i \in Nat /\ i \in 0..NumLeds /\ i + InRow \in 0..NumLeds
  BY <1>1, <1>2 DEF Leds
<1>4. /\ Spot[i] = <<1 + BoxHeight * (i \div InRow), Pitch * (i % InRow)>>
      /\ Spot[i + InRow]
           = <<1 + BoxHeight * ((i + InRow) \div InRow), Pitch * ((i + InRow) % InRow)>>
  BY <1>1, <1>3, SpotClosed
<1>5. /\ (i + InRow) % InRow = i % InRow /\ (i + InRow) \div InRow = i \div InRow + 1
      /\ i \div InRow \in Nat
  BY <1>1, <1>3, NextQuotient
<1>6. 1 + BoxHeight * (i \div InRow + 1) = 1 + BoxHeight * (i \div InRow) + BoxHeight
  BY <1>5 DEF BoxHeight
<1>7. Spot[i + InRow] = <<1 + BoxHeight * (i \div InRow + 1), Pitch * (i % InRow)>>
  BY <1>4, <1>5
<1>8. Spot[i][1] = 1 + BoxHeight * (i \div InRow) /\ Spot[i][2] = Pitch * (i % InRow)
  BY <1>4
<1> QED  BY <1>2, <1>6, <1>7, <1>8

THEOREM UpAndDownAgree == NavSpec => []UpAndDown
BY NavAlwaysInv, RowsAgree, PTL
=============================================================================
