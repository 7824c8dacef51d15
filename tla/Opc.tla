--------------------------------- MODULE Opc ---------------------------------
(***************************************************************************)
(* src/opc/opc.py: a client that sends frames of pixels to an Open Pixel   *)
(* Control server, over one long connection or a short one for each frame. *)
(* A message is a header and one unit for each pixel.  The server and the  *)
(* network are external: a connection takes Room units that the server has *)
(* not read, and the server serves one connection after the other.         *)
(***************************************************************************)
EXTENDS Integers, Sequences

CONSTANTS NumLeds, Colors, Room,
          Backlog,      (* connections the server lets wait                *)
          MaxBreaks     (* how often the server goes away                  *)

ASSUME OpcParameters ==
  /\ NumLeds \in Nat \ {0} /\ Room \in Nat \ {0}
  /\ Backlog \in Nat \ {0} /\ MaxBreaks \in Nat
  /\ "off" \in Colors /\ "header" \notin Colors

VARIABLES
  long,       (* _long_connection                                          *)
  sock,       (* whether _socket is not None                               *)
  call,       (* the running method: "put_pixels" or "can_connect"         *)
  opcpc,      (* what comes next in it, or "idle", or "returned"           *)
  message,    (* of put_pixels, until it is sent                           *)
  ret,        (* what the last call returned                               *)
  handed,     (* history: the units of the last message the kernel took    *)
  torn,       (* history: a message that was cut was followed by another   *)
  conns,      (* the connections the server has not finished with: the     *)
              (* units it has not read, and whether there will be no more  *)
  up,         (* whether there is a server                                 *)
  got,        (* the units of the message it is reading                    *)
  outofstep,  (* whether it took a pixel for a header, or the reverse      *)
  strip,      (* what the LEDs show                                        *)
  breaks

client == <<sock, call, opcpc, message, ret, handed, torn>>
opcServer == <<up, got, outofstep, strip, breaks>>
opcVars == <<long, client, conns, opcServer>>

(* The frames that are sent when nobody steers: all LEDs alike.            *)
Frames == {[i \in 1..NumLeds |-> c] : c \in Colors}
Dark == [i \in 1..NumLeds |-> "off"]

OpcInit ==
  /\ long \in BOOLEAN /\ sock = FALSE
  /\ call = "can_connect" /\ opcpc = "idle" /\ message = <<>>
  /\ ret = TRUE /\ handed = 0 /\ torn = FALSE
  /\ conns = <<>> /\ up = TRUE
  /\ got = <<>> /\ outofstep = FALSE /\ strip = Dark /\ breaks = 0

-----------------------------------------------------------------------------
(* The client.  A method begins by connecting, unless it is connected.     *)

Begin(method) ==
  /\ opcpc \in {"idle", "returned"}
  /\ opcpc' = "connect" /\ call' = method

CanConnect ==
  /\ Begin("can_connect")
  /\ UNCHANGED <<long, sock, message, ret, handed, torn, conns, opcServer>>

(* The values of the pixels, clamped to a byte, are those of the frame.    *)
PutPixels(frame) ==
  /\ Begin("put_pixels")
  /\ message' = <<"header">> \o frame
  /\ UNCHANGED <<long, sock, ret, handed, torn, conns, opcServer>>

(* can_connect gives up its connection in short mode.                      *)
AfterConnect(success) ==
  /\ ret' = success
  /\ message' = IF success THEN message ELSE <<>>
  /\ opcpc' = CASE call = "put_pixels" /\ success -> "send"
                [] call = "can_connect" /\ ~ long -> "disconnect"
                [] OTHER -> "returned"

Connected ==
  /\ opcpc = "connect" /\ sock
  /\ AfterConnect(TRUE)
  /\ UNCHANGED <<long, sock, call, handed, torn, conns, opcServer>>

Connect ==
  /\ opcpc = "connect" /\ ~ sock
  /\ up /\ Len(conns) <= Backlog
  /\ sock' = TRUE
  /\ conns' = Append(conns, [units |-> <<>>, closed |-> FALSE])
  /\ handed' = 0
  /\ AfterConnect(TRUE)
  /\ UNCHANGED <<long, call, torn, opcServer>>

(* Refused, or not answered within a second.                               *)
ConnectFails ==
  /\ opcpc = "connect" /\ ~ sock
  /\ AfterConnect(FALSE)
  /\ UNCHANGED <<long, sock, call, handed, torn, conns, opcServer>>

-----------------------------------------------------------------------------
(* The end of the client's connection, if the server still has it.         *)

Own == Len(conns)
Lost == conns = <<>>
Close(c) == IF Lost THEN c ELSE [c EXCEPT ![Own].closed = TRUE]
Space == IF Lost THEN Room ELSE Room - Len(conns[Own].units)

(* send takes what there is room for; into a connection that is lost, but  *)
(* not yet known to be, it takes everything.                               *)
Send ==
  /\ opcpc = "send" /\ Space > 0
  /\ handed' = IF Len(message) <= Space THEN Len(message) ELSE Space
  /\ torn' = (torn \/ handed \in 1..Len(message)-1)
  /\ conns' = IF Lost THEN conns
              ELSE [conns EXCEPT ![Own].units = @ \o SubSeq(message, 1, handed')]
  /\ IF long THEN opcpc' = "returned" /\ ret' = TRUE
             ELSE opcpc' = "disconnect" /\ UNCHANGED ret
  /\ message' = <<>>
  /\ UNCHANGED <<long, sock, call, opcServer>>

(* The connection is found lost, or there is no room for a second.  The    *)
(* socket is closed when the last reference to it goes.                    *)
SendFails ==
  /\ opcpc = "send" /\ (Lost \/ Space < Len(message))
  /\ sock' = FALSE /\ conns' = Close(conns)
  /\ opcpc' = "returned" /\ ret' = FALSE /\ message' = <<>>
  /\ UNCHANGED <<long, call, handed, torn, opcServer>>

(* Mutant of Disconnect: in short mode, too, the connection is kept.       *)
DisconnectNever ==
  /\ opcpc = "disconnect"
  /\ opcpc' = "returned"
  /\ UNCHANGED <<long, sock, call, message, ret, handed, torn, conns, opcServer>>

Disconnect ==
  /\ opcpc = "disconnect"
  /\ IF sock THEN sock' = FALSE /\ conns' = Close(conns) ELSE UNCHANGED <<sock, conns>>
  /\ opcpc' = "returned"
  /\ UNCHANGED <<long, call, message, ret, handed, torn, opcServer>>

-----------------------------------------------------------------------------
(* The server                                                              *)

InPlace(unit) == (unit = "header") <=> (got = <<>>)

ServerReads ==
  /\ conns # <<>> /\ conns[1].units # <<>>
  /\ conns' = [conns EXCEPT ![1].units = Tail(@)]
  /\ LET unit == Head(conns[1].units)
         next == Append(got, unit)
     IN  IF outofstep \/ ~ InPlace(unit)
           THEN outofstep' = TRUE /\ got' = <<>> /\ UNCHANGED strip
         ELSE IF Len(next) = NumLeds + 1
           THEN strip' = Tail(next) /\ got' = <<>> /\ UNCHANGED outofstep
         ELSE got' = next /\ UNCHANGED <<strip, outofstep>>
  /\ UNCHANGED <<long, client, up, breaks>>

(* The end of a connection puts the server back into step.                 *)
ServerEnds ==
  /\ conns # <<>> /\ conns[1] = [units |-> <<>>, closed |-> TRUE]
  /\ conns' = Tail(conns)
  /\ got' = <<>> /\ outofstep' = FALSE
  /\ UNCHANGED <<long, client, up, strip, breaks>>

ServerGoes ==
  /\ up /\ breaks < MaxBreaks
  /\ up' = FALSE /\ breaks' = breaks + 1
  /\ conns' = <<>> /\ got' = <<>> /\ outofstep' = FALSE
  /\ UNCHANGED <<long, client, strip>>

ServerComes ==
  /\ ~ up
  /\ up' = TRUE
  /\ UNCHANGED <<long, client, conns, got, outofstep, strip, breaks>>

OpcCall == Connected \/ Connect \/ ConnectFails \/ Send \/ SendFails \/ Disconnect
OpcServer == ServerReads \/ ServerEnds \/ ServerGoes \/ ServerComes

(* A caller as the documentation recommends: it tests the connection, and  *)
(* then sends frame after frame, whatever is returned.                     *)
Loop == CanConnect \/ \E frame \in Frames : PutPixels(frame)

OpcNext == Loop \/ OpcCall \/ OpcServer
OpcSpec == OpcInit /\ [][OpcNext]_opcVars

-----------------------------------------------------------------------------
(* In short mode a message that was cut costs one frame and no more; in    *)
(* long mode the server loses its place only through such a message.       *)
InStep == outofstep => long /\ torn

(* What put_pixels says, "On successful transmission of pixels, return     *)
(* True": when it returns True, the kernel has taken the whole message.    *)
TrueMeansSent ==
  opcpc = "returned" /\ call = "put_pixels" /\ ret => handed = NumLeds + 1
=============================================================================
