-------------------------------- MODULE Jupe --------------------------------
(***************************************************************************)
(* src/c/jupe.c: a client that reads lines from a server through a buffer  *)
(* of Size characters, and connects again when the connection ends.  Of a  *)
(* line only its characters matter; "eol" is a \r or a \n, and a line that *)
(* begins with "ping" is a PING.                                           *)
(***************************************************************************)
EXTENDS Integers, Sequences

CONSTANTS Size,          (* MYBUFSIZE                                      *)
          Chars,         (* what a server may send                         *)
          MaxSent,       (* characters the servers send in all             *)
          MaxRestarts    (* runs of fatalrestart; each nests another       *)
                         (* run_client and is never left again             *)

ASSUME JupeParameters ==
  /\ Size \in Nat \ {0} /\ MaxSent \in Nat /\ MaxRestarts \in Nat
  /\ "eol" \in Chars

VARIABLES
  incoming,   (* sent by the server and not yet read                       *)
  connection, (* "open", "closed" by the server, or "reset"                *)
  buffer,     (* the first write characters of robot.buffer                *)
  read,       (* robot.read                                                *)
  jpc,        (* "select", "parse", "restart", or "exit"                   *)
  restarts,
  received,   (* history: everything that read has returned                *)
  handled,    (* history: the lines given to parse_line                    *)
  replies     (* what was written in answer to PINGs: each time the first  *)
              (* character of the line, since toparse[1] is cleared        *)

server == <<incoming, connection>>
history == <<received, handled>>
jupeVars == <<server, buffer, read, jpc, restarts, history, replies>>

write == Len(buffer)

JupeInit ==
  /\ incoming = <<>> /\ connection = "open"
  /\ buffer = <<>> /\ read = 0
  /\ jpc = "select" /\ restarts = 0
  /\ received = <<>> /\ handled = <<>> /\ replies = 0

-----------------------------------------------------------------------------
(* The server, and the network.                                            *)

ServerSends ==
  /\ connection = "open" /\ Len(received) + Len(incoming) < MaxSent
  /\ \E c \in Chars : incoming' = Append(incoming, c)
  /\ UNCHANGED <<connection, buffer, read, jpc, restarts, history, replies>>

ServerCloses ==
  /\ connection = "open"
  /\ connection' \in {"closed", "reset"}
  /\ UNCHANGED <<incoming, buffer, read, jpc, restarts, history, replies>>

-----------------------------------------------------------------------------
(* Mutant of ReadSome: the buffer's last byte is given away, too.          *)
ReadSomeMore ==
  /\ jpc = "select"
  /\ \E n \in 1..Len(incoming) :
       /\ n <= Size + 1 - write
       /\ buffer' = buffer \o SubSeq(incoming, 1, n)
       /\ received' = received \o SubSeq(incoming, 1, n)
       /\ incoming' = SubSeq(incoming, n + 1, Len(incoming))
  /\ jpc' = "parse"
  /\ UNCHANGED <<connection, read, restarts, handled, replies>>

(* select, and a read of up to Size - write characters that returns some.  *)
ReadSome ==
  /\ jpc = "select"
  /\ \E n \in 1..Len(incoming) :
       /\ n <= Size - write
       /\ buffer' = buffer \o SubSeq(incoming, 1, n)
       /\ received' = received \o SubSeq(incoming, 1, n)
       /\ incoming' = SubSeq(incoming, n + 1, Len(incoming))
  /\ jpc' = "parse"
  /\ UNCHANGED <<connection, read, restarts, handled, replies>>

(* The read returns 0: the connection was closed, or the buffer is full    *)
(* and nothing was asked for; select has said that there is something.     *)
ReadNothing ==
  /\ jpc = "select"
  /\ \/ incoming = <<>> /\ connection = "closed"
     \/ write = Size /\ (incoming # <<>> \/ connection # "open")
  /\ jpc' = "restart"
  /\ UNCHANGED <<server, buffer, read, restarts, history, replies>>

(* The read fails: the connection was reset, and what was in it is lost.   *)
(* (The kernel may give some of that away before.)                         *)
ReadFails ==
  /\ jpc = "select" /\ connection = "reset"
  /\ jpc' = "restart"
  /\ UNCHANGED <<server, buffer, read, restarts, history, replies>>

(* A new connection, or the end of the program.                            *)
CreateClient ==
  \/ jpc' = "select" /\ connection' = "open"
  \/ jpc' = "exit" /\ UNCHANGED connection

(* Mutant of Restart: what was read of the line is forgotten.              *)
RestartDropsPart ==
  /\ jpc = "restart" /\ restarts < MaxRestarts
  /\ restarts' = restarts + 1
  /\ CreateClient
  /\ incoming' = <<>>
  /\ buffer' = <<>>
  /\ UNCHANGED <<read, history, replies>>

(* fatalrestart: the connection is closed, and initialize makes a new one; *)
(* read and write stay as they are.                                        *)
Restart ==
  /\ jpc = "restart" /\ restarts < MaxRestarts
  /\ restarts' = restarts + 1
  /\ CreateClient
  /\ incoming' = <<>>
  /\ UNCHANGED <<buffer, read, history, replies>>

-----------------------------------------------------------------------------
(* parse_data, and the calls of itself it makes                            *)

Eol(k) == buffer[k] = "eol"

SkipEol ==
  /\ jpc = "parse" /\ read < write /\ Eol(read + 1)
  /\ read' = read + 1
  /\ UNCHANGED <<server, buffer, jpc, restarts, history, replies>>

IsPing(line) == line[1] = "ping"

(* A line that is complete goes to parse_line; next is behind its end.     *)
ParseLine ==
  /\ jpc = "parse" /\ read < write /\ ~ Eol(read + 1)
  /\ \E next \in read+2..write :
       /\ Eol(next) /\ \A k \in read+1..next-1 : ~ Eol(k)
       /\ LET line == SubSeq(buffer, read + 1, next - 1)
          IN  /\ handled' = Append(handled, line)
              /\ replies' = replies + (IF IsPing(line) THEN 1 ELSE 0)
       /\ read' = next
  /\ UNCHANGED <<server, buffer, jpc, restarts, received>>

(* Mutant of ParseRest: the rest is moved without its first character.     *)
ParseRestLate ==
  /\ jpc = "parse" /\ \A k \in read+1..write : ~ Eol(k)
  /\ buffer' = SubSeq(buffer, read + 2, write)
  /\ read' = 0
  /\ jpc' = "select"
  /\ UNCHANGED <<server, restarts, history, replies>>

(* Mutant of ParseRest: it comes back only if there is a rest.             *)
ParseRestNonempty ==
  /\ jpc = "parse" /\ read < write /\ \A k \in read+1..write : ~ Eol(k)
  /\ buffer' = SubSeq(buffer, read + 1, write)
  /\ read' = 0
  /\ jpc' = "select"
  /\ UNCHANGED <<server, restarts, history, replies>>

(* The innermost call moves the rest to the front; the calls around it     *)
(* then find nothing left to move.                                         *)
ParseRest ==
  /\ jpc = "parse" /\ \A k \in read+1..write : ~ Eol(k)
  /\ buffer' = SubSeq(buffer, read + 1, write)
  /\ read' = 0
  /\ jpc' = "select"
  /\ UNCHANGED <<server, restarts, history, replies>>

(* SIGTERM, or SIGPIPE when a reply is written to a closed connection.     *)
Terminate ==
  /\ jpc # "exit"
  /\ jpc' = "exit"
  /\ UNCHANGED <<server, buffer, read, restarts, history, replies>>

Client ==
  ReadSome \/ ReadNothing \/ ReadFails \/ Restart \/ SkipEol \/ ParseLine \/ ParseRest
JupeNext == ServerSends \/ ServerCloses \/ Client \/ Terminate

JupeSpec == JupeInit /\ [][JupeNext]_jupeVars

-----------------------------------------------------------------------------
JupeTypeOK ==
  /\ incoming \in Seq(Chars) /\ buffer \in Seq(Chars) /\ received \in Seq(Chars)
  /\ connection \in {"open", "closed", "reset"}
  /\ jpc \in {"select", "parse", "restart", "exit"}
  /\ restarts \in 0..MaxRestarts /\ replies \in Nat
  /\ read \in 0..write

(* Read and write stay inside the buffer, and parse_data leaves no line    *)
(* end behind: what waits for more is a part of one line.                  *)
WithinBuffer ==
  /\ 0 <= read /\ read <= write /\ write <= Size
  /\ jpc \in {"select", "restart"} =>
       read = 0 /\ \A k \in 1..write : buffer[k] # "eol"

(* The lines in a stream of characters, and what is behind the last: a     *)
(* reference, which knows neither reads nor buffers.  Split(stream)[n] is  *)
(* what there is in the first n characters.                                *)
NothingYet == [lines |-> <<>>, rest |-> <<>>]

AddChar(acc, c) ==
  IF c # "eol" THEN [acc EXCEPT !.rest = Append(@, c)]
  ELSE IF acc.rest = <<>> THEN acc
  ELSE [lines |-> Append(acc.lines, acc.rest), rest |-> <<>>]

Split(stream) ==
  LET first[n \in 0..Len(stream)] ==
        IF n = 0 THEN NothingYet ELSE AddChar(first[n - 1], stream[n])
  IN  first

(* However the stream is cut into reads, each line of it is handled once,  *)
(* whole, and in order, and the rest is kept.  The stream is that of all   *)
(* connections: the end of one does not end a line.                        *)
LinesOfStream ==
  jpc = "select" =>
    Split(received)[Len(received)] = [lines |-> handled, rest |-> buffer]

(* A line that does not fit is for ever: what is in a full buffer is never *)
(* handled, and nothing is read any more, however often the client         *)
(* connects again.                                                         *)
FullBufferIsTheEnd ==
  [][write = Size /\ jpc # "parse" =>
       UNCHANGED <<buffer, handled, received>>]_jupeVars
=============================================================================
