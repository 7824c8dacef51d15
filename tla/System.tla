------------------------------- MODULE System -------------------------------
(***************************************************************************)
(* The programs that talk to something that changes under them, for TLC:   *)
(* jupe and its server, iflist and all_if and the kernel's interfaces,     *)
(* setuidgids, dead-parent-hups-child and its parent, processes of solo,   *)
(* the OPC client and its server, alone or under the navigator.  A         *)
(* behaviour is that of one of them; what belongs to the others does not   *)
(* change.                                                                 *)
(***************************************************************************)
EXTENDS Jupe, Ifaces, Setuidgids, DeadParent, Solo, Navigator

VARIABLE program

-----------------------------------------------------------------------------
(* No more will be read of a connection.                                   *)
ReadingEnds == connection = "reset" \/ jpc = "exit" \/ (write = Size /\ jpc # "parse")

(* Whatever is sent, on the first connection or a later one, is read and   *)
(* goes through the parser in the end, unless the connection is reset, the *)
(* program ends, or the buffer is full when the parser is done with it.    *)
(* Nothing else makes the client give up a connection with something in    *)
(* it: what a restart drops does not count as read.                        *)
AllIsRead ==
  /\ incoming # <<>> ~> (incoming = <<>> /\ jpc # "parse") \/ ReadingEnds
  /\ [](incoming # <<>> /\ jpc = "restart" => ReadingEnds)

-----------------------------------------------------------------------------
(* The instance: values that a configuration file cannot write.            *)

InstNames == <<"eth0", "tap0", "eth0:1">>
InstBase == [n \in {"eth0", "tap0", "eth0:1"} |-> IF n = "eth0:1" THEN "eth0" ELSE n]
InstPasswd ==
  [n \in {"root", "mct"} |->
     IF n = "root" THEN [uid |-> 0, gid |-> 0, groups |-> {0}]
                   ELSE [uid |-> 1, gid |-> 1, groups |-> {2}]]
InstWindows ==
  {<<5, 45>>, <<6, 45>>, <<11, 45>>, <<6, 53>>, <<6, 27>>, <<16, 27>>, <<16, 17>>, <<11, 6>>}

-----------------------------------------------------------------------------
JupeOff ==
  /\ incoming = <<>> /\ connection = "closed" /\ buffer = <<>> /\ read = 0 /\ jpc = "exit"
  /\ restarts = 0 /\ received = <<>> /\ handled = <<>> /\ replies = 0
IfOff ==
  /\ ifs = <<>> /\ changes = 0 /\ steady = {} /\ prog = "off" /\ ipc = "off"
  /\ numreqs = 0 /\ list = <<>> /\ src = "none" /\ dev = "NULL" /\ shown = {} /\ rv = TRUE
SuOff == account = "unknown" /\ uids = All(0) /\ gids = All(0) /\ groups = {} /\ spc = "exit"
DpOff ==
  /\ parent = "alive" /\ pdeathsig = FALSE /\ hup = "default" /\ setid = FALSE
  /\ dpc = "exit" /\ early = FALSE
SoloOff ==
  /\ uid = [p \in Procs |-> 0] /\ port = [p \in Procs |-> 0]
  /\ pc = [p \in Procs |-> "exit"] /\ socket = [p \in Procs |-> Unbound]
  /\ left = [p \in Procs |-> FALSE]
NavOff ==
  /\ dryrun = TRUE /\ sizes = Windows /\ leds = AllLeds("off") /\ box_index = 0 /\ box_color = "off"
  /\ lines = 0 /\ cols = 0 /\ boxes_per_row = 0 /\ navpc = "exit"
OpcOff == OpcInit /\ long = TRUE

Init ==
  \/ program = "jupe" /\ JupeInit /\ IfOff /\ SuOff /\ DpOff /\ SoloOff /\ OpcOff /\ NavOff
  \/ program = "if"   /\ JupeOff /\ IfInit /\ SuOff /\ DpOff /\ SoloOff /\ OpcOff /\ NavOff
  \/ program = "su"   /\ JupeOff /\ IfOff /\ SuInit /\ DpOff /\ SoloOff /\ OpcOff /\ NavOff
  \/ program = "dp"   /\ JupeOff /\ IfOff /\ SuOff /\ DpInit /\ SoloOff /\ OpcOff /\ NavOff
  \/ program = "solo" /\ JupeOff /\ IfOff /\ SuOff /\ DpOff /\ SoloInit /\ OpcOff /\ NavOff
  \/ program = "opc"  /\ JupeOff /\ IfOff /\ SuOff /\ DpOff /\ SoloOff /\ OpcInit /\ NavOff
  \/ program = "nav"  /\ JupeOff /\ IfOff /\ SuOff /\ DpOff /\ SoloOff /\ OpcOff /\ NavInit
                       /\ sizes = IF dryrun THEN Windows ELSE {<<11, 45>>}

offNav == <<opcVars, navVars>>
rest == <<ifVars, suVars, dpVars, soloVars>>

JupeStep == program = "jupe" /\ JupeNext /\ UNCHANGED <<program, rest, offNav>>
IfStep ==
  program = "if" /\ IfNext /\ UNCHANGED <<program, jupeVars, suVars, dpVars, soloVars, offNav>>
SuStep ==
  program = "su" /\ SuNext /\ UNCHANGED <<program, jupeVars, ifVars, dpVars, soloVars, offNav>>
DpStep ==
  program = "dp" /\ DpNext /\ UNCHANGED <<program, jupeVars, ifVars, suVars, soloVars, offNav>>
SoloStep ==
  program = "solo" /\ SoloNext /\ UNCHANGED <<program, jupeVars, ifVars, suVars, dpVars, offNav>>
OpcStep ==
  /\ program \in {"opc", "nav"}
  /\ (program = "opc" /\ Loop) \/ OpcCall \/ OpcServer
  /\ UNCHANGED <<program, jupeVars, rest, navVars>>
NavStep == program = "nav" /\ NavNext /\ UNCHANGED <<program, jupeVars, rest>>

Next == JupeStep \/ IfStep \/ SuStep \/ DpStep \/ SoloStep \/ OpcStep \/ NavStep

vars == <<program, jupeVars, rest, offNav>>

(* jupe runs whenever select lets it; a server that is up reads what there *)
(* is.  Nothing else is assumed to go on.                                  *)
Fairness ==
  /\ WF_vars(program = "jupe" /\ Client /\ UNCHANGED <<program, rest, offNav>>)
  /\ WF_vars((ServerReads \/ ServerEnds) /\ UNCHANGED <<program, jupeVars, rest, navVars>>)

Spec == Init /\ [][Next]_vars /\ Fairness
=============================================================================
