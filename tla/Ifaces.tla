------------------------------- MODULE Ifaces -------------------------------
(***************************************************************************)
(* src/c/iflist.c and src/c/all_if.c: two programs that ask the kernel for *)
(* the list of its interfaces, with a buffer that grows until the list     *)
(* does not fill it, and then for the flags and the address of each.  An   *)
(* interface may change between any two of these calls.                    *)
(***************************************************************************)
EXTENDS Integers, Sequences

CONSTANTS Names,        (* the names, in the order the kernel lists them   *)
          Base,         (* of each, what is in front of its colon          *)
          Inet,         (* those whose address is of family AF_INET        *)
          Addresses,
          BlockSize,    (* of all_if: 1024; iflist begins with 4096        *)
          MaxSize,      (* maxReqsBlockSize                                *)
          MaxChanges

NameSet == {Names[k] : k \in DOMAIN Names}

ASSUME IfParameters ==
  /\ Names \in Seq(NameSet)
  /\ BlockSize \in Nat /\ MaxSize \in Nat /\ MaxChanges \in Nat
  /\ \A n \in NameSet : Base[n] # "NULL"

VARIABLES
  ifs,       (* the interfaces: whether each is here and up, its address   *)
  changes,   (* how often they have changed                                *)
  steady,    (* history: the interfaces that have not                      *)
  prog,      (* "iflist" or "all_if"                                       *)
  ipc,       (* its next call, or "done" or "exit"                         *)
  numreqs,
  list,      (* the names in ifc_req that have not been looked at          *)
  src,       (* what findsrc returned                                      *)
  dev,       (* ret of finddev                                             *)
  shown,     (* the names all_if has printed                               *)
  rv         (* of enumerate_interfaces                                    *)

kernel == <<ifs, changes, steady>>
ifVars == <<kernel, prog, ipc, numreqs, list, src, dev, shown, rv>>

Interface == [here : BOOLEAN, up : BOOLEAN, address : Addresses]

IfInit ==
  /\ ifs \in [NameSet -> Interface]
  /\ changes = 0 /\ steady = NameSet
  /\ prog \in {"iflist", "all_if"}
  /\ ipc = IF prog = "iflist" THEN "findsrc" ELSE "conf"
  /\ numreqs = BlockSize /\ list = <<>>
  /\ src = "none" /\ dev = "NULL" /\ shown = {} /\ rv = TRUE

Change ==
  /\ changes < MaxChanges /\ ipc \notin {"done", "exit"}
  /\ changes' = changes + 1
  /\ \E n \in NameSet, i \in Interface :
       ifs' = [ifs EXCEPT ![n] = i] /\ steady' = steady \ {n}
  /\ UNCHANGED <<prog, ipc, numreqs, list, src, dev, shown, rv>>

Reaches(n) == ifs[n].here /\ ifs[n].up

(* A datagram socket is connected; its address is that of the interface    *)
(* the kernel would use.                                                   *)
FindSrc ==
  /\ ipc = "findsrc"
  /\ \/ \E n \in Inet : Reaches(n) /\ src' = ifs[n].address /\ ipc' = "conf"
     \/ (\A n \in Inet : ~ Reaches(n)) /\ ipc' = "exit" /\ UNCHANGED src
  /\ UNCHANGED <<kernel, prog, numreqs, list, dev, shown, rv>>

-----------------------------------------------------------------------------
(* SIOCGIFCONF goes through the interfaces, and fills the buffer as far as *)
(* it goes.                                                                *)

Present ==
  LET upto[k \in 0..Len(Names)] ==
        IF k = 0 THEN <<>>
        ELSE IF ifs[Names[k]].here THEN Append(upto[k - 1], Names[k])
        ELSE upto[k - 1]
  IN  upto[Len(Names)]

(* Mutant of Fills: more than there is room for is never returned.         *)
NeverFills == FALSE

Fills == Len(Present) >= numreqs

Grow ==
  /\ ipc = "conf" /\ Fills
  /\ numreqs' = IF prog = "iflist" THEN 2 * numreqs ELSE numreqs + BlockSize
  /\ prog = "all_if" => numreqs' <= MaxSize
  /\ UNCHANGED <<kernel, prog, ipc, list, src, dev, shown, rv>>

(* all_if gives up, but goes on with the buffer it has just freed: it may  *)
(* find there any names, or none that exist, or be stopped for touching it.*)
GiveUp ==
  /\ ipc = "conf" /\ Fills
  /\ prog = "all_if" /\ numreqs + BlockSize > MaxSize
  /\ numreqs' = numreqs + BlockSize
  /\ list' \in [1..numreqs -> NameSet \cup {"garbage"}]
  /\ rv' = FALSE
  /\ ipc' \in {"address", "exit"}
  /\ UNCHANGED <<kernel, prog, src, dev, shown>>

GetList ==
  /\ ipc = "conf" /\ ~ Fills
  /\ list' = SubSeq(Present, 1, IF Len(Present) < numreqs THEN Len(Present) ELSE numreqs)
  /\ ipc' = IF prog = "iflist" THEN "flags" ELSE "address"
  /\ UNCHANGED <<kernel, prog, numreqs, src, dev, shown, rv>>

-----------------------------------------------------------------------------
(* The calls for each name; they end the program if it is gone.            *)

Name == Head(list)
Here == Name \in NameSet /\ ifs[Name].here

NextName(first) == list' = Tail(list) /\ ipc' = first

Gone ==
  /\ ipc \in {"flags", "address"} /\ list # <<>> /\ ~ Here
  /\ prog = "all_if" \/ Name \in Inet
  /\ ipc' = "exit"
  /\ UNCHANGED <<kernel, prog, numreqs, list, src, dev, shown, rv>>

(* iflist: SIOCGIFFLAGS, then SIOCGIFADDR.                                 *)
ListFlags ==
  /\ prog = "iflist" /\ ipc = "flags" /\ list # <<>>
  /\ \/ Name \notin Inet /\ NextName("flags")
     \/ Name \in Inet /\ Here /\ ~ ifs[Name].up /\ NextName("flags")
     \/ Name \in Inet /\ Here /\ ifs[Name].up /\ ipc' = "address" /\ UNCHANGED list
  /\ UNCHANGED <<kernel, prog, numreqs, src, dev, shown, rv>>

(* The last interface with the address is the one that is returned.        *)
ListAddress ==
  /\ prog = "iflist" /\ ipc = "address" /\ Here
  /\ dev' = IF ifs[Name].address = src THEN Base[Name] ELSE dev
  /\ NextName("flags")
  /\ UNCHANGED <<kernel, prog, numreqs, src, shown, rv>>

(* all_if: SIOCGIFADDR, then SIOCGIFFLAGS.  What it learns of the address  *)
(* is only printed.                                                        *)
AllAddress ==
  /\ prog = "all_if" /\ ipc = "address" /\ list # <<>> /\ Here
  /\ IF Name \in Inet THEN ipc' = "flags" /\ UNCHANGED list ELSE NextName("address")
  /\ UNCHANGED <<kernel, prog, numreqs, src, dev, shown, rv>>

(* Mutant of AllFlags: the loop ends with the first interface that is down.*)
AllFlagsBreak ==
  /\ prog = "all_if" /\ ipc = "flags" /\ Here
  /\ IF ifs[Name].up
       THEN shown' = shown \cup {Base[Name]} /\ NextName("address")
       ELSE list' = <<>> /\ ipc' = "address" /\ UNCHANGED shown
  /\ UNCHANGED <<kernel, prog, numreqs, src, dev, rv>>

AllFlags ==
  /\ prog = "all_if" /\ ipc = "flags" /\ Here
  /\ shown' = IF ifs[Name].up THEN shown \cup {Base[Name]} ELSE shown
  /\ NextName("address")
  /\ UNCHANGED <<kernel, prog, numreqs, src, dev, rv>>

(* After giving up, all_if frees the buffer a second time here.            *)
Finish ==
  /\ ipc = (IF prog = "iflist" THEN "flags" ELSE "address") /\ list = <<>>
  /\ ipc' \in IF rv THEN {"done"} ELSE {"done", "exit"}
  /\ UNCHANGED <<kernel, prog, numreqs, list, src, dev, shown, rv>>

(* Any system call may fail, and malloc: the programs end there.           *)
IfFails ==
  /\ ipc \notin {"done", "exit"}
  /\ ipc' = "exit"
  /\ UNCHANGED <<kernel, prog, numreqs, list, src, dev, shown, rv>>

IfNext ==
  \/ Change \/ FindSrc \/ Grow \/ GiveUp \/ GetList \/ Gone \/ IfFails
  \/ ListFlags \/ ListAddress \/ AllAddress \/ AllFlags \/ Finish

IfSpec == IfInit /\ [][IfNext]_ifVars

-----------------------------------------------------------------------------
(* Whatever other interfaces do meanwhile: if the one with the source      *)
(* address is up all the time, iflist finds a device; and a device it      *)
(* finds has that address, unless it was just then being changed.          *)
SteadyDeviceFound ==
  prog = "iflist" /\ ipc = "done" =>
    /\ (\E n \in steady \cap Inet : Reaches(n) /\ ifs[n].address = src) => dev # "NULL"
    /\ dev # "NULL" => \E n \in Inet :
         Base[n] = dev /\ (n \in steady => Reaches(n) /\ ifs[n].address = src)

(* When all_if reports success, it has shown every interface that was up   *)
(* all the time, and none that was down all the time.                      *)
SteadyInterfacesShown ==
  prog = "all_if" /\ ipc = "done" /\ rv =>
    /\ \A n \in steady \cap Inet : Reaches(n) => Base[n] \in shown
    /\ \A b \in shown : \E n \in Inet : Base[n] = b /\ (n \in steady => Reaches(n))
=============================================================================
