----------------------------- MODULE DeadParent -----------------------------
(***************************************************************************)
(* src/c/dead-parent-hups-child.c: it asks the kernel for SIGHUP when its  *)
(* parent dies, and becomes a program.  The parent may die at any time.    *)
(***************************************************************************)

VARIABLES
  parent,      (* "alive" or "dead"                                        *)
  pdeathsig,   (* whether the kernel is to send the signal                 *)
  hup,         (* what SIGHUP does: "default" or "ignore", both inherited, *)
               (* or "own", what the program has chosen                    *)
  setid,       (* whether the program is set-user-ID or set-group-ID       *)
  dpc,         (* "prctl", "execvp", "program", "exit", or "killed"        *)
  early        (* history: the parent died before prctl                    *)

dpVars == <<parent, pdeathsig, hup, setid, dpc, early>>

DpInit ==
  /\ parent = "alive" /\ pdeathsig = FALSE /\ early = FALSE
  /\ hup \in {"default", "ignore"} /\ setid \in BOOLEAN
  /\ dpc = "prctl"

Running == dpc \notin {"exit", "killed"}

ParentDies ==
  /\ parent = "alive"
  /\ parent' = "dead"
  /\ early' = (dpc = "prctl")
  /\ dpc' = IF pdeathsig /\ hup = "default" /\ Running THEN "killed" ELSE dpc
  /\ UNCHANGED <<pdeathsig, hup, setid>>

(* Mutant of Prctl: the signal is asked for only by the program.           *)
PrctlForgotten ==
  /\ dpc = "prctl"
  /\ dpc' = "execvp"
  /\ UNCHANGED <<parent, pdeathsig, hup, setid, early>>

(* If the parent is dead by now, nothing is sent.                          *)
Prctl ==
  /\ dpc = "prctl"
  /\ pdeathsig' = TRUE
  /\ dpc' = "execvp"
  /\ UNCHANGED <<parent, hup, setid, early>>

(* execve forgets the signal when it changes identities.                   *)
Exec ==
  /\ dpc = "execvp"
  /\ pdeathsig' = (pdeathsig /\ ~ setid)
  /\ dpc' = "program"
  /\ UNCHANGED <<parent, hup, setid, early>>

(* The program may catch, block or ignore SIGHUP.  If it returns to the    *)
(* default, the model does not follow it: it then has more orphans.        *)
ProgramHandles ==
  /\ dpc = "program" /\ hup = "default"
  /\ hup' = "own"
  /\ UNCHANGED <<parent, pdeathsig, setid, dpc, early>>

(* prctl or execvp fails, or the program ends.                             *)
DpEnds ==
  /\ Running
  /\ dpc' = "exit"
  /\ UNCHANGED <<parent, pdeathsig, hup, setid, early>>

DpNext == ParentDies \/ Prctl \/ Exec \/ ProgramHandles \/ DpEnds

DpSpec == DpInit /\ [][DpNext]_dpVars

-----------------------------------------------------------------------------
(* An orphan is left running for four reasons only: its parent died before *)
(* prctl, SIGHUP was ignored by whoever started it, the program is         *)
(* set-user-ID, or it has dealt with SIGHUP in a way of its own.           *)
OrphansExplained ==
  parent = "dead" /\ dpc = "program" => early \/ setid \/ hup \in {"ignore", "own"}
=============================================================================
