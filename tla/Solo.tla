-------------------------------- MODULE Solo --------------------------------
(***************************************************************************)
(* src/bin/solo: a job runs only if its process could bind a port of an    *)
(* address made from the number of the user.  The socket is never closed,  *)
(* so that the job, and what it leaves in the background, keep the port: a *)
(* job that closes descriptors it does not know is outside of the model.   *)
(***************************************************************************)
EXTENDS Integers

CONSTANTS Procs, Uids, Ports

ASSUME SoloParameters == Uids \subseteq Nat /\ Ports \subseteq Nat

VARIABLES
  uid, port,  (* of each process: its user, and the argument of -port      *)
  pc,         (* "bind", "sleep", "job", or "exit"                         *)
  socket,     (* what its socket is bound to                               *)
  left        (* whether its job has left a process in the background      *)

soloVars == <<uid, port, pc, socket, left>>

Unbound == <<0, 0>>

SoloInit ==
  /\ uid \in [Procs -> Uids] /\ port \in [Procs -> Ports]
  /\ pc = [p \in Procs |-> "bind"]
  /\ socket = [p \in Procs |-> Unbound]
  /\ left = [p \in Procs |-> FALSE]

(* Two bytes for the user: pack n keeps what fits.  Root has a number of   *)
(* its own, which is also that of user 64512.                              *)
Address(u) == IF u = 0 THEN 64512 ELSE u % 65536

(* sockaddr_in, too, keeps two bytes; port 0 lets the kernel choose one.   *)
Port16(n) == n % 65536

Chosen(n) == Port16(n) = 0
InUse(p) == \E q \in Procs \ {p} : socket[q] = <<Address(uid[p]), Port16(port[p])>>

(* 0 is false for Perl, and nothing is bound at all; for another number    *)
(* that is 0 in two bytes the kernel finds a port that nobody has.         *)
BindsNothing(p) == port[p] = 0 \/ Chosen(port[p])

(* A port below 1024 may be allowed to a user or not.                      *)
Bind(p) ==
  /\ pc[p] = "bind"
  /\ IF BindsNothing(p) THEN UNCHANGED socket
     ELSE /\ ~ InUse(p)
          /\ socket' = [socket EXCEPT ![p] = <<Address(uid[p]), Port16(port[p])>>]
  /\ pc' = [pc EXCEPT ![p] = "sleep"]
  /\ UNCHANGED <<uid, port, left>>

(* The port is in use, or is not for this user: solo dies.                 *)
BindFails(p) ==
  /\ pc[p] = "bind" /\ port[p] # 0
  /\ ~ Chosen(port[p]) /\ (InUse(p) \/ Port16(port[p]) < 1024)
  /\ pc' = [pc EXCEPT ![p] = "exit"]
  /\ UNCHANGED <<uid, port, socket, left>>

(* Mutant of SoloExec: the socket is closed on exec, as Perl would.        *)
SoloExecCloses(p) ==
  /\ pc[p] = "sleep"
  /\ pc' = [pc EXCEPT ![p] = "job"]
  /\ socket' = [socket EXCEPT ![p] = Unbound]
  /\ UNCHANGED <<uid, port, left>>

(* sleep, and exec with $^F = 10: the socket stays open if its descriptor  *)
(* is at most 10, as it is unless solo was started with that many open.    *)
SoloExec(p) ==
  /\ pc[p] = "sleep"
  /\ pc' = [pc EXCEPT ![p] = "job"]
  /\ UNCHANGED <<uid, port, socket, left>>

(* The job forks something that outlives it.                               *)
Forks(p) ==
  /\ pc[p] = "job" /\ ~ left[p]
  /\ left' = [left EXCEPT ![p] = TRUE]
  /\ UNCHANGED <<uid, port, pc, socket>>

Release(p) == socket' = [socket EXCEPT ![p] = Unbound]

(* The job ends, is killed, or the alarm of -timeout rings.                *)
Ends(p) ==
  /\ pc[p] \in {"sleep", "job"}
  /\ pc' = [pc EXCEPT ![p] = "exit"]
  /\ IF left[p] THEN UNCHANGED socket ELSE Release(p)
  /\ UNCHANGED <<uid, port, left>>

LeftEnds(p) ==
  /\ left[p]
  /\ left' = [left EXCEPT ![p] = FALSE]
  /\ IF pc[p] = "exit" THEN Release(p) ELSE UNCHANGED socket
  /\ UNCHANGED <<uid, port, pc>>

(* The next process of a crontab with the same arguments.                  *)
Again(p) ==
  /\ pc[p] = "exit" /\ ~ left[p]
  /\ pc' = [pc EXCEPT ![p] = "bind"]
  /\ UNCHANGED <<uid, port, socket, left>>

SoloNext ==
  \E p \in Procs :
    Bind(p) \/ BindFails(p) \/ SoloExec(p) \/ Forks(p) \/ Ends(p) \/ LeftEnds(p) \/ Again(p)

SoloSpec == SoloInit /\ [][SoloNext]_soloVars

-----------------------------------------------------------------------------
AtWork(p) == pc[p] = "job" \/ left[p]

(* Of the jobs of one user with one port, only one is at work at a time,   *)
(* with all that it has left in the background.  Ports that are 0 in 16    *)
(* bits do not count: they exclude nobody.                                 *)
OneJob ==
  \A p, q \in Procs :
    p # q /\ uid[p] = uid[q] /\ port[p] = port[q] /\ ~ Chosen(port[p]) =>
      ~ (AtWork(p) /\ AtWork(q))
=============================================================================
