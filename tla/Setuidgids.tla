----------------------------- MODULE Setuidgids -----------------------------
(***************************************************************************)
(* src/setuidgids/setuidgids.c: it takes on the groups and the user of     *)
(* another account, call by call, and becomes a program.  Any call may     *)
(* fail; the kernel lets only effective user 0 change its groups, and      *)
(* setgid and setuid do less for others than for user 0.                   *)
(***************************************************************************)
EXTENDS Integers

CONSTANTS Ids,        (* user and group numbers; 0 is the superuser        *)
          Passwd      (* the record of each account: uid, gid, groups      *)

ASSUME SetuidgidsParameters ==
  /\ 0 \in Ids /\ Ids \subseteq Nat
  /\ \A n \in DOMAIN Passwd :
       Passwd[n].uid \in Ids /\ Passwd[n].gid \in Ids /\ Passwd[n].groups \subseteq Ids

VARIABLES
  account,    (* argv[1]                                                   *)
  uids, gids, (* the numbers the kernel keeps: real, effective, saved      *)
  groups,     (* the supplementary groups                                  *)
  spc         (* the next call, or "exec" (the program runs), or "exit"    *)

suVars == <<account, uids, gids, groups, spc>>

Three == [real : Ids, effective : Ids, saved : Ids]
All(id) == [real |-> id, effective |-> id, saved |-> id]

(* Who calls it: the superuser, a user, or a user if the program is        *)
(* installed set-user-ID.                                                  *)
SuInit ==
  /\ account \in DOMAIN Passwd \cup {"unknown"}
  /\ \E u \in Ids, suid \in BOOLEAN :
       uids = IF suid THEN [real |-> u, effective |-> 0, saved |-> 0] ELSE All(u)
  /\ gids \in {All(g) : g \in Ids}
  /\ groups \in {{}, Ids}
  /\ spc = "getpwnam"

pw == Passwd[account]

Getpwnam ==
  /\ spc = "getpwnam"
  /\ spc' = IF account \in DOMAIN Passwd THEN "initgroups" ELSE "exit"
  /\ UNCHANGED <<account, uids, gids, groups>>

Initgroups ==
  /\ spc = "initgroups" /\ uids.effective = 0
  /\ groups' = pw.groups \cup {pw.gid}
  /\ spc' = "setgid"
  /\ UNCHANGED <<account, uids, gids>>

Setgid ==
  /\ spc = "setgid"
  /\ \/ uids.effective = 0 /\ gids' = All(pw.gid)
     \/ uids.effective # 0 /\ pw.gid \in {gids.real, gids.saved}
        /\ gids' = [gids EXCEPT !.effective = pw.gid]
  /\ spc' = "setuid"
  /\ UNCHANGED <<account, uids, groups>>

Setuid ==
  /\ spc = "setuid"
  /\ \/ uids.effective = 0 /\ uids' = All(pw.uid)
     \/ uids.effective # 0 /\ pw.uid \in {uids.real, uids.saved}
        /\ uids' = [uids EXCEPT !.effective = pw.uid]
  /\ spc' = "execvp"
  /\ UNCHANGED <<account, gids, groups>>

Execvp ==
  /\ spc = "execvp"
  /\ spc' = "exec"
  /\ UNCHANGED <<account, uids, gids, groups>>

(* Mutant of SuFails: what initgroups returns is not looked at.            *)
SuFailsLater ==
  /\ spc \in {"getpwnam", "initgroups", "setgid", "setuid", "execvp"}
  /\ spc' = IF spc = "initgroups" THEN "setgid" ELSE "exit"
  /\ UNCHANGED <<account, uids, gids, groups>>

(* Each call is checked; one that fails, whatever for, is the last.        *)
SuFails ==
  /\ spc \in {"getpwnam", "initgroups", "setgid", "setuid", "execvp"}
  /\ spc' = "exit"
  /\ UNCHANGED <<account, uids, gids, groups>>

SuNext == Getpwnam \/ Initgroups \/ Setgid \/ Setuid \/ Execvp \/ SuFails

SuSpec == SuInit /\ [][SuNext]_suVars

-----------------------------------------------------------------------------
(* The program that is started can never get back what its caller was:     *)
(* all three user and group numbers are the account's, and no              *)
(* supplementary group is the caller's, whoever calls, and whatever fails. *)
NothingKept ==
  spc = "exec" =>
    /\ uids = All(pw.uid) /\ gids = All(pw.gid)
    /\ groups = pw.groups \cup {pw.gid}
=============================================================================
