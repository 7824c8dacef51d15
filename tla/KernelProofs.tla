---------------------------- MODULE KernelProofs ----------------------------
(***************************************************************************)
(* The programs that depend on what the kernel does meanwhile: setuidgids, *)
(* dead-parent-hups-child and solo, which prepare something and become     *)
(* another program, and iflist and all_if, which list the interfaces.      *)
(***************************************************************************)
EXTENDS Setuidgids, DeadParent, Solo, Ifaces, Induction, SequenceTheorems, TLAPS

-----------------------------------------------------------------------------
(* Only initgroups asks for effective user 0, and it is the first call:    *)
(* behind it setgid and setuid are those of the superuser.                 *)
SuInv ==
  /\ spc \in {"setgid", "setuid"} =>
       uids.effective = 0 /\ groups = pw.groups \cup {pw.gid}
  /\ spc = "setuid" => gids = All(pw.gid)
  /\ spc \in {"execvp", "exec"} =>
       /\ uids = All(pw.uid) /\ gids = All(pw.gid)
       /\ groups = pw.groups \cup {pw.gid}

(* Whatever the callers and the accounts are, the program that setuidgids  *)
(* becomes has nothing of its caller.                                      *)
THEOREM NothingOfTheCaller == SuSpec => []NothingKept
<1>1. SuInit => SuInv
  BY DEF SuInit, SuInv
<1>2. SuInv /\ [SuNext]_suVars => SuInv'
  <2>0. SUFFICES ASSUME SuInv, [SuNext]_suVars PROVE SuInv'
    OBVIOUS
  <2>1. CASE Getpwnam
    BY <2>1 DEF Getpwnam, SuInv
  <2>2. CASE Initgroups
    BY <2>2 DEF Initgroups, SuInv, pw
  <2>3. CASE Setgid
    BY <2>0, <2>3 DEF Setgid, SuInv, pw
  <2>4. CASE Setuid
    BY <2>0, <2>4 DEF Setuid, SuInv, pw
  <2>5. CASE Execvp
    BY <2>0, <2>5 DEF Execvp, SuInv, pw
  <2>6. CASE SuFails
    BY <2>6 DEF SuFails, SuInv
  <2>7. CASE UNCHANGED suVars
    BY <2>0, <2>7 DEF suVars, SuInv, pw
  <2> QED
    BY <2>0, <2>1, <2>2, <2>3, <2>4, <2>5, <2>6, <2>7 DEF SuNext
<1>3. SuInv => NothingKept
  BY DEF SuInv, NothingKept
<1> QED
  BY <1>1, <1>2, <1>3, PTL DEF SuSpec

-----------------------------------------------------------------------------
(* From prctl on the signal is armed, unless execve has disarmed it.       *)
DpInv ==
  /\ dpc = "execvp" => pdeathsig = TRUE
  /\ dpc = "program" => setid = TRUE \/ pdeathsig = TRUE
  /\ parent = "dead" /\ dpc = "prctl" => early = TRUE
  /\ parent = "dead" /\ dpc \in {"execvp", "program"} =>
       early = TRUE \/ hup \in {"ignore", "own"} \/ setid = TRUE
  /\ hup \in {"default", "ignore", "own"} /\ setid \in BOOLEAN

(* A program that outlives its parent is one of the four kinds that        *)
(* OrphansExplained names.                                                 *)
THEOREM NoOtherOrphans == DpSpec => []OrphansExplained
<1>1. DpInit => DpInv
  BY DEF DpInit, DpInv
<1>2. DpInv /\ [DpNext]_dpVars => DpInv'
  <2>0. SUFFICES ASSUME DpInv, [DpNext]_dpVars PROVE DpInv'
    OBVIOUS
  <2>1. CASE ParentDies
    BY <2>0, <2>1 DEF ParentDies, DpInv, Running
  <2>2. CASE Prctl
    BY <2>0, <2>2 DEF Prctl, DpInv
  <2>3. CASE Exec
    BY <2>0, <2>3 DEF Exec, DpInv
  <2>4. CASE ProgramHandles
    BY <2>0, <2>4 DEF ProgramHandles, DpInv
  <2>5. CASE DpEnds
    BY <2>0, <2>5 DEF DpEnds, DpInv
  <2>6. CASE UNCHANGED dpVars
    BY <2>0, <2>6 DEF dpVars, DpInv
  <2> QED
    BY <2>0, <2>1, <2>2, <2>3, <2>4, <2>5, <2>6 DEF DpNext
<1>3. DpInv => OrphansExplained
  BY DEF DpInv, OrphansExplained
<1> QED
  BY <1>1, <1>2, <1>3, PTL DEF DpSpec

-----------------------------------------------------------------------------
Named(p) == <<Address(uid[p]), Port16(port[p])>>

(* What is at work has its port, and no port is bound twice.               *)
SoloInv ==
  /\ DOMAIN pc = Procs /\ DOMAIN socket = Procs /\ DOMAIN left = Procs
  /\ \A p \in Procs :
       (pc[p] \in {"sleep", "job"} \/ left[p]) /\ ~ BindsNothing(p) =>
         socket[p] = Named(p)
  /\ \A p \in Procs : left[p] => pc[p] \in {"job", "exit"}
  /\ \A p, q \in Procs : p # q /\ socket[p] = socket[q] => socket[p] = Unbound

LEMMA SoloStepInv ==
  ASSUME SoloInv, NEW p \in Procs,
         Bind(p) \/ BindFails(p) \/ SoloExec(p) \/ Forks(p) \/ Ends(p)
           \/ LeftEnds(p) \/ Again(p)
  PROVE  SoloInv'
<1>1. CASE Bind(p)
  BY <1>1 DEF Bind, SoloInv, Named, BindsNothing, InUse, Unbound
<1>2. CASE BindFails(p)
  BY <1>2 DEF BindFails, SoloInv, Named, BindsNothing, Unbound
<1>3. CASE SoloExec(p)
  BY <1>3 DEF SoloExec, SoloInv, Named, BindsNothing, Unbound
<1>4. CASE Forks(p)
  BY <1>4 DEF Forks, SoloInv, Named, BindsNothing, Unbound
<1>5. CASE Ends(p)
  BY <1>5 DEF Ends, Release, SoloInv, Named, BindsNothing, Unbound
<1>6. CASE LeftEnds(p)
  BY <1>6 DEF LeftEnds, Release, SoloInv, Named, BindsNothing, Unbound
<1>7. CASE Again(p)
  BY <1>7 DEF Again, SoloInv, Named, BindsNothing, Unbound
<1> QED
  BY <1>1, <1>2, <1>3, <1>4, <1>5, <1>6, <1>7

(* However many processes there are, and whoever starts them with whatever *)
(* port, one user's port admits one job at a time.                         *)
THEOREM OneJobAtATime == SoloSpec => []OneJob
<1>1. SoloInit => SoloInv
  BY DEF SoloInit, SoloInv, Unbound
<1>2. SoloInv /\ [SoloNext]_soloVars => SoloInv'
  <2>1. ASSUME SoloInv, SoloNext PROVE SoloInv'
    BY <2>1, SoloStepInv DEF SoloNext
  <2>2. ASSUME SoloInv, UNCHANGED soloVars PROVE SoloInv'
    BY <2>2 DEF soloVars, SoloInv, Named, BindsNothing, Unbound
  <2> QED
    BY <2>1, <2>2
<1>3. SoloInv => OneJob
  <2>1. SUFFICES
          ASSUME SoloInv, NEW p \in Procs, NEW q \in Procs, p # q,
                 uid[p] = uid[q], port[p] = port[q], ~ Chosen(port[p]),
                 AtWork(p), AtWork(q)
          PROVE  FALSE
    BY DEF OneJob
  <2>2. Chosen(0)
    BY DEF Chosen, Port16
  <2>3. ~ BindsNothing(p) /\ ~ BindsNothing(q)
    BY <2>1, <2>2 DEF BindsNothing
  <2>4. socket[p] = Named(p) /\ socket[q] = Named(q)
    BY <2>1, <2>3 DEF SoloInv, AtWork
  <2>5. socket[p] = socket[q]
    BY <2>1, <2>4 DEF Named
  <2>6. socket[p] = Unbound
    BY <2>1, <2>5 DEF SoloInv
  <2>7. Port16(port[p]) = 0
    BY <2>4, <2>6 DEF Named, Unbound
  <2> QED
    BY <2>1, <2>7 DEF Chosen
<1> QED
  BY <1>1, <1>2, <1>3, PTL DEF SoloSpec

-----------------------------------------------------------------------------
(* What SIOCGIFCONF has to tell: names, and every interface that is there. *)
Lists(names, k) ==
  \A j \in 1..k : ifs[Names[j]].here => \E i \in 1..Len(names) : names[i] = Names[j]

LEMMA AppendLists ==
  ASSUME NEW names \in Seq(NameSet), NEW k \in Nat, k + 1 <= Len(Names), Lists(names, k)
  PROVE  /\ Append(names, Names[k + 1]) \in Seq(NameSet)
         /\ Lists(Append(names, Names[k + 1]), k + 1)
         /\ ~ ifs[Names[k + 1]].here => Lists(names, k + 1)
<1>1. Names[k + 1] \in NameSet
  BY IfParameters
<1> DEFINE more == Append(names, Names[k + 1])
<1>2. /\ more \in Seq(NameSet) /\ Len(more) = Len(names) + 1 /\ Len(names) \in Nat
      /\ more[Len(names) + 1] = Names[k + 1]
      /\ \A i \in 1..Len(names) : more[i] = names[i]
  BY <1>1, AppendProperties
<1> HIDE DEF more
<1>3. ASSUME NEW j \in 1..k + 1, ifs[Names[j]].here
      PROVE  \E i \in 1..Len(more) : more[i] = Names[j]
  <2>1. CASE j = k + 1
    <3>1. Len(names) + 1 \in 1..Len(more)
      BY <1>2
    <3> QED  BY <1>2, <2>1, <3>1
  <2>2. CASE j # k + 1
    <3>1. PICK i \in 1..Len(names) : names[i] = Names[j]
      BY <1>3, <2>2 DEF Lists
    <3>2. i \in 1..Len(more)
      BY <1>2
    <3> QED  BY <1>2, <3>1, <3>2
  <2> QED  BY <2>1, <2>2
<1>4. ASSUME ~ ifs[Names[k + 1]].here, NEW j \in 1..k + 1, ifs[Names[j]].here
      PROVE  \E i \in 1..Len(names) : names[i] = Names[j]
  <2>1. j \in 1..k
    BY <1>4
  <2> QED  BY <1>4, <2>1 DEF Lists
<1>5. Lists(more, k + 1)
  BY <1>3 DEF Lists
<1>6. ~ ifs[Names[k + 1]].here => Lists(names, k + 1)
  BY <1>4 DEF Lists
<1> QED  BY <1>2, <1>5, <1>6 DEF more

LEMMA PresentLists ==
  Present \in Seq(NameSet) /\ Lists(Present, Len(Names)) /\ Len(Present) <= Len(Names)
<1> DEFINE S == Seq(NameSet)
           Next1(k, s) == IF ifs[Names[k]].here THEN Append(s, Names[k]) ELSE s
           F == [q \in (1..Len(Names)) \X S |-> Next1(q[1], q[2])]
<1>1. PICK N \in Nat : N = Len(Names)
  BY IfParameters
<1>2. ASSUME NEW k \in 1..N, NEW s \in S PROVE Next1(k, s) \in S
  <2>1. Names[k] \in NameSet
    BY <1>1, IfParameters
  <2> QED  BY <2>1
<1>3. F \in [(1..N) \X S -> S]
  <2> HIDE DEF Next1, S
  <2> QED  BY <1>1, <1>2
<1>4. \A k \in 1..N, s \in S : F[<<k, s>>] = Next1(k, s)
  <2> HIDE DEF Next1, S
  <2> QED  BY <1>1
<1>5. <<>> \in S
  OBVIOUS
<1> HIDE DEF F
<1>6. PICK f \in [0..N -> S] : Recursion(f, N, <<>>, F)
  <2> HIDE DEF S
  <2> QED  BY <1>3, <1>5, RecursionExists
<1>7. f[0] = <<>> /\ \A k \in 1..N : f[k] = Next1(k, f[k - 1])
  <2> HIDE DEF Next1, S
  <2>1. \A k \in 1..N : f[k - 1] \in S
    OBVIOUS
  <2> QED  BY <1>4, <1>6, <2>1 DEF Recursion
<1> DEFINE G(g) == [k \in 0..Len(Names) |->
                      IF k = 0 THEN <<>>
                      ELSE IF ifs[Names[k]].here THEN Append(g[k - 1], Names[k])
                      ELSE g[k - 1]]
<1>8. f = G(f)
  <2>1. ASSUME NEW k \in 0..N PROVE f[k] = G(f)[k]
    <3>1. CASE k = 0
      BY <1>1, <1>7, <3>1
    <3>2. CASE k # 0
      <4>1. k \in 1..N
        BY <3>2
      <4>2. f[k] = Next1(k, f[k - 1])
        BY <1>7, <4>1
      <4> QED  BY <1>1, <3>2, <4>2
    <3> QED  BY <3>1, <3>2
  <2> QED  BY <1>1, <2>1
<1> DEFINE sp == CHOOSE g : g = G(g)
<1>9. sp = G(sp)
  <2> HIDE DEF G
  <2> QED  BY <1>8
<1>10. Present = sp[N]
  BY <1>1 DEF Present
<1>11. \A k \in 0..Len(Names) :
         sp[k] = IF k = 0 THEN <<>>
                 ELSE IF ifs[Names[k]].here THEN Append(sp[k - 1], Names[k])
                 ELSE sp[k - 1]
  BY <1>9
<1> HIDE DEF sp
<1> DEFINE T == {k \in Nat : k <= N =>
                   sp[k] \in Seq(NameSet) /\ Lists(sp[k], k) /\ Len(sp[k]) <= k}
<1>12. 0 \in T
  <2>1. sp[0] = <<>>
    BY <1>1, <1>11
  <2>2. <<>> \in Seq(NameSet) /\ Lists(<<>>, 0) /\ Len(<<>>) = 0
    BY DEF Lists
  <2> QED  BY <2>1, <2>2
<1>13. ASSUME NEW k \in Nat, k \in T PROVE k + 1 \in T
  <2>1. SUFFICES ASSUME k + 1 <= N PROVE
           sp[k + 1] \in Seq(NameSet) /\ Lists(sp[k + 1], k + 1) /\ Len(sp[k + 1]) <= k + 1
    OBVIOUS
  <2>2. sp[k] \in Seq(NameSet) /\ Lists(sp[k], k) /\ Len(sp[k]) <= k
    BY <1>13, <2>1
  <2>3. PICK j \in 0..Len(Names) : j = k + 1 /\ j # 0 /\ j - 1 = k
    BY <1>1, <2>1
  <2>4. sp[j] = IF ifs[Names[j]].here THEN Append(sp[k], Names[j]) ELSE sp[k]
    BY <1>11, <2>3
  <2>5. /\ Append(sp[k], Names[k + 1]) \in Seq(NameSet)
        /\ Lists(Append(sp[k], Names[k + 1]), k + 1)
        /\ ~ ifs[Names[k + 1]].here => Lists(sp[k], k + 1)
    BY <1>1, <2>1, <2>2, AppendLists
  <2>6. Len(sp[k]) <= k + 1 /\ Len(Append(sp[k], Names[k + 1])) <= k + 1
    BY <1>1, <2>1, <2>2, IfParameters
  <2> QED  BY <2>2, <2>3, <2>4, <2>5, <2>6
<1> HIDE DEF T
<1>14. N \in T
  BY <1>12, <1>13, SetInduction
<1> QED  BY <1>1, <1>10, <1>14 DEF T

-----------------------------------------------------------------------------
(* iflist and all_if.  An interface that nothing has happened to is in the *)
(* list until it has been looked at.                                       *)
Entries == NameSet \cup {"garbage"}
InList(n) == \E k \in 1..Len(list) : list[k] = n

IfTypeOK ==
  /\ ifs \in [NameSet -> Interface] /\ steady \subseteq NameSet
  /\ prog \in {"iflist", "all_if"}
  /\ numreqs \in Nat /\ list \in Seq(Entries)

(* Between the two calls for a name it is the first of the list; and there *)
(* is no device before there is a source.                                  *)
BetweenCalls ==
  /\ ipc = "findsrc" => dev = "NULL"
  /\ ipc = "done" => list = <<>>
  /\ prog = "iflist" /\ ipc = "address" =>
       list # <<>> /\ Name \in Inet /\ (Name \in steady => Reaches(Name))
  /\ prog = "all_if" /\ ipc = "flags" => list # <<>> /\ Name \in Inet

HasSource(n) == Reaches(n) /\ ifs[n].address = src

DeviceComes ==
  prog = "iflist" /\ ipc \in {"flags", "address", "done"} =>
    \A n \in steady \cap Inet : HasSource(n) => dev # "NULL" \/ InList(n)

DeviceIsRight ==
  dev # "NULL" => \E n \in Inet : Base[n] = dev /\ (n \in steady => HasSource(n))

UpComes ==
  prog = "all_if" /\ rv /\ ipc \in {"flags", "address", "done"} =>
    \A n \in steady \cap Inet : Reaches(n) => Base[n] \in shown \/ InList(n)

ShownIsRight ==
  \A b \in shown : \E n \in Inet : Base[n] = b /\ (n \in steady => Reaches(n))

IfInv ==
  /\ IfTypeOK /\ BetweenCalls /\ DeviceComes /\ DeviceIsRight /\ UpComes /\ ShownIsRight

LEMMA IfInitInv == IfInit => IfInv
<1>1. SUFFICES ASSUME IfInit PROVE IfInv
  OBVIOUS
<1>2. IfTypeOK
  BY <1>1, IfParameters DEF IfInit, IfTypeOK
<1>3. BetweenCalls /\ DeviceComes /\ UpComes
  BY <1>1 DEF IfInit, BetweenCalls, DeviceComes, UpComes
<1>4. DeviceIsRight /\ ShownIsRight
  BY <1>1 DEF IfInit, DeviceIsRight, ShownIsRight
<1> QED  BY <1>2, <1>3, <1>4 DEF IfInv

(* A change of an interface says nothing of the others.                    *)
LEMMA ChangeInv == ASSUME IfInv, Change PROVE IfInv'
<1>1. PICK n \in NameSet, i \in Interface :
        ifs' = [ifs EXCEPT ![n] = i] /\ steady' = steady \ {n}
  BY DEF Change
<1>2. UNCHANGED <<prog, ipc, numreqs, list, src, dev, shown, rv>>
  BY DEF Change
<1>3. ifs \in [NameSet -> Interface] /\ steady \subseteq NameSet
  BY DEF IfInv, IfTypeOK
<1>4. ASSUME NEW m \in steady' PROVE m \in steady /\ ifs'[m] = ifs[m]
  BY <1>1, <1>3
<1>5. ifs' \in [NameSet -> Interface] /\ steady' \subseteq NameSet
  BY <1>1, <1>3
<1>6. \A m \in steady' : m \in steady /\ (Reaches(m)' <=> Reaches(m))
                           /\ (HasSource(m)' <=> HasSource(m))
  BY <1>2, <1>4 DEF Reaches, HasSource
<1>7. Name' = Name /\ \A m : InList(m)' <=> InList(m)
  BY <1>2 DEF Name, InList
<1>8. IfTypeOK'
  BY <1>2, <1>5 DEF IfInv, IfTypeOK
<1>9. BetweenCalls'
  BY <1>2, <1>6, <1>7 DEF IfInv, BetweenCalls
<1>10. DeviceComes'
  BY <1>2, <1>6, <1>7 DEF IfInv, DeviceComes
<1>11. DeviceIsRight'
  BY <1>2, <1>6, <1>7 DEF IfInv, DeviceIsRight
<1>12. UpComes'
  BY <1>2, <1>6, <1>7 DEF IfInv, UpComes
<1>13. ShownIsRight'
  BY <1>2, <1>6, <1>7 DEF IfInv, ShownIsRight
<1> QED  BY <1>8, <1>9, <1>10, <1>11, <1>12, <1>13 DEF IfInv

(* A list that was not cut off has every interface that is there.          *)
LEMMA GetListInv == ASSUME IfInv, GetList PROVE IfInv'
<1>1. UNCHANGED <<kernel, prog, numreqs, src, dev, shown, rv>> /\ ipc' \in {"flags", "address"}
        /\ (prog = "iflist" => ipc' = "flags") /\ (prog = "all_if" => ipc' = "address")
  BY DEF GetList
<1>2. list' = Present
  <2>1. Present \in Seq(NameSet) /\ numreqs \in Nat
    BY PresentLists DEF IfInv, IfTypeOK
  <2>2. Len(Present) < numreqs
    BY <2>1 DEF GetList, Fills
  <2>3. list' = SubSeq(Present, 1, Len(Present))
    BY <2>2 DEF GetList
  <2> QED  BY <2>1, <2>3, SubSeqFull
<1>3. ASSUME NEW n \in NameSet, ifs[n].here PROVE InList(n)'
  <2>1. PICK j \in 1..Len(Names) : n = Names[j]
    BY IfParameters DEF NameSet
  <2>2. \E i \in 1..Len(Present) : Present[i] = n
    BY <1>3, <2>1, PresentLists DEF Lists
  <2> QED  BY <1>2, <2>2 DEF InList
<1>4. ifs' = ifs /\ steady' = steady /\ steady \subseteq NameSet
  BY <1>1 DEF kernel, IfInv, IfTypeOK
<1>5. IfTypeOK'
  <2>1. list' \in Seq(Entries)
    BY <1>2, PresentLists DEF Entries
  <2> QED  BY <1>1, <1>4, <2>1 DEF IfInv, IfTypeOK
<1>6. BetweenCalls'
  BY <1>1 DEF BetweenCalls, IfInv, IfTypeOK
<1>7. DeviceComes' /\ UpComes'
  <2>1. \A n \in steady' \cap Inet : Reaches(n)' => InList(n)'
    BY <1>3, <1>4 DEF Reaches
  <2> QED  BY <2>1 DEF DeviceComes, UpComes, HasSource
<1>8. DeviceIsRight' /\ ShownIsRight'
  BY <1>1, <1>4 DEF IfInv, DeviceIsRight, ShownIsRight, HasSource, Reaches
<1> QED  BY <1>5, <1>6, <1>7, <1>8 DEF IfInv

(* All but the first name is still in the list behind it.                  *)
LEMMA TailKeeps ==
  ASSUME list \in Seq(Entries), list # <<>>, list' = Tail(list)
  PROVE  list' \in Seq(Entries) /\ \A n : InList(n) => n = Name \/ InList(n)'
<1>1. list' \in Seq(Entries) /\ Len(list') = Len(list) - 1 /\ Len(list) \in Nat
      /\ \A i \in 1..Len(list) - 1 : list'[i] = list[i + 1]
  OBVIOUS
<1>2. Name = list[1]
  BY DEF Name
<1>3. ASSUME NEW n, NEW k \in 1..Len(list), list[k] = n, n # Name
      PROVE  \E i \in 1..Len(list') : list'[i] = n
  <2>1. k # 1
    BY <1>2, <1>3
  <2>2. PICK i \in 1..Len(list) - 1 : i + 1 = k
    <3>1. k - 1 \in 1..Len(list) - 1 /\ k - 1 + 1 = k
      BY <1>1, <2>1
    <3> QED  BY <3>1
  <2> QED  BY <1>1, <1>3, <2>2
<1> QED  BY <1>1, <1>3 DEF InList

(* What is skipped does not have the source address or is not up, and the  *)
(* rest of the loop has not changed.                                       *)
LEMMA ListFlagsInv == ASSUME IfInv, ListFlags PROVE IfInv'
<1>1. /\ prog = "iflist" /\ ipc = "flags" /\ list # <<>> /\ list \in Seq(Entries)
      /\ UNCHANGED <<ifs, changes, steady, prog, numreqs, src, dev, shown, rv>>
  BY DEF ListFlags, kernel, IfInv, IfTypeOK
<1>2. DeviceIsRight' /\ ShownIsRight' /\ UpComes'
  BY <1>1 DEF IfInv, DeviceIsRight, ShownIsRight, UpComes, HasSource, Reaches
<1>3. CASE NextName("flags") /\ ~ (Name \in Inet /\ Reaches(Name))
  <2>1. list' = Tail(list) /\ ipc' = "flags"
    BY <1>3 DEF NextName
  <2>2. list' \in Seq(Entries) /\ \A n : InList(n) => n = Name \/ InList(n)'
    BY <1>1, <2>1, TailKeeps
  <2>3. IfTypeOK' /\ BetweenCalls'
    BY <1>1, <2>1, <2>2 DEF IfInv, IfTypeOK, BetweenCalls
  <2>4. DeviceComes'
    BY <1>1, <1>3, <2>2 DEF IfInv, DeviceComes, HasSource, Reaches
  <2> QED  BY <1>2, <2>3, <2>4 DEF IfInv
<1>4. CASE Name \in Inet /\ Reaches(Name) /\ ipc' = "address" /\ UNCHANGED list
  <2>1. IfTypeOK'
    BY <1>1, <1>4 DEF IfInv, IfTypeOK
  <2>2. Name' = Name /\ (Reaches(Name))' /\ \A n : InList(n)' <=> InList(n)
    BY <1>1, <1>4 DEF Name, InList, Reaches
  <2>3. BetweenCalls'
    BY <1>1, <1>4, <2>2 DEF BetweenCalls
  <2>4. DeviceComes'
    BY <1>1, <1>4, <2>2 DEF IfInv, DeviceComes, HasSource, Reaches
  <2> QED  BY <1>2, <2>1, <2>3, <2>4 DEF IfInv
<1> QED
  BY <1>3, <1>4 DEF ListFlags, Reaches, Here

(* A device is returned for the address of the source only.                *)
LEMMA ListAddressInv == ASSUME IfInv, ListAddress PROVE IfInv'
<1>1. /\ prog = "iflist" /\ ipc = "address" /\ Name \in NameSet
      /\ UNCHANGED <<ifs, changes, steady, prog, numreqs, src, shown, rv>>
      /\ list' = Tail(list) /\ ipc' = "flags"
      /\ dev' = IF ifs[Name].address = src THEN Base[Name] ELSE dev
  BY DEF ListAddress, kernel, Here, NextName
<1>2. list # <<>> /\ list \in Seq(Entries) /\ Name \in Inet /\ (Name \in steady => Reaches(Name))
  BY <1>1 DEF IfInv, IfTypeOK, BetweenCalls
<1>3. list' \in Seq(Entries) /\ \A n : InList(n) => n = Name \/ InList(n)'
  BY <1>1, <1>2, TailKeeps
<1>4. IfTypeOK' /\ BetweenCalls' /\ UpComes' /\ ShownIsRight'
  BY <1>1, <1>3 DEF IfInv, IfTypeOK, BetweenCalls, UpComes, ShownIsRight, Reaches
<1>5. Base[Name] # "NULL"
  BY <1>1, IfParameters
<1>6. DeviceIsRight'
  BY <1>1, <1>2 DEF IfInv, DeviceIsRight, HasSource, Reaches
<1>7. DeviceComes'
  BY <1>1, <1>3, <1>5 DEF IfInv, DeviceComes, HasSource, Reaches
<1> QED  BY <1>4, <1>6, <1>7 DEF IfInv

LEMMA AllAddressInv == ASSUME IfInv, AllAddress PROVE IfInv'
<1>1. /\ prog = "all_if" /\ ipc = "address" /\ list # <<>> /\ list \in Seq(Entries)
      /\ UNCHANGED <<ifs, changes, steady, prog, numreqs, src, dev, shown, rv>>
  BY DEF AllAddress, kernel, IfInv, IfTypeOK
<1>2. DeviceIsRight' /\ ShownIsRight' /\ DeviceComes'
  BY <1>1 DEF IfInv, DeviceIsRight, ShownIsRight, DeviceComes, HasSource, Reaches
<1>3. CASE Name \in Inet /\ ipc' = "flags" /\ UNCHANGED list
  <2>1. Name' = Name /\ \A n : InList(n)' <=> InList(n)
    BY <1>3 DEF Name, InList
  <2>2. IfTypeOK' /\ BetweenCalls' /\ UpComes'
    BY <1>1, <1>3, <2>1 DEF IfInv, IfTypeOK, BetweenCalls, UpComes, Reaches
  <2> QED  BY <1>2, <2>2 DEF IfInv
<1>4. CASE Name \notin Inet /\ NextName("address")
  <2>1. list' = Tail(list) /\ ipc' = "address"
    BY <1>4 DEF NextName
  <2>2. list' \in Seq(Entries) /\ \A n : InList(n) => n = Name \/ InList(n)'
    BY <1>1, <2>1, TailKeeps
  <2>3. IfTypeOK' /\ BetweenCalls' /\ UpComes'
    BY <1>1, <1>4, <2>1, <2>2 DEF IfInv, IfTypeOK, BetweenCalls, UpComes, Reaches
  <2> QED  BY <1>2, <2>3 DEF IfInv
<1> QED  BY <1>3, <1>4 DEF AllAddress

(* Shown is what is up, and what is not shown is not.                      *)
LEMMA AllFlagsInv == ASSUME IfInv, AllFlags PROVE IfInv'
<1>1. /\ prog = "all_if" /\ ipc = "flags" /\ Here
      /\ UNCHANGED <<ifs, changes, steady, prog, numreqs, src, dev, rv>>
      /\ list' = Tail(list) /\ ipc' = "address"
      /\ shown' = IF ifs[Name].up THEN shown \cup {Base[Name]} ELSE shown
  BY DEF AllFlags, kernel, NextName
<1>2. list # <<>> /\ list \in Seq(Entries) /\ Name \in Inet
  BY <1>1 DEF IfInv, IfTypeOK, BetweenCalls
<1>3. list' \in Seq(Entries) /\ \A n : InList(n) => n = Name \/ InList(n)'
  BY <1>1, <1>2, TailKeeps
<1>4. IfTypeOK' /\ BetweenCalls' /\ DeviceComes' /\ DeviceIsRight'
  BY <1>1, <1>3
  DEF IfInv, IfTypeOK, BetweenCalls, DeviceComes, DeviceIsRight, HasSource, Reaches
<1>5. UpComes'
  BY <1>1, <1>3 DEF IfInv, UpComes, Reaches
<1>6. ShownIsRight'
  <2>1. ASSUME NEW b \in shown' PROVE \E n \in Inet : Base[n] = b /\ (n \in steady => Reaches(n))
    <3>1. CASE b \in shown
      BY <3>1 DEF IfInv, ShownIsRight
    <3>2. CASE b \notin shown
      <4>1. ifs[Name].up /\ b = Base[Name]
        BY <1>1, <2>1, <3>2
      <4>2. Reaches(Name)
        BY <1>1, <4>1 DEF Reaches, Here
      <4> QED  BY <1>2, <4>1, <4>2
    <3> QED  BY <3>1, <3>2
  <2> QED  BY <1>1, <2>1 DEF ShownIsRight, Reaches
<1> QED  BY <1>4, <1>5, <1>6 DEF IfInv

(* After giving up there is nothing more that all_if would promise.        *)
LEMMA GiveUpInv == ASSUME IfInv, GiveUp PROVE IfInv'
<1>1. /\ prog = "all_if" /\ rv' = FALSE /\ ipc' \in {"address", "exit"}
      /\ numreqs' = numreqs + BlockSize
      /\ list' \in [1..numreqs -> NameSet \cup {"garbage"}]
      /\ UNCHANGED <<ifs, changes, steady, prog, src, dev, shown>>
  BY DEF GiveUp, kernel
<1>2. numreqs \in Nat /\ numreqs' \in Nat
  BY <1>1, IfParameters DEF IfInv, IfTypeOK
<1>3. list' \in Seq(Entries)
  BY <1>1, <1>2 DEF Entries
<1>4. IfTypeOK'
  BY <1>1, <1>2, <1>3 DEF IfInv, IfTypeOK
<1>5. BetweenCalls' /\ DeviceComes' /\ UpComes'
  BY <1>1 DEF BetweenCalls, DeviceComes, UpComes
<1>6. DeviceIsRight' /\ ShownIsRight'
  BY <1>1 DEF IfInv, DeviceIsRight, ShownIsRight, HasSource, Reaches
<1> QED  BY <1>4, <1>5, <1>6 DEF IfInv

LEMMA IfStepInv == IfInv /\ [IfNext]_ifVars => IfInv'
<1>0. SUFFICES ASSUME IfInv, [IfNext]_ifVars PROVE IfInv'
  OBVIOUS
<1>1. CASE Change       BY <1>0, <1>1, ChangeInv
<1>2. CASE GetList      BY <1>0, <1>2, GetListInv
<1>3. CASE ListFlags    BY <1>0, <1>3, ListFlagsInv
<1>4. CASE ListAddress  BY <1>0, <1>4, ListAddressInv
<1>5. CASE AllAddress   BY <1>0, <1>5, AllAddressInv
<1>6. CASE AllFlags     BY <1>0, <1>6, AllFlagsInv
<1>7. CASE GiveUp       BY <1>0, <1>7, GiveUpInv
<1>8. CASE FindSrc
  <2>1. /\ ipc = "findsrc" /\ ipc' \in {"conf", "exit"}
        /\ UNCHANGED <<ifs, changes, steady, prog, numreqs, list, dev, shown, rv>>
    BY <1>8 DEF FindSrc, kernel
  <2>2. IfTypeOK' /\ BetweenCalls' /\ DeviceComes' /\ UpComes' /\ ShownIsRight'
    BY <1>0, <2>1
    DEF IfInv, IfTypeOK, BetweenCalls, DeviceComes, UpComes, ShownIsRight, Reaches
  <2>3. DeviceIsRight'
    BY <1>0, <2>1 DEF IfInv, BetweenCalls, DeviceIsRight
  <2> QED  BY <2>2, <2>3 DEF IfInv
<1>9. CASE Grow
  <2>1. UNCHANGED <<ifs, changes, steady, prog, ipc, list, src, dev, shown, rv>>
    BY <1>9 DEF Grow, kernel
  <2>2. numreqs' \in Nat
    BY <1>0, <1>9, IfParameters DEF Grow, IfInv, IfTypeOK
  <2>3. Name' = Name /\ \A n : InList(n)' <=> InList(n)
    BY <2>1 DEF Name, InList
  <2>4. IfTypeOK' /\ BetweenCalls'
    BY <1>0, <2>1, <2>2, <2>3 DEF IfInv, IfTypeOK, BetweenCalls, Reaches
  <2>5. DeviceComes' /\ UpComes'
    BY <1>0, <2>1, <2>3 DEF IfInv, DeviceComes, UpComes, HasSource, Reaches
  <2>6. DeviceIsRight' /\ ShownIsRight'
    BY <1>0, <2>1 DEF IfInv, DeviceIsRight, ShownIsRight, HasSource, Reaches
  <2> QED  BY <2>4, <2>5, <2>6 DEF IfInv
<1>10. CASE Gone \/ IfFails
  <2>1. /\ ipc' = "exit"
        /\ UNCHANGED <<ifs, changes, steady, prog, numreqs, list, src, dev, shown, rv>>
    BY <1>10 DEF Gone, IfFails, kernel
  <2> QED
    BY <1>0, <2>1
    DEF IfInv, IfTypeOK, BetweenCalls, DeviceComes, DeviceIsRight, UpComes, ShownIsRight,
        HasSource, Reaches
<1>11. CASE Finish
  <2>1. /\ ipc \in {"flags", "address"} /\ list = <<>> /\ ipc' \in {"done", "exit"}
        /\ UNCHANGED <<ifs, changes, steady, prog, numreqs, list, src, dev, shown, rv>>
    BY <1>11 DEF Finish, kernel
  <2>2. \A n : InList(n)' <=> InList(n)
    BY <2>1 DEF InList
  <2>3. IfTypeOK' /\ BetweenCalls' /\ DeviceIsRight' /\ ShownIsRight'
    BY <1>0, <2>1
    DEF IfInv, IfTypeOK, BetweenCalls, DeviceIsRight, ShownIsRight, HasSource, Reaches
  <2>4. DeviceComes' /\ UpComes'
    BY <1>0, <2>1, <2>2 DEF IfInv, DeviceComes, UpComes, HasSource, Reaches
  <2> QED  BY <2>3, <2>4 DEF IfInv
<1>12. CASE UNCHANGED ifVars
  BY <1>0, <1>12
  DEF ifVars, kernel, IfInv, IfTypeOK, BetweenCalls, DeviceComes, DeviceIsRight, UpComes,
      ShownIsRight, HasSource, Reaches, Name, InList
<1> QED
  BY <1>0, <1>1, <1>2, <1>3, <1>4, <1>5, <1>6, <1>7, <1>8, <1>9, <1>10, <1>11, <1>12 DEF IfNext

LEMMA IfAlwaysInv == IfSpec => []IfInv
BY IfInitInv, IfStepInv, PTL DEF IfSpec

LEMMA NothingLeft == IfInv /\ ipc = "done" => \A n : ~ InList(n)
<1>1. SUFFICES ASSUME IfInv, ipc = "done" PROVE \A n : ~ InList(n)
  OBVIOUS
<1>2. list = <<>> /\ Len(<<>>) = 0
  BY <1>1 DEF IfInv, BetweenCalls
<1> QED  BY <1>2 DEF InList

(* For any interfaces, and any changes of them between any two calls, an   *)
(* interface with the source address that is up all the time is found, and *)
(* what iflist finds has that address.                                     *)
THEOREM DeviceIsFound == IfSpec => []SteadyDeviceFound
<1>1. IfInv => SteadyDeviceFound
  <2>1. SUFFICES ASSUME IfInv, prog = "iflist", ipc = "done"
                 PROVE  /\ (\E n \in steady \cap Inet : HasSource(n)) => dev # "NULL"
                        /\ DeviceIsRight
    BY DEF SteadyDeviceFound, DeviceIsRight, HasSource
  <2> QED  BY <2>1, NothingLeft DEF IfInv, DeviceComes
<1> QED  BY <1>1, IfAlwaysInv, PTL

(* Nor does all_if, when it reports success, leave out or invent one.      *)
THEOREM InterfacesAreShown == IfSpec => []SteadyInterfacesShown
<1>1. IfInv => SteadyInterfacesShown
  BY NothingLeft DEF IfInv, UpComes, ShownIsRight, SteadyInterfacesShown
<1> QED  BY <1>1, IfAlwaysInv, PTL

-----------------------------------------------------------------------------
(* The calls that iflist and all_if make for the names in the list, the    *)
(* first of them and the other, and what comes before and after these.     *)
FirstCall == IF prog = "iflist" THEN "flags" ELSE "address"
CallsForNames == 2 * Len(list) + (IF ipc = FirstCall THEN 1 ELSE 0)
Phase ==
  IF ipc = "findsrc" THEN 3 ELSE IF ipc = "conf" THEN 2
  ELSE IF ipc \in {"flags", "address"} THEN 1 ELSE 0

CountsInv ==
  /\ changes \in Nat /\ numreqs > 0
  /\ ipc \in {"findsrc", "conf", "flags", "address", "done", "exit"}

(* However the interfaces change, no call brings a program back to what it *)
(* has done: the buffer grows only while it could be too small for all the *)
(* interfaces there ever are, and then every call leaves fewer to make.    *)
NoCallAgain ==
  [][changes' = changes =>
       \/ Phase' < Phase
       \/ ipc = "conf" /\ ipc' = "conf" /\ numreqs <= Len(Names) /\ numreqs < numreqs'
       \/ Phase = 1 /\ Phase' = 1 /\ CallsForNames' < CallsForNames]_ifVars

(* Both programs end, however fast interfaces come and go.                 *)
THEOREM ListingEnds == ASSUME BlockSize # 0 PROVE IfSpec => NoCallAgain
<1>1. IfInit => CountsInv
  BY IfParameters DEF IfInit, CountsInv
<1>2. IfInv /\ CountsInv /\ [IfNext]_ifVars => CountsInv'
  <2> SUFFICES ASSUME IfInv, CountsInv, [IfNext]_ifVars PROVE CountsInv'
    OBVIOUS
  <2>1. numreqs \in Nat /\ BlockSize \in Nat
    BY IfParameters DEF IfInv, IfTypeOK
  <2>2. numreqs' > 0
    <3>1. CASE Grow \/ GiveUp
      BY <2>1, <3>1 DEF Grow, GiveUp, CountsInv
    <3>2. CASE ~ Grow /\ ~ GiveUp
      <4>1. numreqs' = numreqs
        BY <3>2
        DEF IfNext, ifVars, Change, FindSrc, GetList, Gone, IfFails, ListFlags, ListAddress,
            AllAddress, AllFlags, Finish
      <4> QED  BY <4>1 DEF CountsInv
    <3> QED  BY <3>1, <3>2
  <2>3. changes' \in {changes, changes + 1}
    BY DEF IfNext, ifVars, kernel, Change, FindSrc, Grow, GiveUp, GetList, Gone, IfFails,
           ListFlags, ListAddress, AllAddress, AllFlags, Finish
  <2>4. ipc' \in {ipc, "conf", "flags", "address", "done", "exit"}
    BY DEF IfNext, ifVars, Change, FindSrc, Grow, GiveUp, GetList, Gone, IfFails,
           ListFlags, ListAddress, AllAddress, AllFlags, Finish, NextName
  <2> QED  BY <2>2, <2>3, <2>4 DEF CountsInv
<1>3. IfInv /\ CountsInv /\ [IfNext]_ifVars => [changes' = changes =>
       \/ Phase' < Phase
       \/ ipc = "conf" /\ ipc' = "conf" /\ numreqs <= Len(Names) /\ numreqs < numreqs'
       \/ Phase = 1 /\ Phase' = 1 /\ CallsForNames' < CallsForNames]_ifVars
  <2> SUFFICES ASSUME IfInv, CountsInv, IfNext, changes' = changes
               PROVE  \/ Phase' < Phase
                      \/ /\ ipc = "conf" /\ ipc' = "conf"
                         /\ numreqs <= Len(Names) /\ numreqs < numreqs'
                      \/ Phase = 1 /\ Phase' = 1 /\ CallsForNames' < CallsForNames
    OBVIOUS
  <2>1. /\ numreqs \in Nat /\ BlockSize \in Nat /\ Len(Names) \in Nat
        /\ list \in Seq(Entries) /\ Len(list) \in Nat
        /\ prog \in {"iflist", "all_if"}
    BY IfParameters DEF IfInv, IfTypeOK
  <2>2. list # <<>> => Len(Tail(list)) = Len(list) - 1 /\ Len(list) > 0
    BY <2>1
  <2>3. CASE Grow
    <3>1. Len(Present) \in Nat /\ Len(Present) <= Len(Names) /\ numreqs <= Len(Present)
      BY <2>1, <2>3, PresentLists DEF Grow, Fills
    <3>2. ipc = "conf" /\ ipc' = "conf" /\ numreqs' \in {2 * numreqs, numreqs + BlockSize}
      BY <2>3 DEF Grow
    <3> QED  BY <2>1, <3>1, <3>2 DEF CountsInv
  <2>4. CASE FindSrc \/ GiveUp \/ GetList \/ Gone \/ IfFails \/ Finish
    BY <2>1, <2>4 DEF FindSrc, GiveUp, GetList, Gone, IfFails, Finish, Phase, CountsInv
  <2>5. CASE ListFlags
    BY <2>1, <2>2, <2>5 DEF ListFlags, NextName, Phase, CallsForNames, FirstCall
  <2>6. CASE ListAddress
    <3>1. list # <<>>
      BY <2>6 DEF ListAddress, IfInv, BetweenCalls
    <3> QED
      BY <2>1, <2>2, <2>6, <3>1 DEF ListAddress, NextName, Phase, CallsForNames, FirstCall
  <2>7. CASE AllAddress
    BY <2>1, <2>2, <2>7 DEF AllAddress, NextName, Phase, CallsForNames, FirstCall
  <2>8. CASE AllFlags
    <3>1. list # <<>>
      BY <2>8 DEF AllFlags, IfInv, BetweenCalls
    <3> QED
      BY <2>1, <2>2, <2>8, <3>1 DEF AllFlags, NextName, Phase, CallsForNames, FirstCall
  <2>9. ~ Change
    BY DEF Change, CountsInv
  <2> QED
    BY <2>3, <2>4, <2>5, <2>6, <2>7, <2>8, <2>9 DEF IfNext
<1> QED  BY <1>1, <1>2, <1>3, IfAlwaysInv, PTL DEF IfSpec, NoCallAgain
=============================================================================
