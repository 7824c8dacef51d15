---------------------------- MODULE QueueProofs ----------------------------
(***************************************************************************)
(* What holds of the queue for every number of items, chunks and workers,  *)
(* whichever of them may die, with or without -s and -m.                   *)
(***************************************************************************)
EXTENDS QueueRefinement, FiniteSets, Integers, FiniteSetTheorems, TLAPS

Locking == {"restat", "fork", "close"}
Listed == {"queued", "gone"}

(* Where a worker stands determines whether $fd is open, whether it has a  *)
(* child, and that $file is an item the directory has listed.              *)
PcInv ==
  \A w \in Workers :
    /\ fd[w] <=> pc[w] \in Locking \cup {"stat", "flock"}
    /\ child[w] # "none" => pc[w] \in {"close", "wait", "dead"}
    /\ pc[w] \notin {"off", "glob", "next", "sleep", "exited", "dead"}
         => file[w] # None
    /\ child[w] # "none" => file[w] # None
    /\ file[w] # None => name[file[w]] \in Listed
    /\ \A i \in todo[w] : name[i] \in Listed

(* A lock is held from the flock until the fork and while the program      *)
(* runs, and no two locks are on the same item.                            *)
LockInv ==
  /\ \A w \in locked : pc[w] \in Locking \/ child[w] = "running"
  /\ \A w \in Workers :
       pc[w] \in {"restat", "fork"} \/ child[w] = "running" => w \in locked
  /\ \A w, v \in locked : w # v => file[w] # file[v]

(* Whoever is about to remove an item has a program that accepted it.      *)
DoneInv ==
  /\ \A w \in Workers : child[w] = "ok" \/ pc[w] = "unlink" => <<w,
      file[w]>> \in done
  /\ RemovedOnlyIfHandled

(* queue-add stores what it reads, and renames when it has read it all.    *)
WholeInv ==
  \A i \in Items : /\ stored[i] = taken[i]
                   /\ name[i] \in {"queued", "gone"} => taken[i] = Chunks

(* A worker is doomed when the item it works on has been removed: if its   *)
(* program accepts the item, the worker dies in unlink.  Some worker is    *)
(* not: the one that removed an item last is about to look for another.    *)
Doomed(w) ==
  /\ pc[w] \in Locking \cup {"stat", "flock", "wait", "unlink"}
  /\ name[file[w]] = "gone"

SurvivorInv ==
  /\ MayDie = {}
  /\ \E w \in Workers : pc[w] # "off"
  => \E w \in Workers : pc[w] \notin {"off", "dead"} /\ ~ Doomed(w)

(* After a worker's program has accepted an item, the worker removes the   *)
(* item or dies, and never has the item open again.                        *)
OnceInv ==
  \A w \in Workers, i \in Items : <<w, i>> \in done =>
    /\ child[w] = "running" \/ pc[w] \in {"stat", "flock", "restat", "fork"}
         => file[w] # i
    /\ \/ name[i] = "gone"
       \/ pc[w] = "dead"
       \/ file[w] = i /\ (child[w] = "ok" \/ pc[w] = "unlink")

-----------------------------------------------------------------------------
(* The variables keep to their domains, and where a worker stands agrees   *)
(* with its descriptor, its child and its file.                            *)
THEOREM TypeCorrect == Spec => [](TypeOK /\ PcInv)
  <1>1. Init => TypeOK /\ PcInv
    BY ParametersOK DEF Init, TypeOK, PCs, PcInv, Locking, Listed
  <1>2. TypeOK /\ PcInv /\ [Next]_vars => (TypeOK /\ PcInv)'
    <2> SUFFICES ASSUME TypeOK, PcInv, [Next]_vars PROVE (TypeOK /\ PcInv)'
      OBVIOUS
    <2> USE DEF TypeOK, PCs, PcInv, Locking, Listed, addVars, workerVars, Goto
    <2>1. ASSUME NEW i \in Items, Add(i) PROVE (TypeOK /\ PcInv)'
      BY <2>1, ParametersOK DEF Add, AddOpen, AddCopy, AddRename, AddDies
    <2>2. ASSUME NEW w \in Workers, Step(w) PROVE (TypeOK /\ PcInv)'
      <3>1. CASE Start(w)
        BY <3>1 DEF Start
      <3>2. CASE Glob(w)
        BY <3>2 DEF Glob
      <3>3. CASE TakeFile(w)
        <4>1. PICK i \in todo[w] :
                /\ file' = [file EXCEPT ![w] = i]
                /\ todo' = [todo EXCEPT ![w] = @ \ {i}]
          BY <3>3 DEF TakeFile
        <4>2. i \in Items /\ i # None
          BY ParametersOK
        <4>3. num' \in [Workers -> Nat]
          BY <3>3 DEF TakeFile
        <4> QED BY <3>3, <4>1, <4>2, <4>3 DEF TakeFile
      <3>4. CASE MaxReached(w)
        BY <3>4 DEF MaxReached
      <3>5. CASE EndPass(w)
        BY <3>5 DEF EndPass
      <3>6. CASE Sleep(w)
        BY <3>6 DEF Sleep
      <3>7. CASE IsFile(w)
        BY <3>7 DEF IsFile
      <3>8. CASE Open(w)
        BY <3>8 DEF Open
      <3>9. CASE StatBefore(w)
        BY <3>9 DEF StatBefore, Links
      <3>10. CASE Flock(w)
        BY <3>10 DEF Flock, Conflict
      <3>11. CASE WouldBlock(w)
        BY <3>11 DEF WouldBlock
      <3>12. CASE StatAfter(w)
        BY <3>12 DEF StatAfter
      <3>13. CASE AlreadyHandled(w)
        BY <3>13 DEF AlreadyHandled
      <3>14. CASE Fork(w)
        BY <3>14 DEF Fork
      <3>15. CASE CloseFd(w)
        BY <3>15 DEF CloseFd
      <3>16. CASE Wait(w)
        BY <3>16 DEF Wait
      <3>17. CASE Unlink(w)
        BY <3>17 DEF Unlink
      <3>18. CASE UnlinkDies(w)
        BY <3>18 DEF UnlinkDies
      <3> QED
        BY <2>2, <3>1, <3>2, <3>3, <3>4, <3>5, <3>6, <3>7, <3>8, <3>9,
            <3>10, <3>11, <3>12, <3>13, <3>14, <3>15, <3>16, <3>17, <3>18 DEF
            Step
    <2>3. ASSUME NEW w \in Workers, Dies(w) PROVE (TypeOK /\ PcInv)'
      BY <2>3 DEF Dies
    <2>4. ASSUME NEW w \in Workers, NEW s \in {"ok", "failed"},
        ProgramExits(w, s)
          PROVE  (TypeOK /\ PcInv)'
      BY <2>4 DEF ProgramExits
    <2>5. CASE UNCHANGED vars
      BY <2>5 DEF vars
    <2> QED BY <2>1, <2>2, <2>3, <2>4, <2>5 DEF Next
  <1>3. QED BY <1>1, <1>2, PTL DEF Spec

(* Locks are exclusive and are held around every run of the program.       *)
LEMMA LocksExclusive == Spec => []LockInv
  <1>1. Init => LockInv
    BY DEF Init, LockInv, Locking
  <1>2. TypeOK /\ PcInv /\ LockInv /\ [Next]_vars => LockInv'
    <2> SUFFICES ASSUME TypeOK, PcInv, LockInv, [Next]_vars PROVE LockInv'
      OBVIOUS
    <2> USE DEF TypeOK, PcInv, LockInv, Locking, addVars, workerVars, Goto
    <2>1. ASSUME NEW i \in Items, Add(i) PROVE LockInv'
      BY <2>1 DEF Add, AddOpen, AddCopy, AddRename, AddDies
    <2>2. ASSUME NEW w \in Workers, Step(w) PROVE LockInv'
      <3>1. CASE Start(w)
        BY <3>1 DEF Start
      <3>2. CASE Glob(w)
        BY <3>2 DEF Glob
      <3>3. CASE TakeFile(w)
        BY <3>3 DEF TakeFile
      <3>4. CASE MaxReached(w)
        BY <3>4 DEF MaxReached
      <3>5. CASE EndPass(w)
        BY <3>5 DEF EndPass
      <3>6. CASE Sleep(w)
        BY <3>6 DEF Sleep
      <3>7. CASE IsFile(w)
        BY <3>7 DEF IsFile
      <3>8. CASE Open(w)
        BY <3>8 DEF Open
      <3>9. CASE StatBefore(w)
        BY <3>9 DEF StatBefore, Links
      <3>10. CASE Flock(w)
        BY <3>10 DEF Flock, Conflict
      <3>11. CASE WouldBlock(w)
        BY <3>11 DEF WouldBlock
      <3>12. CASE StatAfter(w)
        BY <3>12 DEF StatAfter
      <3>13. CASE AlreadyHandled(w)
        BY <3>13 DEF AlreadyHandled
      <3>14. CASE Fork(w)
        BY <3>14 DEF Fork
      <3>15. CASE CloseFd(w)
        BY <3>15 DEF CloseFd
      <3>16. CASE Wait(w)
        BY <3>16 DEF Wait
      <3>17. CASE Unlink(w)
        BY <3>17 DEF Unlink
      <3>18. CASE UnlinkDies(w)
        BY <3>18 DEF UnlinkDies
      <3> QED
        BY <2>2, <3>1, <3>2, <3>3, <3>4, <3>5, <3>6, <3>7, <3>8, <3>9,
            <3>10, <3>11, <3>12, <3>13, <3>14, <3>15, <3>16, <3>17, <3>18 DEF
            Step
    <2>3. ASSUME NEW w \in Workers, Dies(w) PROVE LockInv'
      BY <2>3 DEF Dies
    <2>4. ASSUME NEW w \in Workers, NEW s \in {"ok", "failed"},
        ProgramExits(w, s)
          PROVE  LockInv'
      BY <2>4 DEF ProgramExits
    <2>5. CASE UNCHANGED vars
      BY <2>5 DEF vars
    <2> QED BY <2>1, <2>2, <2>3, <2>4, <2>5 DEF Next
  <1>3. QED BY <1>1, <1>2, TypeCorrect, PTL DEF Spec

(* Two programs are never fed the same item at the same time, however many *)
(* workers there are and whichever of them die.                            *)
THEOREM ExclusiveRuns == Spec => []NoConcurrentRuns
  <1>1. LockInv => NoConcurrentRuns
    BY DEF LockInv, NoConcurrentRuns
  <1>2. QED BY <1>1, LocksExclusive, PTL

(* A worker that is about to remove an item has a program that accepted it. *)
LEMMA DoneCorrect == Spec => []DoneInv
  <1>1. Init => DoneInv
    BY DEF Init, DoneInv, RemovedOnlyIfHandled
  <1>2. TypeOK /\ PcInv /\ DoneInv /\ [Next]_vars => DoneInv'
    <2> SUFFICES ASSUME TypeOK, PcInv, DoneInv, [Next]_vars PROVE DoneInv'
      OBVIOUS
    <2> USE DEF TypeOK, PcInv, DoneInv, RemovedOnlyIfHandled, addVars,
        workerVars, Goto
    <2>1. ASSUME NEW i \in Items, Add(i) PROVE DoneInv'
      BY <2>1 DEF Add, AddOpen, AddCopy, AddRename, AddDies
    <2>2. ASSUME NEW w \in Workers, Step(w) PROVE DoneInv'
      <3>1. CASE Start(w)
        BY <3>1 DEF Start
      <3>2. CASE Glob(w)
        BY <3>2 DEF Glob
      <3>3. CASE TakeFile(w)
        BY <3>3 DEF TakeFile
      <3>4. CASE MaxReached(w)
        BY <3>4 DEF MaxReached
      <3>5. CASE EndPass(w)
        BY <3>5 DEF EndPass
      <3>6. CASE Sleep(w)
        BY <3>6 DEF Sleep
      <3>7. CASE IsFile(w)
        BY <3>7 DEF IsFile
      <3>8. CASE Open(w)
        BY <3>8 DEF Open
      <3>9. CASE StatBefore(w)
        BY <3>9 DEF StatBefore, Links
      <3>10. CASE Flock(w)
        BY <3>10 DEF Flock, Conflict
      <3>11. CASE WouldBlock(w)
        BY <3>11 DEF WouldBlock
      <3>12. CASE StatAfter(w)
        BY <3>12 DEF StatAfter
      <3>13. CASE AlreadyHandled(w)
        BY <3>13 DEF AlreadyHandled
      <3>14. CASE Fork(w)
        BY <3>14 DEF Fork
      <3>15. CASE CloseFd(w)
        BY <3>15 DEF CloseFd
      <3>16. CASE Wait(w)
        BY <3>16 DEF Wait
      <3>17. CASE Unlink(w)
        BY <3>17 DEF Unlink
      <3>18. CASE UnlinkDies(w)
        BY <3>18 DEF UnlinkDies
      <3> QED
        BY <2>2, <3>1, <3>2, <3>3, <3>4, <3>5, <3>6, <3>7, <3>8, <3>9,
            <3>10, <3>11, <3>12, <3>13, <3>14, <3>15, <3>16, <3>17, <3>18 DEF
            Step
    <2>3. ASSUME NEW w \in Workers, Dies(w) PROVE DoneInv'
      BY <2>3 DEF Dies
    <2>4. ASSUME NEW w \in Workers, NEW s \in {"ok", "failed"},
        ProgramExits(w, s)
          PROVE  DoneInv'
      BY <2>4 DEF ProgramExits
    <2>5. CASE UNCHANGED vars
      BY <2>5 DEF vars
    <2> QED BY <2>1, <2>2, <2>3, <2>4, <2>5 DEF Next
  <1>3. QED BY <1>1, <1>2, TypeCorrect, PTL DEF Spec

(* An item is removed only by a worker whose program accepted it: nothing  *)
(* that was queued is ever lost.                                           *)
THEOREM NothingLost == Spec => []RemovedOnlyIfHandled
  BY DoneCorrect, PTL DEF DoneInv

(* As long as the disk does not fill up, every item a worker can see is    *)
(* complete, wherever the calls of queue-add stop.                         *)
THEOREM WholeItems == ASSUME ~ DiskMayFill PROVE Spec => []ItemComplete
  <1>1. Init => WholeInv
    BY DEF Init, WholeInv
  <1>2. TypeOK /\ WholeInv /\ [Next]_vars => WholeInv'
    <2> SUFFICES ASSUME TypeOK, WholeInv, [Next]_vars PROVE WholeInv'
      OBVIOUS
    <2> USE DEF TypeOK, WholeInv, workerVars
    <2>1. ASSUME NEW i \in Items, Add(i) PROVE WholeInv'
      BY <2>1 DEF Add, AddOpen, AddCopy, AddRename, AddDies
    <2>2. ASSUME NEW w \in Workers, Unlink(w) PROVE WholeInv'
      BY <2>2 DEF Unlink
    <2>3. CASE UNCHANGED addVars
      BY <2>3 DEF addVars
    <2>4. ASSUME NEW w \in Workers, Step(w), ~ Unlink(w) PROVE UNCHANGED
        addVars
      BY <2>4 DEF Step, Start, Glob, TakeFile, MaxReached, EndPass, Sleep,
          IsFile, Open, StatBefore, Flock, WouldBlock, StatAfter,
          AlreadyHandled, Fork, CloseFd, Wait, UnlinkDies
    <2>5. ASSUME NEW w \in Workers, Dies(w) PROVE UNCHANGED addVars
      BY <2>5 DEF Dies
    <2>6. ASSUME NEW w \in Workers, NEW s \in {"ok", "failed"},
        ProgramExits(w, s) PROVE UNCHANGED addVars
      BY <2>6 DEF ProgramExits
    <2>7. CASE UNCHANGED vars
      BY <2>7 DEF vars
    <2> QED BY <2>1, <2>2, <2>3, <2>4, <2>5, <2>6, <2>7 DEF Next
  <1>3. WholeInv /\ TypeOK => ItemComplete
    BY DEF WholeInv, TypeOK, ItemComplete
  <1>4. QED BY <1>1, <1>2, <1>3, TypeCorrect, PTL DEF Spec

(* Unless workers are killed, the workers that die because another one     *)
(* removed their item first are never all that were started.               *)
THEOREM Survivors == Spec => []SomeWorkerSurvives
  <1>1. Init => SurvivorInv
    BY DEF Init, SurvivorInv
  <1>2. TypeOK /\ PcInv /\ SurvivorInv /\ [Next]_vars => SurvivorInv'
    <2> SUFFICES ASSUME TypeOK, PcInv, SurvivorInv, [Next]_vars PROVE
        SurvivorInv'
      OBVIOUS
    <2> USE DEF TypeOK, PcInv, SurvivorInv, Doomed, Locking, Listed,
        addVars, workerVars, Goto
    <2>1. ASSUME NEW i \in Items, Add(i) PROVE SurvivorInv'
      BY <2>1 DEF Add, AddOpen, AddCopy, AddRename, AddDies
    <2>2. ASSUME NEW w \in Workers, Step(w) PROVE SurvivorInv'
      <3>1. CASE Start(w)
        BY <3>1 DEF Start
      <3>2. CASE Glob(w)
        BY <3>2 DEF Glob
      <3>3. CASE TakeFile(w)
        BY <3>3 DEF TakeFile
      <3>4. CASE MaxReached(w)
        BY <3>4 DEF MaxReached
      <3>5. CASE EndPass(w)
        BY <3>5 DEF EndPass
      <3>6. CASE Sleep(w)
        BY <3>6 DEF Sleep
      <3>7. CASE IsFile(w)
        BY <3>7 DEF IsFile
      <3>8. CASE Open(w)
        BY <3>8 DEF Open
      <3>9. CASE StatBefore(w)
        BY <3>9 DEF StatBefore, Links
      <3>10. CASE Flock(w)
        BY <3>10 DEF Flock, Conflict
      <3>11. CASE WouldBlock(w)
        BY <3>11 DEF WouldBlock
      <3>12. CASE StatAfter(w)
        BY <3>12 DEF StatAfter
      <3>13. CASE AlreadyHandled(w)
        BY <3>13 DEF AlreadyHandled
      <3>14. CASE Fork(w)
        BY <3>14 DEF Fork
      <3>15. CASE CloseFd(w)
        BY <3>15 DEF CloseFd
      <3>16. CASE Wait(w)
        BY <3>16 DEF Wait
      <3>17. CASE Unlink(w)
        BY <3>17 DEF Unlink
      <3>18. CASE UnlinkDies(w)
        BY <3>18 DEF UnlinkDies
      <3> QED
        BY <2>2, <3>1, <3>2, <3>3, <3>4, <3>5, <3>6, <3>7, <3>8, <3>9,
            <3>10, <3>11, <3>12, <3>13, <3>14, <3>15, <3>16, <3>17, <3>18 DEF
            Step
    <2>3. ASSUME NEW w \in Workers, Dies(w) PROVE SurvivorInv'
      BY <2>3 DEF Dies
    <2>4. ASSUME NEW w \in Workers, NEW s \in {"ok", "failed"},
        ProgramExits(w, s)
          PROVE  SurvivorInv'
      BY <2>4 DEF ProgramExits
    <2>5. CASE UNCHANGED vars
      BY <2>5 DEF vars
    <2> QED BY <2>1, <2>2, <2>3, <2>4, <2>5 DEF Next
  <1>3. SurvivorInv => SomeWorkerSurvives
    BY DEF SurvivorInv, SomeWorkerSurvives
  <1>4. QED BY <1>1, <1>2, <1>3, TypeCorrect, PTL DEF Spec

(* No worker gets exit status 0 twice for the same item.                   *)
THEOREM AcceptedOncePerWorker == Spec => OncePerWorker
  <1>1. Init => OnceInv
    BY DEF Init, OnceInv
  <1>2. TypeOK /\ PcInv /\ OnceInv /\ [Next]_vars => OnceInv'
    <2> SUFFICES ASSUME TypeOK, PcInv, OnceInv, [Next]_vars PROVE OnceInv'
      OBVIOUS
    <2> USE DEF TypeOK, PcInv, OnceInv, Locking, addVars, workerVars, Goto
    <2>1. ASSUME NEW i \in Items, Add(i) PROVE OnceInv'
      BY <2>1 DEF Add, AddOpen, AddCopy, AddRename, AddDies
    <2>2. ASSUME NEW w \in Workers, Step(w) PROVE OnceInv'
      <3>1. CASE Start(w)
        BY <3>1 DEF Start
      <3>2. CASE Glob(w)
        BY <3>2 DEF Glob
      <3>3. CASE TakeFile(w)
        BY <3>3 DEF TakeFile
      <3>4. CASE MaxReached(w)
        BY <3>4 DEF MaxReached
      <3>5. CASE EndPass(w)
        BY <3>5 DEF EndPass
      <3>6. CASE Sleep(w)
        BY <3>6 DEF Sleep
      <3>7. CASE IsFile(w)
        BY <3>7 DEF IsFile
      <3>8. CASE Open(w)
        BY <3>8 DEF Open
      <3>9. CASE StatBefore(w)
        BY <3>9 DEF StatBefore, Links
      <3>10. CASE Flock(w)
        BY <3>10 DEF Flock, Conflict
      <3>11. CASE WouldBlock(w)
        BY <3>11 DEF WouldBlock
      <3>12. CASE StatAfter(w)
        BY <3>12 DEF StatAfter
      <3>13. CASE AlreadyHandled(w)
        BY <3>13 DEF AlreadyHandled
      <3>14. CASE Fork(w)
        BY <3>14 DEF Fork
      <3>15. CASE CloseFd(w)
        BY <3>15 DEF CloseFd
      <3>16. CASE Wait(w)
        BY <3>16 DEF Wait
      <3>17. CASE Unlink(w)
        BY <3>17 DEF Unlink
      <3>18. CASE UnlinkDies(w)
        BY <3>18 DEF UnlinkDies
      <3> QED
        BY <2>2, <3>1, <3>2, <3>3, <3>4, <3>5, <3>6, <3>7, <3>8, <3>9,
            <3>10, <3>11, <3>12, <3>13, <3>14, <3>15, <3>16, <3>17, <3>18 DEF
            Step
    <2>3. ASSUME NEW w \in Workers, Dies(w) PROVE OnceInv'
      BY <2>3 DEF Dies
    <2>4. ASSUME NEW w \in Workers, NEW s \in {"ok", "failed"},
        ProgramExits(w, s)
          PROVE  OnceInv'
      BY <2>4 DEF ProgramExits
    <2>5. CASE UNCHANGED vars
      BY <2>5 DEF vars
    <2> QED BY <2>1, <2>2, <2>3, <2>4, <2>5 DEF Next
  <1>3. ASSUME TypeOK, PcInv, OnceInv
        PROVE  [\A w \in Workers :
                  child[w] = "running" /\ child'[w] = "ok"
                    => <<w, file[w]>> \notin done]_vars
    <2>1. ASSUME NEW w \in Workers, child[w] = "running"
          PROVE  <<w, file[w]>> \notin done
      <3>1. file[w] \in Items
        BY <2>1, <1>3 DEF TypeOK, PcInv
      <3> QED BY <2>1, <1>3, <3>1 DEF OnceInv
    <2> QED BY <2>1
  <1>4. QED
    BY <1>1, <1>2, <1>3, TypeCorrect, PTL DEF Spec, OncePerWorker

(* The processes implement the exclusive at-least-once queue.              *)
THEOREM Refinement == Spec => ImplementsQueueAbs
  <1>1. Init => Abs!Init
    BY DEF Init, Abs!Init, Visible, Removed, Busy, Accepted
  <1>2. TypeOK /\ PcInv /\ LockInv /\ DoneInv /\ [Next]_vars =>
      [Abs!Next]_Abs!vars
    <2> SUFFICES ASSUME TypeOK, PcInv, LockInv, DoneInv, [Next]_vars
                 PROVE  Abs!Next \/ UNCHANGED Abs!vars
      OBVIOUS
    <2> USE DEF TypeOK, Abs!vars, Visible, Removed, Busy, Accepted
    <2>1. ASSUME NEW i \in Items, AddRename(i) PROVE Abs!Add(i)
      BY <2>1 DEF AddRename, Abs!Add, workerVars
    <2>2. ASSUME NEW i \in Items, AddOpen(i) \/ AddCopy(i) \/ AddDies(i)
          PROVE  UNCHANGED Abs!vars
      <3>1. CASE AddOpen(i)
        BY <3>1 DEF AddOpen, workerVars
      <3>2. CASE AddCopy(i)
        BY <3>2 DEF AddCopy, workerVars
      <3>3. CASE AddDies(i)
        BY <3>3 DEF AddDies, workerVars
      <3> QED BY <2>2, <3>1, <3>2, <3>3
    <2>3. ASSUME NEW w \in Workers, NEW i \in Items, i = file[w], Fork(w)
          PROVE  Abs!Begin(i)
      <3>1. name[i] \in {"queued", "gone"}
        BY <2>3 DEF Fork, Goto, PcInv, Listed
      <3>2. i \notin Busy
        BY <2>3 DEF Fork, Goto, PcInv, LockInv
      <3>3. Busy' = Busy \cup {i}
        BY <2>3 DEF Fork
      <3>4. UNCHANGED <<Visible, Removed, Accepted>>
        BY <2>3 DEF Fork, addVars
      <3> QED BY <3>1, <3>2, <3>3, <3>4 DEF Abs!Begin
    <2>4. ASSUME NEW w \in Workers, NEW i \in Items, i = file[w],
                 NEW s \in {"ok", "failed"}, ProgramExits(w, s)
          PROVE  Abs!Accept(i) \/ Abs!Reject(i)
      <3>1. i \in Busy
        BY <2>4 DEF ProgramExits
      <3>2. Busy' = Busy \ {i}
        BY <2>4 DEF ProgramExits, LockInv
      <3>3. UNCHANGED <<Visible, Removed>>
        BY <2>4 DEF ProgramExits, addVars
      <3>4. CASE s = "ok"
        <4>1. Accepted' = Accepted \cup {i}
          BY <2>4, <3>1, <3>4 DEF ProgramExits
        <4> QED BY <3>1, <3>2, <3>3, <4>1 DEF Abs!Accept
      <3>5. CASE s = "failed"
        <4>1. Accepted' = Accepted
          BY <2>4, <3>5 DEF ProgramExits
        <4> QED BY <3>1, <3>2, <3>3, <4>1 DEF Abs!Reject
      <3> QED BY <3>4, <3>5
    <2>5. ASSUME NEW w \in Workers, NEW i \in Items, i = file[w], Unlink(w)
          PROVE  Abs!Remove(i)
      <3>1. <<w, i>> \in done
        BY <2>5 DEF Unlink, Goto, DoneInv
      <3> QED BY <2>5, <3>1 DEF Unlink, Abs!Remove
    <2>6. ASSUME NEW w \in Workers, Step(w), ~ Fork(w), ~ Unlink(w)
          PROVE  UNCHANGED Abs!vars
      <3>1. CASE Start(w)
        BY <3>1 DEF Start, addVars
      <3>2. CASE Glob(w)
        BY <3>2 DEF Glob, addVars
      <3>3. CASE TakeFile(w)
        BY <3>3 DEF TakeFile, addVars, PcInv, Goto
      <3>4. CASE MaxReached(w)
        BY <3>4 DEF MaxReached, addVars
      <3>5. CASE EndPass(w)
        BY <3>5 DEF EndPass, addVars
      <3>6. CASE Sleep(w)
        BY <3>6 DEF Sleep, addVars
      <3>7. CASE IsFile(w)
        BY <3>7 DEF IsFile, addVars
      <3>8. CASE Open(w)
        BY <3>8 DEF Open, addVars
      <3>9. CASE StatBefore(w)
        BY <3>9 DEF StatBefore, addVars
      <3>10. CASE Flock(w)
        BY <3>10 DEF Flock, addVars
      <3>11. CASE WouldBlock(w)
        BY <3>11 DEF WouldBlock, addVars
      <3>12. CASE StatAfter(w)
        BY <3>12 DEF StatAfter, addVars
      <3>13. CASE AlreadyHandled(w)
        BY <3>13 DEF AlreadyHandled, addVars
      <3>14. CASE CloseFd(w)
        BY <3>14 DEF CloseFd, addVars
      <3>15. CASE Wait(w)
        BY <3>15 DEF Wait, addVars
      <3>16. CASE UnlinkDies(w)
        BY <3>16 DEF UnlinkDies, addVars
      <3> QED
        BY <2>6, <3>1, <3>2, <3>3, <3>4, <3>5, <3>6, <3>7, <3>8, <3>9,
            <3>10, <3>11, <3>12, <3>13, <3>14, <3>15, <3>16 DEF Step
    <2>7. ASSUME NEW w \in Workers, Dies(w) PROVE UNCHANGED Abs!vars
      BY <2>7 DEF Dies, addVars
    <2>8. CASE UNCHANGED vars
      BY <2>8 DEF vars
    <2>9. ASSUME NEW w \in Workers, Fork(w) \/ Unlink(w) \/ child[w] = "running"
          PROVE  file[w] \in Items
      BY <2>9 DEF Fork, Unlink, Goto, PcInv
    <2> HIDE DEF TypeOK, Abs!vars
    <2>10. ASSUME NEW i \in Items, Add(i) PROVE Abs!Next \/ UNCHANGED Abs!vars
      <3>1. CASE AddRename(i)
        BY <2>1, <3>1 DEF Abs!Next
      <3> QED BY <2>2, <2>10, <3>1 DEF Add
    <2>11. ASSUME NEW w \in Workers, Step(w)
           PROVE  Abs!Next \/ UNCHANGED Abs!vars
      <3>1. CASE Fork(w)
        <4>1. PICK i \in Items : i = file[w]
          BY <2>9, <3>1
        <4> QED BY <2>3, <3>1, <4>1 DEF Abs!Next
      <3>2. CASE Unlink(w)
        <4>1. PICK i \in Items : i = file[w]
          BY <2>9, <3>2
        <4> QED BY <2>5, <3>2, <4>1 DEF Abs!Next
      <3> QED BY <2>6, <2>11, <3>1, <3>2
    <2>12. ASSUME NEW w \in Workers, NEW s \in {"ok", "failed"},
                  ProgramExits(w, s)
           PROVE  Abs!Next
      <3>1. child[w] = "running"
        BY <2>12 DEF ProgramExits
      <3>2. PICK i \in Items : i = file[w]
        BY <2>9, <3>1
      <3> QED BY <2>4, <2>12, <3>2 DEF Abs!Next
    <2> QED BY <2>7, <2>8, <2>10, <2>11, <2>12 DEF Next
  <1>3. QED
    BY <1>1, <1>2, TypeCorrect, LocksExclusive, DoneCorrect, PTL
    DEF Spec, ImplementsQueueAbs, Abs!Spec
-----------------------------------------------------------------------------
(* The safety half of EventuallyRemoved: how many system calls a worker    *)
(* still makes, at most, before it is through with its glob.               *)
Ahead ==
  [next |-> 0, unlink |-> 1, wait |-> 2, close |-> 3, fork |-> 4,
   restat |-> 5, flock |-> 6, stat |-> 7, open |-> 8, isfile |-> 9]

InPass(w) == pc[w] \in DOMAIN Ahead
CallsLeft(w) == 10 * Cardinality(todo[w]) + Ahead[pc[w]]

(* Every call a worker makes brings it nearer to the end of its pass, and  *)
(* no other process, queue-add included, ever makes the pass longer.       *)
PassShrinks ==
  [][\A w \in Workers :
       InPass(w) /\ InPass(w)' =>
         \/ CallsLeft(w)' < CallsLeft(w)
         \/ UNCHANGED <<pc[w], todo[w]>>]_vars

(* waitpid has a child to wait for: all that can hold a worker up is the   *)
(* program it has started.                                                 *)
OnlyProgramsHoldUp == \A w \in Workers : pc[w] = "wait" => child[w] # "none"

HasChild == \A w \in Workers : pc[w] \in {"close", "wait"} => child[w] # "none"

LEMMA TodoIsFinite ==
  ASSUME NEW S \in SUBSET Items
  PROVE  /\ IsFiniteSet(S)
         /\ Cardinality(S) \in Nat
         /\ \A i \in S : Cardinality(S \ {i}) = Cardinality(S) - 1
  <1>1. \A m, n \in Int : IsFiniteSet(m .. n)
    BY FS_Interval, Zenon
  <1>2. 1 \in Int /\ NumItems \in Int
    BY ParametersOK
  <1>3. IsFiniteSet(Items)
    BY <1>1, <1>2 DEF Items
  <1>4. IsFiniteSet(S)
    BY <1>3, FS_Subset
  <1> QED BY <1>4, FS_CardinalityType, FS_RemoveElement

(* A pass over the queue ends, unless a program it starts never does: no   *)
(* worker makes more calls than ten for every file its glob returned.      *)
THEOREM PassesEnd == Spec => PassShrinks /\ []OnlyProgramsHoldUp
  <1>1. TypeOK /\ PcInv /\ [Next]_vars =>
          \A w \in Workers :
            InPass(w) /\ InPass(w)' =>
              \/ CallsLeft(w)' < CallsLeft(w)
              \/ UNCHANGED <<pc[w], todo[w]>>
    <2> SUFFICES ASSUME TypeOK, [Next]_vars, NEW w \in Workers, InPass(w),
                        InPass(w)', ~ UNCHANGED <<pc[w], todo[w]>>
                 PROVE  CallsLeft(w)' < CallsLeft(w)
      OBVIOUS
    <2>1. todo[w] \in SUBSET Items /\ pc \in [Workers -> PCs]
      BY DEF TypeOK
    <2>2. PICK n \in Nat : n = Cardinality(todo[w])
      BY <2>1, TodoIsFinite
    <2>3. todo'[w] = todo[w] =>
            (Ahead[pc'[w]] < Ahead[pc[w]] => CallsLeft(w)' < CallsLeft(w))
      <3>1. Ahead[pc'[w]] \in Nat /\ Ahead[pc[w]] \in Nat
        BY DEF InPass, Ahead
      <3> QED BY <2>2, <3>1 DEF CallsLeft
    <2> USE DEF Goto, addVars, workerVars
    <2>4. ~ UNCHANGED <<pc, todo>>
      OBVIOUS
    <2>5. PICK v \in Workers : Step(v) \/ Dies(v)
      BY <2>4 DEF Next, vars, Add, AddOpen, AddCopy, AddRename, AddDies,
         ProgramExits
    <2>6. v = w
      BY <2>1, <2>5 DEF Step, Start, Glob, TakeFile, MaxReached, EndPass, Sleep,
          IsFile, Open, StatBefore, Flock, WouldBlock, StatAfter,
          AlreadyHandled, Fork, CloseFd, Wait, Unlink, UnlinkDies, Dies, TypeOK
    <2>7. CASE TakeFile(w)
      <3>1. PICK i \in todo[w] : todo' = [todo EXCEPT ![w] = @ \ {i}]
        BY <2>7 DEF TakeFile
      <3>2. Cardinality(todo'[w]) = n - 1
        BY <2>1, <2>2, <3>1, TodoIsFinite DEF TypeOK
      <3>3. pc[w] = "next" /\ pc'[w] = "isfile"
        BY <2>1, <2>7 DEF TakeFile
      <3>4. Ahead[pc[w]] = 0 /\ Ahead[pc'[w]] = 9
        BY <3>3 DEF Ahead
      <3> QED BY <2>2, <3>2, <3>4 DEF CallsLeft
    <2>8. CASE Step(w) /\ ~ TakeFile(w)
      <3>1. ~ Start(w) /\ ~ Glob(w) /\ ~ Sleep(w)
        BY <2>1 DEF Start, Glob, Sleep, InPass, Ahead
      <3>2. ~ MaxReached(w) /\ ~ EndPass(w) /\ ~ UnlinkDies(w)
        BY <2>1 DEF MaxReached, EndPass, UnlinkDies, InPass, Ahead
      <3>3. todo' = todo
        BY <2>8, <3>1 DEF Step, MaxReached, EndPass, IsFile, Open,
            StatBefore, Flock, WouldBlock, StatAfter, AlreadyHandled, Fork,
            CloseFd, Wait, Unlink, UnlinkDies
      <3>4. Ahead[pc'[w]] < Ahead[pc[w]]
        BY <2>1, <2>8, <3>1, <3>2 DEF Step, IsFile, Open, StatBefore, Flock,
            WouldBlock, StatAfter, AlreadyHandled, Fork, CloseFd, Wait,
            Unlink, Ahead
      <3> QED BY <2>3, <3>3, <3>4
    <2>9. ~ Dies(w)
      BY <2>1 DEF Dies, InPass, Ahead
    <2> QED BY <2>5, <2>6, <2>7, <2>8, <2>9
  <1>2. Init => HasChild
    BY DEF Init, HasChild
  <1>3. TypeOK /\ HasChild /\ [Next]_vars => HasChild'
    <2> SUFFICES ASSUME TypeOK, HasChild, [Next]_vars PROVE HasChild'
      OBVIOUS
    <2> USE DEF TypeOK, HasChild, Goto, addVars, workerVars
    <2>1. ASSUME NEW i \in Items, Add(i) PROVE HasChild'
      BY <2>1 DEF Add, AddOpen, AddCopy, AddRename, AddDies
    <2>2. ASSUME NEW w \in Workers, Step(w) PROVE HasChild'
      <3>1. CASE Fork(w)
        BY <3>1 DEF Fork
      <3>2. CASE CloseFd(w)
        BY <3>2 DEF CloseFd
      <3>3. CASE Wait(w)
        BY <3>3 DEF Wait
      <3>4. CASE ~ Fork(w) /\ ~ CloseFd(w) /\ ~ Wait(w)
        <4>1. child' = child
          BY <2>2, <3>4 DEF Step, Start, Glob, TakeFile, MaxReached, EndPass,
             Sleep, IsFile, Open, StatBefore, Flock, WouldBlock, StatAfter,
             AlreadyHandled, Unlink, UnlinkDies
        <4>2. \E p \in PCs \ {"close", "wait"} : pc' = [pc EXCEPT ![w] = p]
          BY <2>2, <3>4 DEF Step, Start, Glob, TakeFile, MaxReached, EndPass,
             Sleep, IsFile, Open, StatBefore, Flock, WouldBlock, StatAfter,
             AlreadyHandled, Unlink, UnlinkDies, PCs
        <4> QED BY <4>1, <4>2
      <3> QED BY <3>1, <3>2, <3>3, <3>4
    <2>3. ASSUME NEW w \in Workers, Dies(w) PROVE HasChild'
      BY <2>3 DEF Dies
    <2>4. ASSUME NEW w \in Workers, NEW s \in {"ok", "failed"},
                 ProgramExits(w, s)
          PROVE  HasChild'
      BY <2>4 DEF ProgramExits
    <2>5. CASE UNCHANGED vars
      BY <2>5 DEF vars
    <2> QED BY <2>1, <2>2, <2>3, <2>4, <2>5 DEF Next
  <1>4. HasChild => OnlyProgramsHoldUp
    BY DEF HasChild, OnlyProgramsHoldUp
  <1>5. QED BY <1>1, <1>2, <1>3, <1>4, TypeCorrect, PTL DEF Spec, PassShrinks
=============================================================================
