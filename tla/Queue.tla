------------------------------- MODULE Queue -------------------------------
(***************************************************************************)
(* The disk-backed queue of src/queue: any number of queue-add calls and   *)
(* any number of queue-worker processes that share one directory.          *)
(*                                                                         *)
(* An item is one call of queue() in queue-add: one inode, one temporary   *)
(* name and one final name.  The final name starts with the time of the    *)
(* call, so item numbers stand for names and their order for the order in  *)
(* which the worker's glob lists them; the order in which items BECOME     *)
(* visible is free.  Two calls never draw the same name (time, host, pid   *)
(* and a random number).                                                   *)
(*                                                                         *)
(* Each system call of either program is an atomic step; between two of    *)
(* them every other process may run.  A worker that is restarted is a new  *)
(* process, hence another member of Workers.                               *)
(***************************************************************************)
EXTENDS Naturals

CONSTANTS
  NumItems,     (* how many calls of queue() there are                     *)
  Chunks,       (* 32k reads that make up one item                         *)
  DiskMayFill,  (* whether a write of queue-add may fail                   *)
  Workers,      (* queue-worker processes                                  *)
  MayDie,       (* the workers that may be killed, or die of an error      *)
  Looping,      (* the workers with -s, which sleep and start over         *)
  MaxPerPass,   (* the argument of a worker's -m, 0 when it has none       *)
  None          (* "no file yet"                                           *)

Items == 1..NumItems

ASSUME ParametersOK ==
  /\ NumItems \in Nat \ {0}
  /\ Chunks \in Nat \ {0}
  /\ DiskMayFill \in BOOLEAN
  /\ MayDie \subseteq Workers
  /\ Looping \subseteq Workers
  /\ MaxPerPass \in [Workers -> Nat]
  /\ None \notin Items

VARIABLES
  name,    (* the name an item's inode has in the directory                *)
  taken,   (* chunks queue-add has read from its input                     *)
  stored,  (* chunks that are in the item's inode                          *)
  pc,      (* the system call a worker makes next                          *)
  todo,    (* what is left of the worker's glob                            *)
  num,     (* $num: files taken in this pass, counted for -m only          *)
  file,    (* $file                                                        *)
  fd,      (* whether the worker itself still has $fd open                 *)
  before,  (* $links_before                                                *)
  locked,  (* workers whose open file description of $file has the flock   *)
  child,   (* the forked program, from the fork to the waitpid             *)
  done     (* history: <<w, i>> once a program of w exited 0 on item i     *)

addVars == <<name, taken, stored>>
workerVars == <<pc, todo, num, file, fd, before, locked, child, done>>
vars == <<name, taken, stored, pc, todo, num, file, fd, before, locked,
          child, done>>

Init ==
  /\ name = [i \in Items |-> "none"]
  /\ taken = [i \in Items |-> 0]
  /\ stored = [i \in Items |-> 0]
  /\ pc = [w \in Workers |-> "off"]
  /\ todo = [w \in Workers |-> {}]
  /\ num = [w \in Workers |-> 0]
  /\ file = [w \in Workers |-> None]
  /\ fd = [w \in Workers |-> FALSE]
  /\ before = [w \in Workers |-> 0]
  /\ locked = {}
  /\ child = [w \in Workers |-> "none"]
  /\ done = {}

-----------------------------------------------------------------------------
(* queue-add.  Nothing looks at the result of print or close: when the     *)
(* disk is full the chunk is lost and the loop goes on.                    *)

AddOpen(i) ==
  /\ name[i] = "none"
  /\ name' = [name EXCEPT ![i] = "temp"]
  /\ UNCHANGED <<taken, stored, workerVars>>

AddCopy(i) ==
  /\ name[i] = "temp"
  /\ taken[i] < Chunks
  /\ taken' = [taken EXCEPT ![i] = @ + 1]
  /\ \/ stored' = [stored EXCEPT ![i] = @ + 1]
     \/ DiskMayFill /\ UNCHANGED stored
  /\ UNCHANGED <<name, workerVars>>

(* Mutant of AddRename: the file gets its name before it is complete.      *)
AddRenameEarly(i) ==
  /\ name[i] = "temp"
  /\ name' = [name EXCEPT ![i] = "queued"]
  /\ UNCHANGED <<taken, stored, workerVars>>

AddRename(i) ==
  /\ name[i] = "temp"
  /\ taken[i] = Chunks
  /\ name' = [name EXCEPT ![i] = "queued"]
  /\ UNCHANGED <<taken, stored, workerVars>>

(* Killed, or rename failed: the temporary file stays behind.              *)
AddDies(i) ==
  /\ name[i] = "temp"
  /\ name' = [name EXCEPT ![i] = "orphan"]
  /\ UNCHANGED <<taken, stored, workerVars>>

Add(i) == AddOpen(i) \/ AddCopy(i) \/ AddRename(i) \/ AddDies(i)

-----------------------------------------------------------------------------
(* queue-worker.                                                           *)

Goto(w, here, there) ==
  /\ pc[w] = here
  /\ pc' = [pc EXCEPT ![w] = there]

Links(i) == IF name[i] = "queued" THEN 1 ELSE 0

Start(w) ==
  /\ Goto(w, "off", "glob")
  /\ UNCHANGED <<addVars, todo, num, file, fd, before, locked, child, done>>

(* The pattern [1-9][0-9][0-9]* is expanded once per pass; it does not     *)
(* match the temporary names, which start with a dot.                      *)
Glob(w) ==
  /\ Goto(w, "glob", "next")
  /\ todo' = [todo EXCEPT ![w] = {i \in Items : name[i] = "queued"}]
  /\ num' = [num EXCEPT ![w] = 0]
  /\ UNCHANGED <<addVars, file, fd, before, locked, child, done>>

AtMax(w) == MaxPerPass[w] > 0 /\ num[w] >= MaxPerPass[w]

TakeFile(w) ==
  /\ Goto(w, "next", "isfile")
  /\ ~ AtMax(w)
  /\ \E i \in todo[w] :
       /\ \A j \in todo[w] : i <= j
       /\ file' = [file EXCEPT ![w] = i]
       /\ todo' = [todo EXCEPT ![w] = @ \ {i}]
  /\ num' = [num EXCEPT ![w] = IF MaxPerPass[w] > 0 THEN @ + 1 ELSE @]
  /\ UNCHANGED <<addVars, fd, before, locked, child, done>>

(* -m: the files that were skipped count too, and -s does not matter.      *)
MaxReached(w) ==
  /\ Goto(w, "next", "exited")
  /\ todo[w] # {}
  /\ AtMax(w)
  /\ UNCHANGED <<addVars, todo, num, file, fd, before, locked, child, done>>

(* Mutant of EndPass: -s is ignored.                                       *)
EndPassForGood(w) ==
  /\ Goto(w, "next", "exited")
  /\ todo[w] = {}
  /\ UNCHANGED <<addVars, todo, num, file, fd, before, locked, child, done>>

EndPass(w) ==
  /\ Goto(w, "next", IF w \in Looping THEN "sleep" ELSE "exited")
  /\ todo[w] = {}
  /\ UNCHANGED <<addVars, todo, num, file, fd, before, locked, child, done>>

(* Over when the time is, or a HUP interrupts it.                          *)
Sleep(w) ==
  /\ Goto(w, "sleep", "glob")
  /\ UNCHANGED <<addVars, todo, num, file, fd, before, locked, child, done>>

IsFile(w) ==
  /\ Goto(w, "isfile", IF name[file[w]] = "queued" THEN "open" ELSE "next")
  /\ UNCHANGED <<addVars, todo, num, file, fd, before, locked, child, done>>

Open(w) ==
  /\ Goto(w, "open", IF name[file[w]] = "queued" THEN "stat" ELSE "next")
  /\ fd' = [fd EXCEPT ![w] = name[file[w]] = "queued"]
  /\ UNCHANGED <<addVars, todo, num, file, before, locked, child, done>>

StatBefore(w) ==
  /\ Goto(w, "stat", "flock")
  /\ before' = [before EXCEPT ![w] = Links(file[w])]
  /\ UNCHANGED <<addVars, todo, num, file, fd, locked, child, done>>

(* Mutant of Conflict: the lock goes when the worker closes the file, as   *)
(* with fcntl, although the child still has it.                            *)
ConflictFcntl(w) == \E v \in locked : fd[v] /\ file[v] = file[w]

(* The lock belongs to the open file description and conflicts with that   *)
(* of every other open of the inode.                                       *)
Conflict(w) == \E v \in locked : file[v] = file[w]

(* Mutant of Flock: without LOCK_EX.                                       *)
FlockShared(w) ==
  /\ Goto(w, "flock", "restat")
  /\ locked' = locked \cup {w}
  /\ UNCHANGED <<addVars, todo, num, file, fd, before, child, done>>

Flock(w) ==
  /\ Goto(w, "flock", "restat")
  /\ ~ Conflict(w)
  /\ locked' = locked \cup {w}
  /\ UNCHANGED <<addVars, todo, num, file, fd, before, child, done>>

WouldBlock(w) ==
  /\ Goto(w, "flock", "next")
  /\ Conflict(w)
  /\ fd' = [fd EXCEPT ![w] = FALSE]
  /\ UNCHANGED <<addVars, todo, num, file, before, locked, child, done>>

Handled(w) == before[w] # Links(file[w])

StatAfter(w) ==
  /\ Goto(w, "restat", "fork")
  /\ ~ Handled(w)
  /\ UNCHANGED <<addVars, todo, num, file, fd, before, locked, child, done>>

AlreadyHandled(w) ==
  /\ Goto(w, "restat", "next")
  /\ Handled(w)
  /\ fd' = [fd EXCEPT ![w] = FALSE]
  /\ locked' = locked \ {w}
  /\ UNCHANGED <<addVars, todo, num, file, before, child, done>>

(* The child's standard input is a duplicate of $fd, so the open file      *)
(* description, and its lock, lives for as long as either process has it.  *)
Fork(w) ==
  /\ Goto(w, "fork", "close")
  /\ child' = [child EXCEPT ![w] = "running"]
  /\ UNCHANGED <<addVars, todo, num, file, fd, before, locked, done>>

CloseFd(w) ==
  /\ Goto(w, "close", "wait")
  /\ fd' = [fd EXCEPT ![w] = FALSE]
  /\ locked' = IF child[w] = "running" THEN locked ELSE locked \ {w}
  /\ UNCHANGED <<addVars, todo, num, file, before, child, done>>

(* The program, or the exit 1 after a failed exec, keeps its standard      *)
(* input open until it exits.                                              *)
ProgramExits(w, status) ==
  /\ child[w] = "running"
  /\ child' = [child EXCEPT ![w] = status]
  /\ done' = IF status = "ok" THEN done \cup {<<w, file[w]>>} ELSE done
  /\ locked' = IF fd[w] THEN locked ELSE locked \ {w}
  /\ UNCHANGED <<addVars, pc, todo, num, file, fd, before>>

(* Mutant of Wait: the exit status is not looked at.                       *)
WaitAnyStatus(w) ==
  /\ Goto(w, "wait", "unlink")
  /\ child[w] \in {"ok", "failed"}
  /\ child' = [child EXCEPT ![w] = "none"]
  /\ UNCHANGED <<addVars, todo, num, file, fd, before, locked, done>>

(* Mutant of Wait: a program that fails takes the worker with it.          *)
WaitOrDie(w) ==
  /\ Goto(w, "wait", IF child[w] = "ok" THEN "unlink" ELSE "dead")
  /\ child[w] \in {"ok", "failed"}
  /\ child' = [child EXCEPT ![w] = "none"]
  /\ UNCHANGED <<addVars, todo, num, file, fd, before, locked, done>>

(* Mutant of Wait: the unlink is forgotten.                                *)
WaitKeepsFile(w) ==
  /\ Goto(w, "wait", "next")
  /\ child[w] \in {"ok", "failed"}
  /\ child' = [child EXCEPT ![w] = "none"]
  /\ UNCHANGED <<addVars, todo, num, file, fd, before, locked, done>>

Wait(w) ==
  /\ Goto(w, "wait", IF child[w] = "ok" THEN "unlink" ELSE "next")
  /\ child[w] \in {"ok", "failed"}
  /\ child' = [child EXCEPT ![w] = "none"]
  /\ UNCHANGED <<addVars, todo, num, file, fd, before, locked, done>>

Unlink(w) ==
  /\ Goto(w, "unlink", "next")
  /\ name[file[w]] = "queued"
  /\ name' = [name EXCEPT ![file[w]] = "gone"]
  /\ UNCHANGED <<taken, stored, todo, num, file, fd, before, locked, child,
                 done>>

(* unlink ... or die, ENOENT included.                                     *)
UnlinkDies(w) ==
  /\ Goto(w, "unlink", "dead")
  /\ name[file[w]] # "queued"
  /\ UNCHANGED <<addVars, todo, num, file, fd, before, locked, child, done>>

(* Mutant of Dies: the lock outlives the processes.                        *)
DiesKeepsLock(w) ==
  /\ w \in MayDie
  /\ pc[w] \notin {"off", "exited", "dead"}
  /\ pc' = [pc EXCEPT ![w] = "dead"]
  /\ fd' = [fd EXCEPT ![w] = FALSE]
  /\ UNCHANGED <<addVars, todo, num, file, before, locked, child, done>>

(* Killed, or died because open, flock, fork or unlink failed in a way the *)
(* code does not expect.  A program it has started runs on.                *)
Dies(w) ==
  /\ w \in MayDie
  /\ pc[w] \notin {"off", "exited", "dead"}
  /\ pc' = [pc EXCEPT ![w] = "dead"]
  /\ fd' = [fd EXCEPT ![w] = FALSE]
  /\ locked' = IF child[w] = "running" THEN locked ELSE locked \ {w}
  /\ UNCHANGED <<addVars, todo, num, file, before, child, done>>

Step(w) ==
  \/ Start(w) \/ Glob(w) \/ TakeFile(w) \/ MaxReached(w) \/ EndPass(w)
  \/ Sleep(w) \/ IsFile(w) \/ Open(w) \/ StatBefore(w) \/ Flock(w)
  \/ WouldBlock(w) \/ StatAfter(w) \/ AlreadyHandled(w) \/ Fork(w)
  \/ CloseFd(w) \/ Wait(w) \/ Unlink(w) \/ UnlinkDies(w)

Next ==
  \/ \E i \in Items : Add(i)
  \/ \E w \in Workers : \/ Step(w)
                        \/ Dies(w)
                        \/ \E s \in {"ok", "failed"} : ProgramExits(w, s)

Spec == Init /\ [][Next]_vars

(* The scheduler runs every worker, every program ends, and a program that *)
(* is offered an item again and again does not fail for ever.  Nothing is  *)
(* assumed of queue-add: it may stop anywhere.                             *)
Fairness ==
  \A w \in Workers :
    /\ WF_vars(Step(w))
    /\ WF_vars(\E s \in {"ok", "failed"} : ProgramExits(w, s))
    /\ SF_vars(ProgramExits(w, "ok"))

FairSpec == Spec /\ Fairness

-----------------------------------------------------------------------------
PCs == {"off", "glob", "next", "sleep", "isfile", "open", "stat", "flock",
        "restat", "fork", "close", "wait", "unlink", "exited", "dead"}

(* Every variable keeps to its domain.                                     *)
TypeOK ==
  /\ name \in [Items -> {"none", "temp", "orphan", "queued", "gone"}]
  /\ taken \in [Items -> 0..Chunks]
  /\ stored \in [Items -> Nat]
  /\ pc \in [Workers -> PCs]
  /\ todo \in [Workers -> SUBSET Items]
  /\ num \in [Workers -> Nat]
  /\ file \in [Workers -> Items \cup {None}]
  /\ fd \in [Workers -> BOOLEAN]
  /\ before \in [Workers -> {0, 1}]
  /\ locked \subseteq Workers
  /\ child \in [Workers -> {"none", "running", "ok", "failed"}]
  /\ done \subseteq Workers \X Items

(* Two programs are never fed the same item at the same time, even when    *)
(* the worker that started one of them has died (the child keeps the       *)
(* flock that queue-worker took at line 71).                               *)
NoConcurrentRuns ==
  \A w, v \in Workers :
    /\ w # v
    /\ child[w] = "running"
    /\ child[v] = "running"
    => file[w] # file[v]

(* An item leaves the directory only after a program that was fed it has   *)
(* exited with 0 (queue-worker lines 87-92): nothing queued is lost.       *)
RemovedOnlyIfHandled ==
  \A i \in Items : name[i] = "gone" => \E w \in Workers : <<w, i>> \in done

(* What a worker can see is a complete item: queue-add fills the item      *)
(* under a name the glob does not match and renames it (README.md line 6). *)
ItemComplete ==
  \A i \in Items : name[i] \in {"queued", "gone"} => stored[i] = Chunks

(* unlink ... or die at line 92 makes a worker the victim of another       *)
(* worker that removed the item first; yet, unless workers are killed, the *)
(* victims are never all of those that were started.                       *)
SomeWorkerSurvives ==
  /\ MayDie = {}
  /\ \E w \in Workers : pc[w] # "off"
  => \E w \in Workers : pc[w] \notin {"off", "dead"}

(* No worker gets exit status 0 twice for the same item: after the first   *)
(* one it removes the item, or dies, before it looks for work again.       *)
OncePerWorker ==
  [][\A w \in Workers :
       child[w] = "running" /\ child'[w] = "ok" => <<w, file[w]>> \notin done]_vars

(* An item in the queue is eventually removed, unless every worker that    *)
(* runs for ever (-s and no -m) has died.                                  *)
EventuallyRemoved ==
  \A i \in Items :
    name[i] = "queued" ~>
      \/ name[i] = "gone"
      \/ \A w \in Looping : MaxPerPass[w] = 0 => pc[w] = "dead"

(* What the message at queue-worker line 80 says the comparison of the     *)
(* link counts is for: a worker that passes it has an item that was not    *)
(* already handled by another process.                                     *)
HandledDetected ==
  [][\A w \in Workers :
       pc[w] = "restat" /\ pc'[w] = "fork" => name[file[w]] = "queued"]_vars

(* "handles appropriate locking" (README.md line 8): as long as nobody is  *)
(* killed, no item is successfully processed by two workers.               *)
ProcessedOnce ==
  MayDie = {} => \A d, e \in done : d[2] = e[2] => d = e
=============================================================================
