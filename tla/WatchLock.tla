------------------------------ MODULE WatchLock ------------------------------
(***************************************************************************)
(* The lock file under which watchdog.sh starts and stops services: the    *)
(* supervisor's passes and the CLI's restarts contend for it               *)
(* (src/sd_root/yi-protect/script/watchdog.sh, lock_take and lock_drop).   *)
(* Every command of the shell is a step of its own; a process may be       *)
(* killed between any two.                                                 *)
(***************************************************************************)
EXTENDS Naturals

CONSTANTS
    Procs,          \* shells that take the lock, by pid
    None,           \* no file, no pid in it
    MaxTakes,       \* bound: how often each takes the lock
    MaxKills,       \* bound: kill -9
    MaxFull         \* bound: writes that fail on a full /tmp

ASSUME LockAssumption == None \notin Procs
ASSUME LockBounds == MaxTakes \in Nat /\ MaxKills \in Nat /\ MaxFull \in Nat

VARIABLES
    lockf,          \* $LOCKF: whether it exists, its inode and the pid in it
    proc,           \* per shell: program counter, $_t, the inode it made or read, $_h
    alive,          \* shells that run
    misled,         \* a lock file was removed whose owner the shell had not read
    left            \* what remains of the bounds

vars == <<lockf, proc, alive, misled, left>>

\* $_t -ge 3
Patience == 3
Gone(ino) == [exists |-> FALSE, ino |-> ino, pid |-> None]

Init ==
    /\ lockf = Gone(0)
    /\ proc = [p \in Procs |-> [pc |-> "out", t |-> 0, ino |-> 0, h |-> None]]
    /\ alive = Procs
    /\ misled = FALSE
    /\ left = [takes |-> [p \in Procs |-> MaxTakes], kills |-> MaxKills, full |-> MaxFull]

At(p, pc) == p \in alive /\ proc[p].pc = pc
Go(p, pc) == proc' = [proc EXCEPT ![p].pc = pc]

\* What this shell removes is not what it has read: another file, or one that was
\* empty because its creator had not written to it yet.
Misled(p) ==
    /\ lockf.exists
    /\ \/ lockf.ino # proc[p].ino
       \/ /\ proc[p].h = None
          /\ \E q \in alive : proc[q].pc \in {"write", "held", "drop"} /\ proc[q].ino = lockf.ino

\* The 0.2 s before the next try, longer than a write takes.
Retry(p) ==
    /\ \A q \in alive : proc[q].pc # "write"
    /\ proc' = [proc EXCEPT ![p].pc = "try", ![p].h = None,
                            ![p].t = IF @ < Patience THEN @ + 1 ELSE @]

----------------------------------------------------------------------------
(* lock_take. *)

Begin(p) ==
    /\ At(p, "out")
    /\ left.takes[p] > 0
    /\ left' = [left EXCEPT !.takes[p] = @ - 1]
    /\ proc' = [proc EXCEPT ![p] = [pc |-> "try", t |-> 0, ino |-> 0, h |-> None]]
    /\ UNCHANGED <<lockf, alive, misled>>

\* Wrong on purpose: a plain redirection, without set -C.
MutCreate(p) ==
    /\ At(p, "try")
    /\ lockf' = [exists |-> TRUE, ino |-> lockf.ino + 1, pid |-> p]
    /\ proc' = [proc EXCEPT ![p].pc = "held", ![p].ino = lockf.ino + 1]
    /\ UNCHANGED <<alive, misled, left>>

\* set -C; echo $$ > $LOCKF: an atomic creation, then the write.
Create(p) ==
    /\ At(p, "try")
    /\ ~lockf.exists
    /\ lockf' = [exists |-> TRUE, ino |-> lockf.ino + 1, pid |-> None]
    /\ proc' = [proc EXCEPT ![p].pc = "write", ![p].ino = lockf.ino + 1]
    /\ UNCHANGED <<alive, misled, left>>

\* The write goes to the file that was created, which may have been removed.
Write(p) ==
    /\ At(p, "write")
    /\ lockf' = IF lockf.exists /\ lockf.ino = proc[p].ino THEN [lockf EXCEPT !.pid = p]
                ELSE lockf
    /\ Go(p, "held")
    /\ UNCHANGED <<alive, misled, left>>

\* The file is created and stays empty.
CreateFull(p) ==
    /\ At(p, "try")
    /\ ~lockf.exists
    /\ left.full > 0
    /\ left' = [left EXCEPT !.full = @ - 1]
    /\ lockf' = [exists |-> TRUE, ino |-> lockf.ino + 1, pid |-> None]
    /\ Go(p, "read")
    /\ UNCHANGED <<alive, misled>>

Exists(p) ==
    /\ At(p, "try")
    /\ lockf.exists
    /\ Go(p, "read")
    /\ UNCHANGED <<lockf, alive, misled, left>>

\* _h=$(cat $LOCKF): empty also if there is no file any more.
Read(p) ==
    /\ At(p, "read")
    /\ proc' = [proc EXCEPT ![p].pc = "judge", ![p].h = lockf.pid, ![p].ino = lockf.ino]
    /\ UNCHANGED <<lockf, alive, misled, left>>

\* Wrong on purpose: an empty lock file is waited for like a held one.
MutReclaims(p) == proc[p].h # None /\ proc[p].h \notin alive

\* Wrong on purpose: a holder that takes its time is taken for dead.
MutReclaimsLate(p) == proc[p].t >= Patience

\* The file is to be removed: empty for some time, or of a process that is gone.
Reclaims(p) ==
    IF proc[p].h = None THEN proc[p].t >= Patience ELSE proc[p].h \notin alive

Judge(p) ==
    /\ At(p, "judge")
    /\ IF proc[p].h = p THEN Go(p, "held")
       ELSE IF Reclaims(p) THEN Go(p, "remove")
       ELSE Retry(p)
    /\ UNCHANGED <<lockf, alive, misled, left>>

Remove(p) ==
    /\ At(p, "remove")
    /\ lockf' = Gone(lockf.ino)
    /\ misled' = (misled \/ Misled(p))
    /\ Retry(p)
    /\ UNCHANGED <<alive, left>>

\* After 600 tries.
GiveUp(p) ==
    /\ At(p, "try")
    /\ proc[p].t = Patience
    /\ Go(p, "out")
    /\ UNCHANGED <<lockf, alive, misled, left>>

----------------------------------------------------------------------------
(* A supervisor that starts after a stalled one. *)

\* It has killed the stalled one, whose pid is still in the lock file, ...
ClearCheck(p) ==
    /\ At(p, "out")
    /\ left.takes[p] = MaxTakes
    /\ lockf.pid \in Procs \ alive
    /\ proc' = [proc EXCEPT ![p].pc = "clear", ![p].h = lockf.pid, ![p].ino = lockf.ino]
    /\ UNCHANGED <<lockf, alive, misled, left>>

\* ... and removes the file, whatever is there by now.
Clear(p) ==
    /\ At(p, "clear")
    /\ lockf' = Gone(lockf.ino)
    /\ misled' = (misled \/ Misled(p))
    /\ Go(p, "out")
    /\ UNCHANGED <<alive, left>>

----------------------------------------------------------------------------
(* lock_drop, and the end of a process. *)

\* Wrong on purpose: the lock is dropped by emptying the file's name only.
MutDrop(p) ==
    /\ At(p, "drop")
    /\ lockf' = [lockf EXCEPT !.exists = FALSE]
    /\ Go(p, "out")
    /\ UNCHANGED <<alive, misled, left>>

\* The pass or the restart is done; drop the lock if the file names this shell.
Check(p) ==
    /\ At(p, "held")
    /\ Go(p, IF lockf.pid = p THEN "drop" ELSE "out")
    /\ UNCHANGED <<lockf, alive, misled, left>>

Drop(p) ==
    /\ At(p, "drop")
    /\ lockf' = Gone(lockf.ino)
    /\ Go(p, "out")
    /\ UNCHANGED <<alive, misled, left>>

Killed(p) ==
    /\ p \in alive
    /\ left.kills > 0
    /\ left' = [left EXCEPT !.kills = @ - 1]
    /\ alive' = alive \ {p}
    /\ UNCHANGED <<lockf, proc, misled>>

Step(p) ==
    \/ Create(p) \/ Write(p) \/ CreateFull(p) \/ Exists(p)
    \/ Read(p) \/ Judge(p) \/ Remove(p) \/ GiveUp(p)
    \/ Clear(p) \/ Check(p) \/ Drop(p)

Next == \E p \in Procs : Begin(p) \/ ClearCheck(p) \/ Step(p) \/ Killed(p)

Spec == Init /\ [][Next]_vars

\* A shell that is not killed goes on; it need not give up.
Fairness == \A p \in Procs : WF_vars(Step(p))

FairSpec == Spec /\ Fairness

----------------------------------------------------------------------------
(* Properties. *)

\* Every variable holds a value the scripts can put there; a file that is not
\* there names nobody.
TypeOK ==
    /\ lockf \in [exists : BOOLEAN, ino : Nat, pid : Procs \cup {None}]
    /\ ~lockf.exists => lockf.pid = None
    /\ proc \in [Procs -> [pc : {"out", "try", "write", "read", "judge", "remove",
                                   "clear", "held", "drop"},
                           t : 0..Patience, ino : Nat, h : Procs \cup {None}]]
    /\ alive \subseteq Procs

Holders == {p \in alive : proc[p].pc \in {"held", "drop"}}

\* Two shells never work on the services at once, whichever shells wait, are killed
\* or reclaim the file, and whichever writes fail, until one removes another file
\* than it has read, or one it read empty before its creator wrote to it: cat and
\* rm are commands apart.
MutualExclusion == ~misled => \A p, q \in Holders : p = q

\* A shell that wants the lock gets it or gives up: a lock file left by a killed
\* process or a write that failed does not stay for ever.
TakerServed ==
    \A p \in Procs : At(p, "try") ~> (p \notin alive \/ proc[p].pc \in {"held", "out"})

----------------------------------------------------------------------------
(* What the comments promise and the code does not keep. *)

\* watchdog.sh:115: the lock "serialises every start/stop", whatever is reclaimed.
Serialised == \A p, q \in Holders : p = q
============================================================================
