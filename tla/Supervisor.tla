----------------------------- MODULE Supervisor -----------------------------
(***************************************************************************)
(* The supervisor shell is one of a kind: watchdog.sh claims a pid file,   *)
(* proves itself alive by a heartbeat file, and replaces a predecessor     *)
(* whose heartbeat has stopped; init.sh's wd_guard starts one whenever the *)
(* pid file names no live shell or the heartbeat is old                    *)
(* (src/sd_root/yi-protect/script/watchdog.sh, init.sh).  Time passes in   *)
(* units of 50 s: a start is shorter, a pass of the supervisor is shorter, *)
(* STALE is three of them and the guard's 200 s are four.                  *)
(***************************************************************************)
EXTENDS Naturals

CONSTANTS
    Shells,         \* pids
    None,           \* no file, no pid in it
    MaxHand,        \* bound: starts by hand, at any time
    MaxTrouble      \* bound: shells that die or stall

VARIABLES
    pidf,           \* $SINGLE: whether it exists, who created it, the pid in it
    age,            \* of the heartbeat; NoBeat if there is none
    shell,          \* per pid: program counter, and $_prev
    stuck,          \* shells that do not go on
    raced,          \* a start by hand has met another one where it may do harm
    supLeft         \* what remains of the bounds

vars == <<pidf, age, shell, stuck, raced, supLeft>>

STALE == 3
GuardAge == 4
NoBeat == 5
NoFile == [exists |-> FALSE, by |-> None, pid |-> None]

Init ==
    /\ pidf = NoFile
    /\ age = NoBeat
    /\ shell = [p \in Shells |-> [pc |-> "none", prev |-> None]]
    /\ stuck = {}
    /\ raced = FALSE
    /\ supLeft = [hand |-> MaxHand, trouble |-> MaxTrouble]

Alive(p) == p # None /\ shell[p].pc # "none"
At(p, pc) == p \notin stuck /\ shell[p].pc = pc
Go(p, pc) == shell' = [shell EXCEPT ![p].pc = pc]

\* A pid that is in no file and in no shell's mind may be a new shell's.
Free(p) ==
    /\ ~Alive(p) /\ p \notin {pidf.pid, pidf.by}
    /\ \A q \in Shells : shell[q].prev # p

Looping == {p \in Shells : shell[p].pc = "loop"}
Starting == {p \in Shells : Alive(p)} \ Looping

----------------------------------------------------------------------------
(* Who starts a shell. *)

\* wd_guard: every 30 s, by which time the shell it started before is through.
\* Wrong on purpose: the heartbeat is not looked at.
MutHealthy == Alive(pidf.pid)
Healthy == Alive(pidf.pid) /\ age <= GuardAge

GuardStarts(p) ==
    /\ Starting = {} /\ ~Healthy
    /\ Free(p)
    /\ Go(p, "look")
    /\ UNCHANGED <<pidf, age, stuck, raced, supLeft>>

\* A second start is harmless only where there is no pid file yet and the first
\* one replaces nobody.
Unsafe ==
    \/ pidf.exists
    \/ \E q, r \in Starting : q # r
    \/ \E q \in Starting : shell[q].pc \in {"kill", "unlink"}

\* init.sh at boot, or a person.
HandStarts(p) ==
    /\ supLeft.hand > 0
    /\ supLeft' = [supLeft EXCEPT !.hand = @ - 1]
    /\ Free(p)
    /\ Go(p, "look")
    /\ raced' = (raced \/ (Starting # {} /\ Unsafe))
    /\ UNCHANGED <<pidf, age, stuck>>

----------------------------------------------------------------------------
(* watchdog.sh from its first line to its loop. *)

\* The pid in the file: replace a live shell that is stale, leave to a fresh one.
Look(p) ==
    /\ At(p, "look")
    /\ shell' = [shell EXCEPT ![p] =
                    IF ~Alive(pidf.pid) THEN [@ EXCEPT !.pc = "create"]
                    ELSE IF age <= STALE THEN [@ EXCEPT !.pc = "none"]
                    ELSE [pc |-> "kill", prev |-> pidf.pid]]
    /\ UNCHANGED <<pidf, age, stuck, raced, supLeft>>

\* Wrong on purpose: the stalled shell is left where it is.
MutKill(p) ==
    /\ At(p, "kill")
    /\ shell' = [shell EXCEPT ![p] = [pc |-> "unlink", prev |-> None]]
    /\ UNCHANGED <<pidf, age, stuck, raced, supLeft>>

\* kill, then kill -9.  A shell that is not stuck runs its trap.
Kill(p) ==
    /\ At(p, "kill")
    /\ LET q == shell[p].prev
       IN  /\ shell' = [shell EXCEPT ![p] = [pc |-> "unlink", prev |-> None],
                                    ![q] = [pc |-> "none", prev |-> None]]
           /\ stuck' = stuck \ {q}
           /\ pidf' = IF pidf.pid = q /\ q \notin stuck THEN NoFile ELSE pidf
    /\ UNCHANGED <<age, raced, supLeft>>

\* rm -f $SINGLE, whoever is in it by now.
Unlink(p) ==
    /\ At(p, "unlink")
    /\ pidf' = NoFile
    /\ Go(p, "create")
    /\ UNCHANGED <<age, stuck, raced, supLeft>>

\* Wrong on purpose: the file is written without set -C.
MutCreate(p) ==
    /\ At(p, "create")
    /\ pidf' = [exists |-> TRUE, by |-> p, pid |-> p]
    /\ Go(p, "beat")
    /\ UNCHANGED <<age, stuck, raced, supLeft>>

\* set -C; echo $$ > $SINGLE: an atomic creation, then the write.
Create(p) ==
    /\ At(p, "create")
    /\ IF pidf.exists THEN Go(p, "judge") /\ UNCHANGED pidf
       ELSE /\ pidf' = [exists |-> TRUE, by |-> p, pid |-> None]
            /\ Go(p, "write")
    /\ UNCHANGED <<age, stuck, raced, supLeft>>

Write(p) ==
    /\ At(p, "write")
    /\ pidf' = IF pidf.by = p THEN [pidf EXCEPT !.pid = p] ELSE pidf
    /\ Go(p, "beat")
    /\ UNCHANGED <<age, stuck, raced, supLeft>>

OwnerFresh(p) == pidf.pid # p /\ Alive(pidf.pid) /\ age <= STALE

\* The file was there: leave if its owner is fresh, else look again in 0.3 s.
Judge(p) ==
    /\ At(p, "judge")
    /\ Go(p, IF OwnerFresh(p) THEN "none" ELSE "again")
    /\ UNCHANGED <<pidf, age, stuck, raced, supLeft>>

\* Wrong on purpose: the file is overridden without a second look.
MutJudgeAgain(p) ==
    /\ At(p, "again")
    /\ Go(p, "override")
    /\ UNCHANGED <<pidf, age, stuck, raced, supLeft>>

\* The 0.3 s are enough for another starter's pid and first heartbeat.
JudgeAgain(p) ==
    /\ At(p, "again")
    /\ \A q \in Shells \ stuck : shell[q].pc \notin {"write", "beat"}
    /\ Go(p, IF OwnerFresh(p) THEN "none" ELSE "override")
    /\ UNCHANGED <<pidf, age, stuck, raced, supLeft>>

Override(p) ==
    /\ At(p, "override")
    /\ pidf' = [exists |-> TRUE, by |-> IF pidf.exists THEN pidf.by ELSE p, pid |-> p]
    /\ Go(p, "beat")
    /\ UNCHANGED <<age, stuck, raced, supLeft>>

Beat(p) ==
    /\ At(p, "beat")
    /\ age' = 0
    /\ Go(p, "loop")
    /\ UNCHANGED <<pidf, stuck, raced, supLeft>>

----------------------------------------------------------------------------
(* Time, and what happens to shells. *)

\* 50 s, in which a supervisor that goes on beats several times.
Tick ==
    /\ Starting = {}
    /\ age' = IF Looping \ stuck # {} THEN 0 ELSE IF age < NoBeat THEN age + 1 ELSE age
    /\ UNCHANGED <<pidf, shell, stuck, raced, supLeft>>

\* A pass hangs, and may go on later.
Stall(p) ==
    /\ At(p, "loop") /\ supLeft.trouble > 0
    /\ supLeft' = [supLeft EXCEPT !.trouble = @ - 1]
    /\ stuck' = stuck \cup {p}
    /\ UNCHANGED <<pidf, age, shell, raced>>

Resume(p) ==
    /\ p \in stuck
    /\ stuck' = stuck \ {p}
    /\ UNCHANGED <<pidf, age, shell, raced, supLeft>>

\* kill -9.
Die(p) ==
    /\ Alive(p) /\ supLeft.trouble > 0
    /\ supLeft' = [supLeft EXCEPT !.trouble = @ - 1]
    /\ shell' = [shell EXCEPT ![p] = [pc |-> "none", prev |-> None]]
    /\ stuck' = stuck \ {p}
    /\ UNCHANGED <<pidf, age, raced>>

Step(p) ==
    \/ Look(p) \/ Kill(p) \/ Unlink(p) \/ Create(p) \/ Write(p)
    \/ Judge(p) \/ JudgeAgain(p) \/ Override(p) \/ Beat(p)

Next ==
    \/ Tick
    \/ \E p \in Shells :
         GuardStarts(p) \/ HandStarts(p) \/ Step(p) \/ Stall(p) \/ Resume(p) \/ Die(p)

\* Shells that are not stuck go on, the guard looks and time passes; a stuck
\* shell need not resume.
Fairness ==
    /\ \A p \in Shells : WF_vars(Step(p))
    /\ WF_vars(\E p \in Shells : GuardStarts(p))
    /\ WF_vars(Tick)

Spec == Init /\ [][Next]_vars
FairSpec == Spec /\ Fairness

----------------------------------------------------------------------------
(* Properties. *)

\* Files and shells are in the states the scripts can put them in.
TypeOK ==
    /\ pidf \in [exists : BOOLEAN, by : Shells \cup {None}, pid : Shells \cup {None}]
    /\ age \in 0..NoBeat
    /\ \A p \in Shells : /\ shell[p].prev \in Shells \cup {None}
                         /\ shell[p].pc = "kill" => shell[p].prev # None
    /\ stuck \subseteq {p \in Shells : Alive(p)}

\* There is one supervisor loop at most, stalled ones included, through deaths,
\* stalls and replacements and two starts at once at boot: the pid file, set -C
\* and the second look of watchdog.sh:283 see to it, but for starts at once over
\* an old pid file.
OneSupervisor == ~raced => \A p, q \in Looping : p = q

\* A supervisor that dies or stalls is replaced: again and again there is one
\* that works.
Supervised == []<>(Looping \ stuck # {})

----------------------------------------------------------------------------
(* What the comments promise and the code does not keep. *)

\* watchdog.sh:288: "a simultaneous starter" is given the time to be seen, so
\* two starts at once make one supervisor.
OneStarterWins == \A p, q \in Looping : p = q
=============================================================================
