---------------------------- MODULE UpkeepProofs ----------------------------
(***************************************************************************)
(* Theorems about the parts of Upkeep, for any shells, consoles, hosts and *)
(* credentials: each part's invariant is inductive, and Upkeep runs one    *)
(* part at a time.                                                         *)
(***************************************************************************)
EXTENDS Upkeep, SequenceTheorems, TLAPS

USE LockAssumption, LockBounds, ShellAssumption, CredentialAssumption

----------------------------------------------------------------------------
(* The lock file of watchdog.sh. *)

\* Shells that have created the lock file and work under it.
Owns(p) == p \in alive /\ proc[p].pc \in {"write", "held", "drop"}

\* A shell that owns the lock made the file that is there, which is empty until
\* the shell has written its pid.  No other shell's pid is in it.
OwnFile(p) ==
    /\ Owns(p) => lockf.exists /\ lockf.ino = proc[p].ino
    /\ Owns(p) => lockf.pid = IF proc[p].pc = "write" THEN None ELSE p
    /\ ~Owns(p) /\ p \in alive => lockf.pid # p
    /\ p \in alive /\ proc[p].pc = "judge" => proc[p].h # p

\* A pid that was read stays in its file, and a file that is to be removed for the
\* pid in it is a dead shell's.
KnowsOwner(p) ==
    p \in alive /\ proc[p].pc \in {"judge", "remove", "clear"} /\ proc[p].h # None =>
        /\ lockf.exists /\ lockf.ino = proc[p].ino => lockf.pid = proc[p].h
        /\ proc[p].pc # "judge" => proc[p].h \notin alive

\* A file that is created is a new one to every shell.
InoBound == \A p \in Procs : proc[p].ino <= lockf.ino

LockInv ==
    /\ TypeOK
    /\ InoBound
    /\ ~misled =>
        /\ \A p \in Procs : KnowsOwner(p)
        /\ \A p \in Procs : OwnFile(p)
        /\ \A p, q \in Procs : Owns(p) /\ Owns(q) => p = q

Pcs == {"out", "try", "write", "read", "judge", "remove", "clear", "held", "drop"}

LEMMA LockGo ==
  ASSUME TypeOK, NEW p \in Procs, NEW pc \in Pcs, Go(p, pc)
  PROVE  /\ proc' \in [Procs -> [pc : Pcs, t : 0..Patience, ino : Nat, h : Procs \cup {None}]]
         /\ proc'[p].pc = pc /\ proc'[p].ino = proc[p].ino /\ proc'[p].h = proc[p].h
         /\ \A q \in Procs \ {p} : proc'[q] = proc[q]
  <1>1. proc[p] \in [pc : Pcs, t : 0..Patience, ino : Nat, h : Procs \cup {None}]
    BY DEF TypeOK, Pcs
  <1>2. [proc[p] EXCEPT !.pc = pc] \in [pc : Pcs, t : 0..Patience, ino : Nat, h : Procs \cup {None}]
    BY <1>1
  <1>3. QED BY <1>1, <1>2 DEF TypeOK, Go, Pcs

LEMMA LockRetry ==
  ASSUME TypeOK, NEW p \in Procs, Retry(p)
  PROVE  /\ proc' \in [Procs -> [pc : Pcs, t : 0..Patience, ino : Nat, h : Procs \cup {None}]]
         /\ proc'[p].pc = "try" /\ proc'[p].ino = proc[p].ino
         /\ \A q \in Procs \ {p} : proc'[q] = proc[q]
  <1>1. proc[p] \in [pc : Pcs, t : 0..Patience, ino : Nat, h : Procs \cup {None}]
    BY DEF TypeOK, Pcs
  <1> DEFINE t == IF proc[p].t < Patience THEN proc[p].t + 1 ELSE proc[p].t
             r == [proc[p] EXCEPT !.pc = "try", !.h = None, !.t = t]
  <1>2. t \in 0..Patience
    BY <1>1 DEF Patience
  <1>3. /\ r \in [pc : Pcs, t : 0..Patience, ino : Nat, h : Procs \cup {None}]
        /\ r.pc = "try" /\ r.ino = proc[p].ino
    BY <1>1, <1>2 DEF Pcs
  <1>4. proc' = [proc EXCEPT ![p] = r]
    BY DEF Retry
  <1>5. QED BY <1>3, <1>4 DEF TypeOK, Pcs

\* A shell looks at the file.
LEMMA LockLook ==
  ASSUME TypeOK, NEW p \in Procs, Read(p) \/ ClearCheck(p)
  PROVE  /\ UNCHANGED <<lockf, alive, misled>>
         /\ proc' \in [Procs -> [pc : Pcs, t : 0..Patience, ino : Nat, h : Procs \cup {None}]]
         /\ proc'[p].pc \in {"judge", "clear"}
         /\ Read(p) => proc'[p].pc = "judge"
         /\ proc'[p].h = lockf.pid /\ proc'[p].ino = lockf.ino
         /\ \A q \in Procs \ {p} : proc'[q] = proc[q]
  <1>1. /\ proc[p] \in [pc : Pcs, t : 0..Patience, ino : Nat, h : Procs \cup {None}]
        /\ lockf.pid \in Procs \cup {None} /\ lockf.ino \in Nat
    BY DEF TypeOK, Pcs
  <1> DEFINE r(pc) == [proc[p] EXCEPT !.pc = pc, !.h = lockf.pid, !.ino = lockf.ino]
             Looked(pc) ==
               /\ proc' \in [Procs -> [pc : Pcs, t : 0..Patience, ino : Nat, h : Procs \cup {None}]]
               /\ proc'[p].pc = pc /\ proc'[p].h = lockf.pid /\ proc'[p].ino = lockf.ino
               /\ \A q \in Procs \ {p} : proc'[q] = proc[q]
  <1>2. ASSUME NEW pc \in {"judge", "clear"}, proc' = [proc EXCEPT ![p] = r(pc)]
        PROVE  Looked(pc)
    <2>1. /\ r(pc) \in [pc : Pcs, t : 0..Patience, ino : Nat, h : Procs \cup {None}]
          /\ r(pc).pc = pc /\ r(pc).h = lockf.pid /\ r(pc).ino = lockf.ino
      BY <1>1 DEF Pcs
    <2> HIDE DEF r
    <2>2. QED BY <1>2, <2>1 DEF TypeOK, Pcs
  <1>3. UNCHANGED <<lockf, alive, misled>>
    BY DEF Read, ClearCheck
  <1>4. CASE Read(p)
    <2>1. proc' = [proc EXCEPT ![p] = r("judge")]
      BY <1>4 DEF Read
    <2>2. Looked("judge")
      BY <1>2, <2>1
    <2>3. QED BY <1>3, <2>2
  <1>5. CASE ClearCheck(p) /\ ~Read(p)
    <2>1. proc' = [proc EXCEPT ![p] = r("clear")]
      BY <1>5 DEF ClearCheck
    <2>2. Looked("clear")
      BY <1>2, <2>1
    <2>3. QED BY <1>3, <1>5, <2>2
  <1>6. QED BY <1>4, <1>5

LEMMA LockTypeStep ==
  ASSUME TypeOK, [Next]_vars
  PROVE  TypeOK'
  <1> USE DEF Pcs
  <1>1. ASSUME NEW p \in Procs, Begin(p) PROVE TypeOK'
    <2>1. [pc |-> "try", t |-> 0, ino |-> 0, h |-> None]
            \in [pc : Pcs, t : 0..Patience, ino : Nat, h : Procs \cup {None}]
      BY DEF Patience
    <2>2. QED BY <1>1, <2>1 DEF TypeOK, Begin
  <1>2. ASSUME NEW p \in Procs, Create(p) PROVE TypeOK'
    <2>1. proc[p] \in [pc : Pcs, t : 0..Patience, ino : Nat, h : Procs \cup {None}]
      BY DEF TypeOK
    <2>2. lockf.ino + 1 \in Nat
      BY DEF TypeOK
    <2> DEFINE r == [proc[p] EXCEPT !.pc = "write", !.ino = lockf.ino + 1]
    <2>3. r \in [pc : Pcs, t : 0..Patience, ino : Nat, h : Procs \cup {None}]
      BY <2>1, <2>2
    <2>4. proc' = [proc EXCEPT ![p] = r]
      BY <1>2 DEF Create
    <2>5. lockf' \in [exists : BOOLEAN, ino : Nat, pid : Procs \cup {None}] /\ lockf'.exists
      BY <1>2, <2>2 DEF Create
    <2>6. UNCHANGED alive
      BY <1>2 DEF Create
    <2>7. QED BY <2>3, <2>4, <2>5, <2>6 DEF TypeOK
  <1>3. ASSUME NEW p \in Procs, Write(p) PROVE TypeOK'
    <2>1. lockf' \in [exists : BOOLEAN, ino : Nat, pid : Procs \cup {None}]
          /\ (~lockf'.exists => lockf'.pid = None)
      BY <1>3 DEF TypeOK, Write
    <2>2. Go(p, "held") /\ UNCHANGED alive
      BY <1>3 DEF Write
    <2>3. QED BY <2>1, <2>2, LockGo DEF TypeOK
  <1>4. ASSUME NEW p \in Procs, CreateFull(p) PROVE TypeOK'
    <2>1. Go(p, "read") /\ UNCHANGED alive
      BY <1>4 DEF CreateFull
    <2>2. lockf' \in [exists : BOOLEAN, ino : Nat, pid : Procs \cup {None}] /\ lockf'.exists
      BY <1>4 DEF TypeOK, CreateFull
    <2>3. QED BY <2>1, <2>2, LockGo DEF TypeOK
  <1>5. ASSUME NEW p \in Procs, Exists(p) \/ GiveUp(p) PROVE TypeOK'
    <2>1. (Go(p, "read") \/ Go(p, "out")) /\ UNCHANGED <<lockf, alive>>
      BY <1>5 DEF Exists, GiveUp
    <2>2. QED BY <2>1, LockGo DEF TypeOK
  <1>6. ASSUME NEW p \in Procs, Read(p) \/ ClearCheck(p) PROVE TypeOK'
    BY <1>6, LockLook DEF TypeOK
  <1>7. ASSUME NEW p \in Procs, Judge(p) PROVE TypeOK'
    <2>1. (Go(p, "held") \/ Go(p, "remove") \/ Retry(p)) /\ UNCHANGED <<lockf, alive>>
      BY <1>7 DEF Judge
    <2>2. QED BY <2>1, LockGo, LockRetry DEF TypeOK
  <1>8. ASSUME NEW p \in Procs, Remove(p) PROVE TypeOK'
    <2>1. Retry(p) /\ lockf' = Gone(lockf.ino) /\ UNCHANGED alive
      BY <1>8 DEF Remove
    <2>2. QED BY <2>1, LockRetry DEF TypeOK, Gone
  <1>9. ASSUME NEW p \in Procs, Check(p) PROVE TypeOK'
    <2>1. (Go(p, "drop") \/ Go(p, "out")) /\ UNCHANGED <<lockf, alive>>
      BY <1>9 DEF Check
    <2>2. QED BY <2>1, LockGo DEF TypeOK
  <1>10. ASSUME NEW p \in Procs, Drop(p) \/ Clear(p) PROVE TypeOK'
    <2>1. Go(p, "out") /\ lockf' = Gone(lockf.ino) /\ UNCHANGED alive
      BY <1>10 DEF Drop, Clear
    <2>2. QED BY <2>1, LockGo DEF TypeOK, Gone
  <1>11. ASSUME NEW p \in Procs, Killed(p) PROVE TypeOK'
    BY <1>11 DEF TypeOK, Killed
  <1>12. CASE UNCHANGED vars
    BY <1>12 DEF TypeOK, vars
  <1>13. QED
    BY <1>1, <1>2, <1>3, <1>4, <1>5, <1>6, <1>7, <1>8, <1>9, <1>10, <1>11, <1>12
    DEF Next, Step

LEMMA LockInit == Init => LockInv
  <1> SUFFICES ASSUME Init PROVE LockInv
    OBVIOUS
  <1>1. TypeOK
    BY DEF Init, TypeOK, Gone, Patience
  <1>2. /\ \A p \in Procs : proc[p].pc = "out" /\ ~Owns(p) /\ OwnFile(p) /\ KnowsOwner(p)
        /\ InoBound
    BY DEF Init, Gone, Owns, OwnFile, KnowsOwner, InoBound
  <1>3. QED BY <1>1, <1>2 DEF LockInv

\* A shell keeps its inode, or takes that of the file that is there.
LEMMA LockIno ==
  ASSUME TypeOK, TypeOK', InoBound, NEW p \in Procs,
         Begin(p) \/ ClearCheck(p) \/ Step(p) \/ Killed(p)
  PROVE  InoBound'
  <1>1. /\ lockf.ino \in Nat /\ proc[p] \in [pc : Pcs, t : 0..Patience, ino : Nat, h : Procs \cup {None}]
        /\ proc \in [Procs -> [pc : Pcs, t : 0..Patience, ino : Nat, h : Procs \cup {None}]]
    BY DEF TypeOK, Pcs
  <1>2. ASSUME lockf'.ino \in Nat, lockf'.ino >= lockf.ino,
               \A q \in Procs \ {p} : proc'[q] = proc[q],
               proc'[p].ino \in {0, proc[p].ino, lockf.ino, lockf'.ino}
        PROVE  InoBound'
    <2> SUFFICES ASSUME NEW q \in Procs PROVE proc'[q].ino <= lockf'.ino
      BY DEF InoBound
    <2>1. proc[q].ino \in Nat /\ proc[q].ino <= lockf.ino
      BY <1>1 DEF InoBound
    <2>2. QED BY <1>1, <1>2, <2>1
  <1>3. CASE Begin(p)
    BY <1>1, <1>2, <1>3 DEF Begin
  <1>4. CASE Read(p) \/ ClearCheck(p)
    BY <1>1, <1>2, <1>4, LockLook
  <1>5. CASE Create(p)
    <2>1. lockf'.ino = lockf.ino + 1 /\ proc'[p].ino = lockf.ino + 1
          /\ \A q \in Procs \ {p} : proc'[q] = proc[q]
      BY <1>1, <1>5 DEF Create
    <2>2. QED BY <1>1, <1>2, <2>1
  <1>6. CASE CreateFull(p)
    <2>1. lockf'.ino = lockf.ino + 1 /\ Go(p, "read")
      BY <1>6 DEF CreateFull
    <2>2. QED BY <1>1, <1>2, <2>1, LockGo DEF Pcs
  <1>7. CASE Write(p)
    <2>1. lockf'.ino = lockf.ino /\ Go(p, "held")
      BY <1>7 DEF Write, TypeOK
    <2>2. QED BY <1>1, <1>2, <2>1, LockGo DEF Pcs
  <1>8. CASE Exists(p) \/ GiveUp(p) \/ Check(p) \/ Judge(p)
    <2>1. /\ UNCHANGED lockf
          /\ \/ Go(p, "read") \/ Go(p, "out") \/ Go(p, "drop") \/ Go(p, "held") \/ Go(p, "remove")
             \/ Retry(p)
      BY <1>8 DEF Exists, GiveUp, Check, Judge
    <2>2. QED BY <1>1, <1>2, <2>1, LockGo, LockRetry DEF Pcs
  <1>9. CASE Remove(p) \/ Clear(p) \/ Drop(p)
    <2>1. lockf'.ino = lockf.ino /\ (Go(p, "out") \/ Retry(p))
      BY <1>9 DEF Remove, Clear, Drop, Gone
    <2>2. QED BY <1>1, <1>2, <2>1, LockGo, LockRetry DEF Pcs
  <1>10. CASE Killed(p)
    BY <1>10 DEF Killed, InoBound
  <1>11. QED BY <1>3, <1>4, <1>5, <1>6, <1>7, <1>8, <1>9, <1>10 DEF Step

\* The step of a shell that leaves the file as it is, and what the shell owns.
LEMMA LockElsewhere ==
  ASSUME LockInv, TypeOK', InoBound', NEW p \in Procs, UNCHANGED <<lockf, alive, misled>>,
         \A q \in Procs \ {p} : proc'[q] = proc[q],
         Owns(p)' => Owns(p) /\ proc'[p].ino = proc[p].ino
                        /\ (proc'[p].pc = "write" <=> proc[p].pc = "write"),
         ~Owns(p)' /\ p \in alive => lockf.pid # p,
         p \in alive /\ proc'[p].pc = "judge" => proc'[p].h # p,
         KnowsOwner(p)'
  PROVE  LockInv'
  <1> SUFFICES ASSUME ~misled
               PROVE  /\ \A q \in Procs : KnowsOwner(q)' /\ OwnFile(q)'
                      /\ \A q, r \in Procs : Owns(q)' /\ Owns(r)' => q = r
    BY DEF LockInv
  <1>1. \A q \in Procs : Owns(q)' => Owns(q)
    BY DEF Owns
  <1>2. \A q \in Procs \ {p} : OwnFile(q) /\ KnowsOwner(q) /\ Owns(q)' = Owns(q)
    BY DEF LockInv, Owns
  <1>3. OwnFile(p)
    BY DEF LockInv
  <1>4. OwnFile(p)'
    BY <1>3 DEF OwnFile, Owns
  <1>5. \A q \in Procs \ {p} : OwnFile(q)'
    BY <1>2 DEF OwnFile, Owns
  <1>6. \A q \in Procs \ {p} : KnowsOwner(q)'
    BY <1>2 DEF KnowsOwner
  <1>7. QED BY <1>1, <1>4, <1>5, <1>6 DEF LockInv

\* Nobody owns the lock when there is no file, whoever may be killed.
LEMMA LockFree ==
  ASSUME LockInv, ~misled, ~lockf.exists
  PROVE  \A p \in Procs : ~Owns(p)
  BY DEF LockInv, OwnFile

LEMMA LockStep1 ==
  ASSUME LockInv, TypeOK', InoBound', NEW p \in Procs,
         \/ Begin(p) \/ ClearCheck(p) \/ Exists(p) \/ GiveUp(p)
         \/ Read(p) \/ Judge(p) \/ Check(p)
  PROVE  LockInv'
  <1>1. UNCHANGED <<lockf, alive, misled>> /\ p \in alive /\ TypeOK
    BY DEF LockInv, Begin, ClearCheck, Exists, GiveUp, Read, Judge, Check, At
  <1>2. CASE misled
    BY <1>1, <1>2 DEF LockInv
  <1>3. CASE ~misled
    <2>1. OwnFile(p) /\ KnowsOwner(p)
      BY <1>3 DEF LockInv
    <2>2. CASE Begin(p)
      <3>1. /\ proc[p].pc = "out" /\ proc'[p].pc = "try"
            /\ \A q \in Procs \ {p} : proc'[q] = proc[q]
        BY <1>1, <2>2 DEF Begin, At, TypeOK
      <3>2. QED BY <1>1, <2>1, <3>1, LockElsewhere DEF OwnFile, Owns, KnowsOwner
    <2>3. CASE Exists(p) \/ GiveUp(p)
      <3>1. /\ proc[p].pc = "try" /\ proc'[p].pc \in {"read", "out"}
            /\ \A q \in Procs \ {p} : proc'[q] = proc[q]
        BY <1>1, <2>3, LockGo DEF Exists, GiveUp, At, Pcs
      <3>2. QED BY <1>1, <2>1, <3>1, LockElsewhere DEF OwnFile, Owns, KnowsOwner
    <2>4. CASE Read(p) \/ ClearCheck(p)
      <3>1. proc[p].pc \in {"read", "out"} /\ (~Read(p) => lockf.pid \notin alive)
        BY <1>1, <2>4 DEF Read, ClearCheck, At
      <3>2. /\ proc'[p].pc \in {"judge", "clear"} /\ (Read(p) => proc'[p].pc = "judge")
            /\ proc'[p].h = lockf.pid /\ proc'[p].ino = lockf.ino
            /\ \A q \in Procs \ {p} : proc'[q] = proc[q]
        BY <1>1, <2>4, LockLook
      <3>3. ~Owns(p)' /\ lockf.pid # p
        BY <1>1, <2>1, <3>1, <3>2 DEF OwnFile, Owns
      <3>4. KnowsOwner(p)'
        <4>1. Read(p) \/ lockf.pid \notin alive
          BY <3>1
        <4>2. QED BY <1>1, <3>2, <4>1 DEF KnowsOwner
      <3>5. QED BY <1>1, <3>2, <3>3, <3>4, LockElsewhere
    <2>5. CASE Judge(p)
      <3>1. proc[p].pc = "judge" /\ proc[p].h # p
        BY <1>1, <2>1, <2>5 DEF Judge, At, OwnFile
      <3>2. (Go(p, "remove") /\ Reclaims(p)) \/ Retry(p)
        BY <2>5, <3>1 DEF Judge
      <3>3. /\ proc'[p].pc \in {"remove", "try"} /\ \A q \in Procs \ {p} : proc'[q] = proc[q]
            /\ proc'[p].pc = "remove" => /\ proc'[p].h = proc[p].h /\ proc'[p].ino = proc[p].ino
                                         /\ Reclaims(p)
        BY <1>1, <3>2, LockGo, LockRetry DEF Pcs
      <3>4. KnowsOwner(p)'
        BY <1>1, <2>1, <3>1, <3>3 DEF KnowsOwner, Reclaims
      <3>5. QED BY <1>1, <2>1, <3>1, <3>3, <3>4, LockElsewhere DEF OwnFile, Owns
    <2>6. CASE Check(p)
      <3>1. Owns(p) /\ lockf.pid = p /\ proc[p].pc = "held"
        BY <1>1, <2>1, <2>6 DEF Check, At, OwnFile, Owns
      <3>2. Go(p, "drop")
        BY <2>6, <3>1 DEF Check
      <3>3. /\ proc'[p].pc = "drop" /\ proc'[p].ino = proc[p].ino
            /\ \A q \in Procs \ {p} : proc'[q] = proc[q]
        BY <1>1, <3>2, LockGo DEF Pcs
      <3>4. QED BY <1>1, <3>1, <3>3, LockElsewhere DEF Owns, KnowsOwner
    <2>7. QED BY <2>2, <2>3, <2>4, <2>5, <2>6
  <1>4. QED BY <1>2, <1>3

\* set -C: the file is made by one shell only, and there was none before.
LEMMA LockStep2 ==
  ASSUME LockInv, TypeOK', InoBound', NEW p \in Procs, Create(p) \/ CreateFull(p)
  PROVE  LockInv'
  <1> SUFFICES ASSUME ~misled'
               PROVE  /\ \A q \in Procs : KnowsOwner(q)' /\ OwnFile(q)'
                      /\ \A q, r \in Procs : Owns(q)' /\ Owns(r)' => q = r
    BY DEF LockInv
  <1>1. /\ ~misled /\ p \in alive /\ ~lockf.exists /\ TypeOK /\ UNCHANGED alive
        /\ proc[p].pc = "try" /\ InoBound
    BY DEF LockInv, Create, CreateFull, At
  <1>2. \A q \in Procs : ~Owns(q) /\ OwnFile(q) /\ KnowsOwner(q)
    BY <1>1, LockFree DEF LockInv
  <1>3. /\ \A q \in Procs \ {p} : proc'[q] = proc[q]
        /\ \/ proc'[p].pc = "write" /\ proc'[p].ino = lockf'.ino
           \/ proc'[p].pc = "read"
    <2>1. CASE Create(p)
      BY <2>1 DEF Create, TypeOK, LockInv
    <2>2. CASE CreateFull(p)
      BY <1>1, <2>2, LockGo DEF CreateFull, Pcs
    <2>3. QED BY <2>1, <2>2
  <1>4. lockf'.exists /\ lockf'.pid = None /\ lockf'.ino = lockf.ino + 1
    BY DEF Create, CreateFull
  <1>5. \A q \in Procs \ {p} : ~Owns(q)' /\ OwnFile(q)'
    BY <1>1, <1>2, <1>3, <1>4 DEF Owns, OwnFile
  <1>6. OwnFile(p)'
    BY <1>1, <1>3, <1>4 DEF Owns, OwnFile
  <1>7. ASSUME NEW q \in Procs \ {p} PROVE KnowsOwner(q)'
    <2>1. proc[q].ino \in Nat /\ proc[q].ino <= lockf.ino /\ lockf.ino \in Nat
      BY <1>1 DEF TypeOK, InoBound
    <2>2. lockf'.ino # proc'[q].ino
      BY <1>3, <1>4, <2>1
    <2>3. QED BY <1>1, <1>2, <1>3, <2>2 DEF KnowsOwner
  <1>8. KnowsOwner(p)'
    BY <1>3 DEF KnowsOwner
  <1>9. QED BY <1>5, <1>6, <1>7, <1>8

LEMMA LockStep3 ==
  ASSUME LockInv, TypeOK', InoBound', NEW p \in Procs, Write(p)
  PROVE  LockInv'
  <1> SUFFICES ASSUME ~misled'
               PROVE  /\ \A q \in Procs : KnowsOwner(q)' /\ OwnFile(q)'
                      /\ \A q, r \in Procs : Owns(q)' /\ Owns(r)' => q = r
    BY DEF LockInv
  <1>1. ~misled /\ p \in alive /\ proc[p].pc = "write" /\ UNCHANGED alive /\ TypeOK
    BY DEF LockInv, Write, At
  <1>2. Owns(p) /\ \A q \in Procs : OwnFile(q) /\ KnowsOwner(q) /\ (Owns(q) => q = p)
    BY <1>1 DEF LockInv, Owns
  <1>3. lockf' = [lockf EXCEPT !.pid = p]
    BY <1>2 DEF OwnFile, Write
  <1>4. lockf'.exists /\ lockf'.ino = lockf.ino /\ lockf'.pid = p
    BY <1>1, <1>2, <1>3 DEF TypeOK, OwnFile
  <1>5. /\ proc'[p].pc = "held" /\ proc'[p].ino = proc[p].ino
        /\ \A q \in Procs \ {p} : proc'[q] = proc[q]
    BY <1>1, LockGo DEF Write, Pcs
  <1>6. OwnFile(p)'
    BY <1>1, <1>2, <1>4, <1>5 DEF Owns, OwnFile
  <1>7. \A q \in Procs \ {p} : ~Owns(q)' /\ OwnFile(q)'
    BY <1>1, <1>2, <1>4, <1>5 DEF Owns, OwnFile
  <1>8. lockf.exists /\ lockf.pid = None
    BY <1>1, <1>2 DEF OwnFile
  <1>9. \A q \in Procs : KnowsOwner(q)'
    BY <1>1, <1>2, <1>4, <1>5, <1>8 DEF KnowsOwner
  <1>10. QED BY <1>6, <1>7, <1>9

\* What is removed as a dead shell's, or as nobody's, is no living shell's, and a
\* drop is the owner's.
LEMMA LockStep4 ==
  ASSUME LockInv, TypeOK', InoBound', NEW p \in Procs, Remove(p) \/ Clear(p) \/ Drop(p)
  PROVE  LockInv'
  <1> SUFFICES ASSUME ~misled'
               PROVE  /\ \A q \in Procs : KnowsOwner(q)' /\ OwnFile(q)'
                      /\ \A q, r \in Procs : Owns(q)' /\ Owns(r)' => q = r
    BY DEF LockInv
  <1>1. /\ ~misled /\ p \in alive /\ UNCHANGED alive /\ TypeOK
        /\ lockf'.pid = None /\ ~lockf'.exists
    <2>1. ~misled
      BY DEF Remove, Clear, Drop
    <2>2. p \in alive /\ UNCHANGED alive /\ lockf' = Gone(lockf.ino)
      BY DEF Remove, Clear, Drop, At
    <2>3. QED BY <2>1, <2>2 DEF LockInv, Gone
  <1>2. \A q \in Procs : OwnFile(q) /\ KnowsOwner(q)
    BY <1>1 DEF LockInv
  <1>3. \A q \in Procs \ {p} : ~Owns(q)
    <2>1. CASE Remove(p) \/ Clear(p)
      <3>1. ~Misled(p) /\ proc[p].pc \in {"remove", "clear"}
        BY <2>1 DEF Remove, Clear, At
      <3>2. SUFFICES ASSUME NEW q \in Procs, Owns(q) PROVE FALSE
        OBVIOUS
      <3>3. /\ lockf.exists /\ lockf.ino = proc[q].ino /\ q \in alive
            /\ proc[q].pc \in {"write", "held", "drop"}
            /\ lockf.pid = None \/ lockf.pid = q
        BY <1>2, <3>2 DEF OwnFile, Owns
      <3>4. lockf.ino = proc[p].ino /\ proc[p].h # None
        BY <3>1, <3>3 DEF Misled
      <3>5. lockf.pid = proc[p].h /\ proc[p].h \notin alive
        BY <1>1, <1>2, <3>1, <3>3, <3>4 DEF KnowsOwner
      <3>6. QED BY <3>3, <3>4, <3>5
    <2>2. CASE Drop(p)
      BY <1>1, <2>2 DEF Drop, At, Owns, LockInv
    <2>3. QED BY <2>1, <2>2
  <1>4. proc'[p].pc \in {"try", "out"} /\ \A q \in Procs \ {p} : proc'[q] = proc[q]
    BY <1>1, LockGo, LockRetry DEF Remove, Clear, Drop, Pcs
  <1>5. \A q \in Procs : ~Owns(q)'
    BY <1>1, <1>3, <1>4 DEF Owns
  <1>6. \A q \in Procs : OwnFile(q)'
    BY <1>1, <1>2, <1>4, <1>5 DEF OwnFile
  <1>7. \A q \in Procs : KnowsOwner(q)'
    BY <1>1, <1>2, <1>4 DEF KnowsOwner
  <1>8. QED BY <1>5, <1>6, <1>7

LEMMA LockStep5 ==
  ASSUME LockInv, TypeOK', InoBound', NEW p \in Procs, Killed(p)
  PROVE  LockInv'
  <1> SUFFICES ASSUME ~misled'
               PROVE  /\ \A q \in Procs : KnowsOwner(q)' /\ OwnFile(q)'
                      /\ \A q, r \in Procs : Owns(q)' /\ Owns(r)' => q = r
    BY DEF LockInv
  <1>1. /\ ~misled /\ alive' = alive \ {p} /\ UNCHANGED <<lockf, proc>>
    BY DEF Killed
  <1>2. QED BY <1>1 DEF LockInv, OwnFile, Owns, KnowsOwner

LEMMA LockNext ==
  ASSUME LockInv, [Next]_vars
  PROVE  LockInv'
  <1>1. TypeOK'
    BY LockTypeStep DEF LockInv
  <1>2. ASSUME NEW p \in Procs, Begin(p) \/ ClearCheck(p) \/ Step(p) \/ Killed(p)
        PROVE  LockInv'
    <2>1. InoBound'
      BY <1>1, <1>2, LockIno DEF LockInv
    <2>2. QED
      BY <1>1, <1>2, <2>1, LockStep1, LockStep2, LockStep3, LockStep4, LockStep5 DEF Step
  <1>3. CASE UNCHANGED vars
    BY <1>1, <1>3 DEF vars, LockInv, InoBound, KnowsOwner, OwnFile, Owns
  <1>4. QED BY <1>2, <1>3 DEF Next

LEMMA LockExclusive == LockInv => MutualExclusion
  BY DEF MutualExclusion, Holders, LockInv, Owns, TypeOK

----------------------------------------------------------------------------
(* The credential on the card and the live one. *)

\* What is renamed into place is a line as a whole, and between its two commands
\* the script has left an empty live file.
CredentialInv ==
    /\ Credentials!TypeOK
    /\ client.line \in Creds \cup {None}
    /\ client.pc # "wait" => client.line \in Creds
    /\ client.pc = "rename" => card.tmp = client.line
    /\ script = "copy" => liveCred = Empty
    /\ CredentialWhole

LEMMA CredentialInit == Credentials!Init => CredentialInv
  BY DEF Credentials!Init, CredentialInv, Credentials!TypeOK, Credentials!Waiting,
         CredentialWhole, Credentials!CredentialWhole

LEMMA CredentialNext ==
  ASSUME CredentialInv, [Credentials!Next]_credentialVars
  PROVE  CredentialInv'
  <1> USE DEF CredentialInv, Credentials!TypeOK, Credentials!At,
              Credentials!Waiting, CredentialWhole, Credentials!CredentialWhole
  <1>1. ASSUME NEW c \in Creds, Credentials!Update(c) PROVE CredentialInv'
    BY <1>1 DEF Credentials!Update
  <1>2. CASE Credentials!OpenTmp
    BY <1>2 DEF Credentials!OpenTmp
  <1>3. CASE Credentials!FillTmp
    BY <1>3 DEF Credentials!FillTmp
  <1>4. CASE Credentials!Rename
    BY <1>4 DEF Credentials!Rename
  <1>5. CASE Credentials!RunScript
    BY <1>5 DEF Credentials!RunScript
  <1>6. CASE Credentials!Return
    BY <1>6 DEF Credentials!Return
  <1>7. CASE Credentials!Abandon
    BY <1>7 DEF Credentials!Abandon
  <1>8. CASE Credentials!Clear
    BY <1>8 DEF Credentials!Clear
  <1>9. CASE Credentials!Copy
    BY <1>9 DEF Credentials!Copy, Credentials!Installs
  <1>10. CASE Credentials!ScriptDies
    BY <1>10 DEF Credentials!ScriptDies
  <1>11. CASE Credentials!Outage
    BY <1>11 DEF Credentials!Outage
  <1>12. CASE UNCHANGED credentialVars
    BY <1>12 DEF credentialVars
  <1>13. QED
    BY <1>1, <1>2, <1>3, <1>4, <1>5, <1>6, <1>7, <1>8, <1>9, <1>10, <1>11, <1>12
    DEF Credentials!Next

----------------------------------------------------------------------------
(* The supervisor's pid file. *)

SupPcs == {"none", "look", "kill", "unlink", "create", "write", "beat", "judge", "again",
           "override", "loop"}

SupType ==
    /\ shell \in [Shells -> [pc : SupPcs, prev : Shells \cup {None}]]
    /\ pidf \in [exists : BOOLEAN, by : Shells \cup {None}, pid : Shells \cup {None}]
    /\ ~pidf.exists => pidf.pid = None /\ pidf.by = None
    /\ age \in 0..Supervisor!NoBeat
    /\ \A p \in Shells : shell[p].pc = "kill" => shell[p].prev # None
    /\ \A p \in stuck : p \in Shells /\ shell[p].pc = "loop"

Starts(p) == shell[p].pc \notin {"none", "loop"}
NoLoop == \A p \in Shells : shell[p].pc # "loop"
Alone(p) == \A q \in Shells \ {p} : ~Starts(q)
Claims(p) == shell[p].pc \in {"write", "beat"}

\* What a starting shell has made sure of on its way to the loop.
StarterOK(p) ==
    /\ shell[p].pc = "write" => pidf.by = p
    /\ shell[p].pc = "beat" => pidf.pid = p
    /\ Claims(p) => pidf.exists /\ NoLoop
    /\ shell[p].pc \in {"unlink", "override"} => Alone(p) /\ NoLoop
    /\ shell[p].pc = "kill" =>
        /\ pidf.pid = shell[p].prev
        /\ \A q \in Shells \ {p} :
              shell[q].pc = "none" \/ (q = shell[p].prev /\ shell[q].pc \in {"beat", "loop"})
    /\ shell[p].pc \in {"kill", "judge", "again", "override"} => pidf.exists
    /\ shell[p].pc \in {"create", "judge", "again"} => age <= Supervisor!STALE \/ NoLoop
    /\ Starts(p) /\ shell[p].pc # "beat" => pidf.pid # p

\* Two shells start at once only where there was no pid file, and the one that
\* has made it claims it.
PairOK(p, q) ==
    Starts(p) /\ Starts(q) /\ p # q =>
        /\ IF pidf.exists THEN Claims(p) <=> ~Claims(q)
                          ELSE {shell[p].pc, shell[q].pc} \subseteq {"look", "create"}
        /\ \A r \in Shells : Starts(r) => r \in {p, q}

\* The file names the supervisor that loops.
LoopOK(p) == shell[p].pc = "loop" => pidf.exists /\ pidf.pid = p

SupInv ==
    /\ SupType
    /\ ~raced => /\ \A p \in Shells : StarterOK(p) /\ LoopOK(p)
                 /\ \A p, q \in Shells : PairOK(p, q)

LEMMA SupInit == Supervisor!Init => SupInv
  <1> SUFFICES ASSUME Supervisor!Init PROVE SupInv
    OBVIOUS
  <1>1. SupType
    BY DEF Supervisor!Init, SupType, Supervisor!NoFile, Supervisor!NoBeat, SupPcs
  <1>2. \A p \in Shells : shell[p].pc = "none"
    BY DEF Supervisor!Init
  <1>3. QED BY <1>1, <1>2 DEF SupInv, StarterOK, LoopOK, PairOK, Starts, Claims

\* A shell that goes on to another line.
LEMMA SupGo ==
  ASSUME SupType, NEW p \in Shells, NEW pc \in SupPcs, Supervisor!Go(p, pc)
  PROVE  /\ shell' \in [Shells -> [pc : SupPcs, prev : Shells \cup {None}]]
         /\ shell'[p].pc = pc /\ shell'[p].prev = shell[p].prev
         /\ \A q \in Shells \ {p} : shell'[q] = shell[q]
  <1>1. shell[p] \in [pc : SupPcs, prev : Shells \cup {None}]
    BY DEF SupType
  <1>2. QED BY <1>1 DEF SupType, Supervisor!Go

LEMMA SupSet ==
  ASSUME SupType, NEW p \in Shells, NEW r \in [pc : SupPcs, prev : Shells \cup {None}],
         shell' = [shell EXCEPT ![p] = r]
  PROVE  /\ shell' \in [Shells -> [pc : SupPcs, prev : Shells \cup {None}]]
         /\ shell'[p] = r
         /\ \A q \in Shells \ {p} : shell'[q] = shell[q]
  BY DEF SupType

PidFile == [exists : BOOLEAN, by : Shells \cup {None}, pid : Shells \cup {None}]

LEMMA SupTypeGo ==
  ASSUME SupType, NEW p \in Shells, p \notin stuck, NEW pc \in SupPcs \ {"kill"},
         Supervisor!Go(p, pc), pidf' \in PidFile,
         ~pidf'.exists => pidf'.pid = None /\ pidf'.by = None,
         age' \in 0..Supervisor!NoBeat, UNCHANGED stuck
  PROVE  SupType'
  <1>1. /\ shell' \in [Shells -> [pc : SupPcs, prev : Shells \cup {None}]]
        /\ shell'[p].pc = pc /\ \A q \in Shells \ {p} : shell'[q] = shell[q]
    BY SupGo
  <1>2. \A q \in Shells : shell'[q].pc = "kill" => shell'[q].prev # None
    BY <1>1 DEF SupType
  <1>3. \A q \in stuck' : q \in Shells /\ shell'[q].pc = "loop"
    BY <1>1 DEF SupType
  <1>4. QED BY <1>1, <1>2, <1>3 DEF SupType, PidFile

LEMMA SupCreateStep ==
  ASSUME SupInv, NEW p \in Shells, Supervisor!Create(p)
  PROVE  SupInv'
  <1> USE DEF SupInv
  <1>1. SupType' /\ (\A q \in Shells \ {p} : shell'[q] = shell[q])
    <2>1. /\ Supervisor!Go(p, "judge") \/ Supervisor!Go(p, "write")
          /\ p \notin stuck /\ UNCHANGED <<stuck, age>>
      BY DEF Supervisor!Create, Supervisor!At
    <2>2. pidf' \in PidFile /\ (~pidf'.exists => pidf'.pid = None /\ pidf'.by = None)
      <3>1. CASE pidf.exists
        BY <3>1 DEF Supervisor!Create, SupType, PidFile
      <3>2. CASE ~pidf.exists
        <4>1. pidf' = [exists |-> TRUE, by |-> p, pid |-> None]
          BY <3>2 DEF Supervisor!Create
        <4>2. QED BY <4>1 DEF PidFile
      <3>3. QED BY <3>1, <3>2
    <2>3. QED BY <2>1, <2>2, SupTypeGo, SupGo DEF SupType, SupPcs
  <1> SUFFICES ASSUME ~raced'
               PROVE  /\ \A q \in Shells : StarterOK(q)' /\ LoopOK(q)'
                      /\ \A q, r \in Shells : PairOK(q, r)'
    BY <1>1
  <1>2. shell[p].pc = "create" /\ UNCHANGED <<age, raced>>
    BY DEF Supervisor!Create, Supervisor!At
  <1>3. CASE pidf.exists
    <2>1. shell'[p].pc = "judge" /\ UNCHANGED pidf
      BY <1>3, SupGo DEF Supervisor!Create, SupPcs
    <2>2. \A q \in Shells : StarterOK(q)'
      BY <1>1, <1>2, <1>3, <2>1 DEF StarterOK, Starts, Claims, NoLoop, Alone
    <2>3. \A q \in Shells : LoopOK(q)'
      BY <1>1, <1>2, <1>3, <2>1 DEF LoopOK
    <2>4. \A q, r \in Shells : PairOK(q, r)'
      BY <1>1, <1>2, <1>3, <2>1 DEF PairOK, Starts, Claims
    <2>5. QED BY <2>2, <2>3, <2>4
  <1>4. CASE ~pidf.exists
    <2>1. /\ shell'[p].pc = "write" /\ pidf'.by = p /\ pidf'.exists /\ pidf'.pid = None
      BY <1>4, SupGo DEF Supervisor!Create, SupPcs
    <2>2. \A q \in Shells : StarterOK(q)'
      BY <1>1, <1>2, <1>4, <2>1 DEF StarterOK, LoopOK, PairOK, Starts, Claims, NoLoop, Alone
    <2>3. \A q \in Shells : LoopOK(q)'
      BY <1>1, <1>2, <1>4, <2>1 DEF LoopOK
    <2>4. \A q, r \in Shells : PairOK(q, r)'
      BY <1>1, <1>2, <1>4, <2>1 DEF PairOK, Starts, Claims
    <2>5. QED BY <2>2, <2>3, <2>4
  <1>5. QED BY <1>3, <1>4

LEMMA SupWriteStep ==
  ASSUME SupInv, NEW p \in Shells, Supervisor!Write(p)
  PROVE  SupInv'
  <1> USE DEF SupInv
  <1>1. /\ shell[p].pc = "write" /\ p \notin stuck /\ Supervisor!Go(p, "beat")
        /\ pidf' = IF pidf.by = p THEN [pidf EXCEPT !.pid = p] ELSE pidf
        /\ UNCHANGED <<age, stuck, raced>>
    BY DEF Supervisor!Write, Supervisor!At
  <1>2. SupType' /\ shell'[p].pc = "beat" /\ \A q \in Shells \ {p} : shell'[q] = shell[q]
    <2>1. pidf' \in PidFile /\ (~pidf'.exists => pidf'.pid = None /\ pidf'.by = None)
      <3>1. CASE pidf.by = p
        <4>1. pidf.exists
          BY <1>1, <3>1 DEF SupType
        <4>2. QED BY <1>1, <3>1, <4>1 DEF SupType, PidFile
      <3>2. CASE pidf.by # p
        BY <1>1, <3>2 DEF SupType, PidFile
      <3>3. QED BY <3>1, <3>2
    <2>2. QED BY <1>1, <2>1, SupTypeGo, SupGo DEF SupType, SupPcs
  <1> SUFFICES ASSUME ~raced'
               PROVE  /\ \A q \in Shells : StarterOK(q)' /\ LoopOK(q)'
                      /\ \A q, r \in Shells : PairOK(q, r)'
    BY <1>2
  <1>3. pidf'.exists /\ pidf.exists /\ pidf'.by = pidf.by /\ pidf'.pid = p /\ NoLoop
    BY <1>1 DEF StarterOK, Claims, SupType
  <1>4. \A q \in Shells \ {p} : Starts(q) => shell[q].pc \in {"look", "create", "judge", "again"}
    BY <1>1, <1>3 DEF PairOK, StarterOK, Starts, Claims, Alone, SupType, SupPcs
  <1>5. \A q \in Shells : StarterOK(q)'
    BY <1>1, <1>2, <1>3, <1>4 DEF StarterOK, Starts, Claims, NoLoop
  <1>6. \A q \in Shells : LoopOK(q)'
    BY <1>1, <1>2, <1>3 DEF LoopOK, NoLoop
  <1>7. \A q, r \in Shells : PairOK(q, r)'
    BY <1>1, <1>2, <1>3 DEF PairOK, Starts, Claims
  <1>8. QED BY <1>5, <1>6, <1>7

LEMMA SupBeatStep ==
  ASSUME SupInv, NEW p \in Shells, Supervisor!Beat(p)
  PROVE  SupInv'
  <1> USE DEF SupInv
  <1>1. /\ shell[p].pc = "beat" /\ p \notin stuck /\ Supervisor!Go(p, "loop") /\ age' = 0
        /\ UNCHANGED <<pidf, stuck, raced>>
    BY DEF Supervisor!Beat, Supervisor!At
  <1>2. SupType' /\ shell'[p].pc = "loop" /\ \A q \in Shells \ {p} : shell'[q] = shell[q]
    <2>1. pidf' \in PidFile /\ age' \in 0..Supervisor!NoBeat
      BY <1>1 DEF SupType, PidFile, Supervisor!NoBeat
    <2>2. QED BY <1>1, <2>1, SupTypeGo, SupGo DEF SupType, SupPcs
  <1> SUFFICES ASSUME ~raced'
               PROVE  /\ \A q \in Shells : StarterOK(q)' /\ LoopOK(q)'
                      /\ \A q, r \in Shells : PairOK(q, r)'
    BY <1>2
  <1>3. pidf.exists /\ pidf.pid = p /\ NoLoop
    BY <1>1 DEF StarterOK, Claims
  <1>4. \A q \in Shells \ {p} : Starts(q) =>
             shell[q].pc \in {"look", "create", "judge", "again", "kill"}
    BY <1>1, <1>3 DEF PairOK, StarterOK, Starts, Claims, Alone, SupType, SupPcs
  <1>5. age' <= Supervisor!STALE
    BY <1>1 DEF Supervisor!STALE
  <1>6. \A q \in Shells : StarterOK(q)'
    BY <1>1, <1>2, <1>3, <1>4, <1>5 DEF StarterOK, Starts, Claims, NoLoop
  <1>7. \A q \in Shells : LoopOK(q)'
    BY <1>1, <1>2, <1>3 DEF LoopOK, NoLoop
  <1>8. \A q, r \in Shells : PairOK(q, r)'
    BY <1>1, <1>2, <1>3 DEF PairOK, Starts, Claims
  <1>9. QED BY <1>6, <1>7, <1>8

\* The first look: a shell goes on past the file only if nobody it could name
\* runs, or to kill the stale one it names.
LEMMA SupLookStep ==
  ASSUME SupInv, NEW p \in Shells, Supervisor!Look(p)
  PROVE  SupInv'
  <1> USE DEF SupInv
  <1>1. shell[p].pc = "look" /\ p \notin stuck /\ UNCHANGED <<pidf, age, stuck, raced>>
    BY DEF Supervisor!Look, Supervisor!At
  <1>2. shell[p] \in [pc : SupPcs, prev : Shells \cup {None}] /\ pidf.pid \in Shells \cup {None}
    BY DEF SupType
  <1>3. PICK r \in [pc : SupPcs, prev : Shells \cup {None}] :
          /\ shell' = [shell EXCEPT ![p] = r]
          /\ \/ ~Supervisor!Alive(pidf.pid) /\ r.pc = "create"
             \/ r.pc = "none"
             \/ /\ Supervisor!Alive(pidf.pid) /\ age > Supervisor!STALE
                /\ r.pc = "kill" /\ r.prev = pidf.pid
    <2>1. CASE ~Supervisor!Alive(pidf.pid)
      <3>1. [shell[p] EXCEPT !.pc = "create"] \in [pc : SupPcs, prev : Shells \cup {None}]
            /\ [shell[p] EXCEPT !.pc = "create"].pc = "create"
        BY <1>2 DEF SupPcs
      <3>2. shell' = [shell EXCEPT ![p] = [shell[p] EXCEPT !.pc = "create"]]
        BY <2>1 DEF Supervisor!Look
      <3>3. QED BY <2>1, <3>1, <3>2
    <2>2. CASE Supervisor!Alive(pidf.pid) /\ age <= Supervisor!STALE
      <3>1. [shell[p] EXCEPT !.pc = "none"] \in [pc : SupPcs, prev : Shells \cup {None}]
            /\ [shell[p] EXCEPT !.pc = "none"].pc = "none"
        BY <1>2 DEF SupPcs
      <3>2. shell' = [shell EXCEPT ![p] = [shell[p] EXCEPT !.pc = "none"]]
        BY <2>2 DEF Supervisor!Look
      <3>3. QED BY <3>1, <3>2
    <2>3. CASE Supervisor!Alive(pidf.pid) /\ ~(age <= Supervisor!STALE)
      <3>1. [pc |-> "kill", prev |-> pidf.pid] \in [pc : SupPcs, prev : Shells \cup {None}]
        BY <1>2 DEF SupPcs
      <3>2. shell' = [shell EXCEPT ![p] = [pc |-> "kill", prev |-> pidf.pid]]
        BY <2>3 DEF Supervisor!Look
      <3>3. age > Supervisor!STALE
        BY <2>3 DEF SupType, Supervisor!STALE, Supervisor!NoBeat
      <3>4. QED BY <2>3, <3>1, <3>2, <3>3
    <2>4. QED BY <2>1, <2>2, <2>3
  <1>4. shell'[p] = r /\ \A q \in Shells \ {p} : shell'[q] = shell[q]
    BY <1>3, SupSet
  <1>5. SupType'
    <2>1. shell' \in [Shells -> [pc : SupPcs, prev : Shells \cup {None}]]
      BY <1>3, SupSet
    <2>2. r.pc = "kill" => r.prev # None
      BY <1>3 DEF Supervisor!Alive
    <2>3. \A q \in Shells : shell'[q].pc = "kill" => shell'[q].prev # None
      BY <1>4, <2>2 DEF SupType
    <2>4. \A q \in stuck : q \in Shells /\ shell'[q].pc = "loop"
      BY <1>1, <1>4 DEF SupType
    <2>5. QED BY <1>1, <2>1, <2>3, <2>4 DEF SupType
  <1> SUFFICES ASSUME ~raced'
               PROVE  /\ \A q \in Shells : StarterOK(q)' /\ LoopOK(q)'
                      /\ \A q, s \in Shells : PairOK(q, s)'
    BY <1>5
  <1>6. pidf.pid # p
    BY <1>1 DEF StarterOK, Starts, Claims
  <1>7. \A q \in Shells : LoopOK(q)'
    BY <1>1, <1>3, <1>4 DEF LoopOK
  <1>8. CASE r.pc = "create"
    <2>1. NoLoop
      BY <1>1, <1>3, <1>8 DEF NoLoop, LoopOK, Supervisor!Alive
    <2>2. \A q \in Shells : StarterOK(q)'
      BY <1>1, <1>4, <1>6, <1>8, <2>1 DEF StarterOK, Starts, Claims, NoLoop, Alone
    <2>3. \A q, s \in Shells : PairOK(q, s)'
      BY <1>1, <1>4, <1>8 DEF PairOK, Starts, Claims
    <2>4. QED BY <1>7, <2>2, <2>3
  <1>9. CASE r.pc = "none"
    <2>1. \A q \in Shells : StarterOK(q)'
      BY <1>1, <1>4, <1>9 DEF StarterOK, Starts, Claims, NoLoop, Alone
    <2>2. \A q, s \in Shells : PairOK(q, s)'
      BY <1>1, <1>4, <1>9 DEF PairOK, Starts, Claims
    <2>3. QED BY <1>7, <2>1, <2>2
  <1>10. CASE r.pc = "kill"
    <2>1. pidf.pid \in Shells /\ shell[pidf.pid].pc # "none" /\ pidf.pid # p
          /\ age > Supervisor!STALE /\ r.prev = pidf.pid
      BY <1>2, <1>3, <1>6, <1>10 DEF Supervisor!Alive
    <2>2. pidf.exists
      BY <2>1 DEF SupType
    <2>3. shell[pidf.pid].pc \in {"beat", "loop"}
      BY <1>1, <2>1, <2>2 DEF PairOK, StarterOK, Starts, Claims
    <2>4. ASSUME NEW q \in Shells \ {p}, q # pidf.pid
          PROVE  shell[q].pc = "none"
      <3>1. shell[q].pc # "loop"
        BY <1>1, <2>1, <2>4 DEF LoopOK
      <3>2. ~Starts(q)
        <4>1. CASE shell[pidf.pid].pc = "beat"
          BY <1>1, <2>1, <2>4, <4>1 DEF PairOK, Starts
        <4>2. CASE shell[pidf.pid].pc = "loop"
          BY <1>1, <2>1, <2>2, <2>4, <4>2 DEF PairOK, StarterOK, Starts, Claims, NoLoop
        <4>3. QED BY <2>3, <4>1, <4>2
      <3>3. QED BY <3>1, <3>2 DEF Starts
    <2>5. \A q \in Shells : StarterOK(q)'
      BY <1>1, <1>4, <1>6, <1>10, <2>1, <2>2, <2>3, <2>4
      DEF StarterOK, Starts, Claims, NoLoop, Alone
    <2>6. \A q, s \in Shells : PairOK(q, s)'
      BY <1>1, <1>4, <1>10, <2>2 DEF PairOK, Starts, Claims
    <2>7. QED BY <1>7, <2>5, <2>6
  <1>11. QED BY <1>3, <1>8, <1>9, <1>10

\* The stale shell dies, whether it loops or has just claimed the file, and the
\* one that kills it is alone.
LEMMA SupKillStep ==
  ASSUME SupInv, NEW p \in Shells, Supervisor!Kill(p)
  PROVE  SupInv'
  <1> USE DEF SupInv
  <1> DEFINE o == shell[p].prev
  <1>1. shell[p].pc = "kill" /\ p \notin stuck /\ UNCHANGED <<age, raced>>
        /\ stuck' = stuck \ {o}
    BY DEF Supervisor!Kill, Supervisor!At
  <1>2. o \in Shells
    BY <1>1 DEF SupType
  <1>3. shell' = [shell EXCEPT ![p] = [pc |-> "unlink", prev |-> None],
                              ![o] = [pc |-> "none", prev |-> None]]
    BY DEF Supervisor!Kill
  <1>4. pidf' \in {pidf, Supervisor!NoFile}
    BY DEF Supervisor!Kill
  <1>5. SupType'
    <2>1. shell' \in [Shells -> [pc : SupPcs, prev : Shells \cup {None}]]
      BY <1>2, <1>3 DEF SupType, SupPcs
    <2>2. \A q \in Shells : shell'[q].pc = "kill" => shell'[q].prev # None
      BY <1>2, <1>3 DEF SupType
    <2>3. \A q \in stuck' : q \in Shells /\ shell'[q].pc = "loop"
      BY <1>1, <1>2, <1>3 DEF SupType
    <2>4. pidf' \in PidFile /\ (~pidf'.exists => pidf'.pid = None /\ pidf'.by = None)
      <3>1. CASE pidf' = pidf
        BY <3>1 DEF SupType, PidFile
      <3>2. CASE pidf' = Supervisor!NoFile
        BY <3>2 DEF PidFile, Supervisor!NoFile
      <3>3. QED BY <1>4, <3>1, <3>2
    <2>5. QED BY <1>1, <2>1, <2>2, <2>3, <2>4 DEF SupType, PidFile
  <1> SUFFICES ASSUME ~raced'
               PROVE  /\ \A q \in Shells : StarterOK(q)' /\ LoopOK(q)'
                      /\ \A q, s \in Shells : PairOK(q, s)'
    BY <1>5
  <1>6. o # p
    BY <1>1 DEF StarterOK, Starts
  <1>7. shell'[p].pc = "unlink" /\ \A q \in Shells \ {p} : shell'[q].pc = "none"
    BY <1>1, <1>2, <1>3, <1>6 DEF StarterOK, SupType
  <1>8. pidf'.pid # p
    BY <1>1, <1>2, <1>4, <1>6 DEF StarterOK, Supervisor!NoFile
  <1>9. QED
    BY <1>2, <1>7, <1>8 DEF StarterOK, LoopOK, PairOK, Starts, Claims, NoLoop, Alone

LEMMA SupUnlinkStep ==
  ASSUME SupInv, NEW p \in Shells, Supervisor!Unlink(p)
  PROVE  SupInv'
  <1> USE DEF SupInv
  <1>1. /\ shell[p].pc = "unlink" /\ p \notin stuck /\ Supervisor!Go(p, "create")
        /\ pidf' = Supervisor!NoFile /\ UNCHANGED <<age, stuck, raced>>
    BY DEF Supervisor!Unlink, Supervisor!At
  <1>2. SupType' /\ shell'[p].pc = "create" /\ \A q \in Shells \ {p} : shell'[q] = shell[q]
    <2>1. pidf' \in PidFile /\ (~pidf'.exists => pidf'.pid = None /\ pidf'.by = None)
      BY <1>1 DEF PidFile, Supervisor!NoFile
    <2>2. QED BY <1>1, <2>1, SupTypeGo, SupGo DEF SupType, SupPcs
  <1> SUFFICES ASSUME ~raced'
               PROVE  /\ \A q \in Shells : StarterOK(q)' /\ LoopOK(q)'
                      /\ \A q, s \in Shells : PairOK(q, s)'
    BY <1>2
  <1>3. Alone(p) /\ NoLoop
    BY <1>1 DEF StarterOK
  <1>4. \A q \in Shells \ {p} : shell'[q].pc = "none"
    BY <1>2, <1>3 DEF Alone, NoLoop, Starts
  <1>5. pidf'.pid # p
    BY <1>1 DEF Supervisor!NoFile
  <1>6. QED
    BY <1>2, <1>4, <1>5 DEF StarterOK, LoopOK, PairOK, Starts, Claims, NoLoop, Alone

\* The second look: it goes on only when nobody loops and nobody else starts.
LEMMA SupJudgeStep ==
  ASSUME SupInv, NEW p \in Shells, Supervisor!Judge(p) \/ Supervisor!JudgeAgain(p)
  PROVE  SupInv'
  <1> USE DEF SupInv
  <1>1. /\ shell[p].pc \in {"judge", "again"} /\ p \notin stuck
        /\ UNCHANGED <<pidf, age, stuck, raced>>
    BY DEF Supervisor!Judge, Supervisor!JudgeAgain, Supervisor!At
  <1>2. PICK pc \in {"none", "again", "override"} :
          /\ Supervisor!Go(p, pc)
          /\ pc = "override" =>
                /\ ~Supervisor!OwnerFresh(p)
                /\ \A q \in Shells \ stuck : ~Claims(q)
    BY DEF Supervisor!Judge, Supervisor!JudgeAgain, Claims
  <1>3. SupType' /\ shell'[p].pc = pc /\ \A q \in Shells \ {p} : shell'[q] = shell[q]
    <2>1. pidf' \in PidFile /\ (~pidf'.exists => pidf'.pid = None /\ pidf'.by = None)
      BY <1>1 DEF SupType, PidFile
    <2>2. QED BY <1>1, <1>2, <2>1, SupTypeGo, SupGo DEF SupType, SupPcs
  <1> SUFFICES ASSUME ~raced'
               PROVE  /\ \A q \in Shells : StarterOK(q)' /\ LoopOK(q)'
                      /\ \A q, s \in Shells : PairOK(q, s)'
    BY <1>3
  <1>4. /\ pidf.exists /\ pidf.pid # p
        /\ age <= Supervisor!STALE \/ NoLoop
    BY <1>1 DEF StarterOK, Starts
  <1>5. pc = "override" => NoLoop /\ Alone(p)
    <2>1. pc = "override" => \A q \in Shells : ~Claims(q)
      BY <1>2 DEF SupType, Claims
    <2>2. pc = "override" => Alone(p)
      BY <1>1, <1>4, <2>1 DEF PairOK, Alone, Starts
    <2>3. ASSUME pc = "override", NEW q \in Shells, shell[q].pc = "loop"
          PROVE  FALSE
      <3>1. age <= Supervisor!STALE /\ pidf.pid = q
        BY <1>1, <1>4, <2>3 DEF NoLoop, LoopOK
      <3>2. QED BY <1>2, <1>4, <2>3, <3>1 DEF Supervisor!OwnerFresh, Supervisor!Alive
    <2>4. QED BY <2>2, <2>3 DEF NoLoop
  <1>6. \A q \in Shells : StarterOK(q)'
    BY <1>1, <1>2, <1>3, <1>4, <1>5 DEF StarterOK, Starts, Claims, NoLoop, Alone
  <1>7. \A q \in Shells : LoopOK(q)'
    BY <1>1, <1>2, <1>3 DEF LoopOK
  <1>8. \A q, s \in Shells : PairOK(q, s)'
    BY <1>1, <1>2, <1>3, <1>5 DEF PairOK, Starts, Claims, Alone
  <1>9. QED BY <1>6, <1>7, <1>8

LEMMA SupOverrideStep ==
  ASSUME SupInv, NEW p \in Shells, Supervisor!Override(p)
  PROVE  SupInv'
  <1> USE DEF SupInv
  <1>1. /\ shell[p].pc = "override" /\ p \notin stuck /\ Supervisor!Go(p, "beat")
        /\ pidf' = [exists |-> TRUE, by |-> IF pidf.exists THEN pidf.by ELSE p, pid |-> p]
        /\ UNCHANGED <<age, stuck, raced>>
    BY DEF Supervisor!Override, Supervisor!At
  <1>2. SupType' /\ shell'[p].pc = "beat" /\ \A q \in Shells \ {p} : shell'[q] = shell[q]
    <2>1. pidf' \in PidFile /\ pidf'.exists
      BY <1>1 DEF SupType, PidFile
    <2>2. QED BY <1>1, <2>1, SupTypeGo, SupGo DEF SupType, SupPcs
  <1> SUFFICES ASSUME ~raced'
               PROVE  /\ \A q \in Shells : StarterOK(q)' /\ LoopOK(q)'
                      /\ \A q, s \in Shells : PairOK(q, s)'
    BY <1>2
  <1>3. Alone(p) /\ NoLoop
    BY <1>1 DEF StarterOK
  <1>4. \A q \in Shells \ {p} : shell'[q].pc = "none"
    BY <1>2, <1>3 DEF Alone, NoLoop, Starts
  <1>5. pidf'.exists /\ pidf'.pid = p
    BY <1>1
  <1>6. QED
    BY <1>2, <1>4, <1>5 DEF StarterOK, LoopOK, PairOK, Starts, Claims, NoLoop, Alone

\* A new shell: its pid is in no file and in no other shell's mind, so nothing
\* that held of the others is disturbed.
LEMMA SupNewShell ==
  ASSUME SupInv, NEW p \in Shells, Supervisor!Free(p), Supervisor!Go(p, "look"),
         UNCHANGED <<pidf, age, stuck>>,
         ~raced' => ~raced /\ \A q \in Shells : Starts(q) =>
            /\ ~pidf.exists
            /\ \A r \in Shells : Starts(r) => r = q
            /\ shell[q].pc \notin {"kill", "unlink"}
  PROVE  SupInv'
  <1> USE DEF SupInv
  <1>1. shell[p].pc = "none" /\ pidf.pid # p /\ \A q \in Shells : shell[q].prev # p
    BY DEF Supervisor!Free, Supervisor!Alive
  <1>2. p \notin stuck
    BY <1>1 DEF SupType
  <1>3. SupType' /\ shell'[p].pc = "look" /\ \A q \in Shells \ {p} : shell'[q] = shell[q]
    <2>1. pidf' \in PidFile /\ (~pidf'.exists => pidf'.pid = None /\ pidf'.by = None)
      BY DEF SupType, PidFile
    <2>2. QED BY <1>2, <2>1, SupTypeGo, SupGo DEF SupType, SupPcs
  <1> SUFFICES ASSUME ~raced'
               PROVE  /\ \A q \in Shells : StarterOK(q)' /\ LoopOK(q)'
                      /\ \A q, s \in Shells : PairOK(q, s)'
    BY <1>3
  <1>4. ~raced
    OBVIOUS
  <1>5. \A q \in Shells : Starts(q) => shell[q].pc \in {"look", "create"}
    BY <1>4 DEF StarterOK, Starts, Claims, SupType, SupPcs
  <1>6. \A q \in Shells : StarterOK(q)'
    BY <1>1, <1>3, <1>4, <1>5 DEF StarterOK, Starts, Claims, NoLoop, Alone
  <1>7. \A q \in Shells : LoopOK(q)'
    BY <1>3, <1>4 DEF LoopOK
  <1>8. \A q, s \in Shells : PairOK(q, s)'
    BY <1>1, <1>3, <1>4, <1>5 DEF PairOK, Starts, Claims
  <1>9. QED BY <1>6, <1>7, <1>8

LEMMA SupStarting ==
  ASSUME NEW p \in Shells
  PROVE  p \in Supervisor!Starting <=> Starts(p)
  BY DEF Supervisor!Starting, Supervisor!Looping, Supervisor!Alive, Starts

LEMMA SupGuardStep ==
  ASSUME SupInv, NEW p \in Shells, Supervisor!GuardStarts(p)
  PROVE  SupInv'
  <1>1. \A q \in Shells : ~Starts(q)
    BY SupStarting DEF Supervisor!GuardStarts
  <1>2. /\ Supervisor!Free(p) /\ Supervisor!Go(p, "look")
        /\ UNCHANGED <<pidf, age, stuck, raced>>
    BY DEF Supervisor!GuardStarts
  <1>3. QED BY <1>1, <1>2, SupNewShell

LEMMA SupHandStep ==
  ASSUME SupInv, NEW p \in Shells, Supervisor!HandStarts(p)
  PROVE  SupInv'
  <1>1. /\ Supervisor!Free(p) /\ Supervisor!Go(p, "look")
        /\ UNCHANGED <<pidf, age, stuck>>
    BY DEF Supervisor!HandStarts
  <1>2. ASSUME ~raced', NEW q \in Shells, Starts(q)
        PROVE  /\ ~pidf.exists
               /\ \A r \in Shells : Starts(r) => r = q
               /\ shell[q].pc \notin {"kill", "unlink"}
    <2>1. q \in Supervisor!Starting
      BY <1>2, SupStarting
    <2>2. ~Supervisor!Unsafe
      BY <1>2, <2>1 DEF Supervisor!HandStarts
    <2>3. \A r \in Shells : Starts(r) => r = q
      BY <2>1, <2>2, SupStarting DEF Supervisor!Unsafe
    <2>4. QED BY <2>1, <2>2, <2>3 DEF Supervisor!Unsafe
  <1>3. ~raced' => ~raced
    BY DEF Supervisor!HandStarts
  <1>4. QED BY <1>1, <1>2, <1>3, SupNewShell

LEMMA SupTimeStep ==
  ASSUME SupInv, Supervisor!Tick
  PROVE  SupInv'
  <1>1. \A q \in Shells : ~Starts(q)
    BY SupStarting DEF Supervisor!Tick
  <1>2. UNCHANGED <<pidf, shell, stuck, raced>>
    BY DEF Supervisor!Tick
  <1>3. age' \in 0..Supervisor!NoBeat
    BY DEF SupInv, SupType, Supervisor!Tick, Supervisor!NoBeat
  <1>4. SupType'
    BY <1>2, <1>3 DEF SupInv, SupType
  <1>5. QED
    BY <1>1, <1>2, <1>4 DEF SupInv, StarterOK, LoopOK, PairOK, Starts, Claims, NoLoop

LEMMA SupStallStep ==
  ASSUME SupInv, NEW p \in Shells, Supervisor!Stall(p) \/ Supervisor!Resume(p)
  PROVE  SupInv'
  <1>1. UNCHANGED <<pidf, age, shell, raced>>
    BY DEF Supervisor!Stall, Supervisor!Resume
  <1>2. \A q \in stuck' : q \in Shells /\ shell[q].pc = "loop"
    BY DEF SupInv, SupType, Supervisor!Stall, Supervisor!Resume, Supervisor!At
  <1>3. SupType'
    BY <1>1, <1>2 DEF SupInv, SupType
  <1>4. QED
    BY <1>1, <1>3 DEF SupInv, StarterOK, LoopOK, PairOK, Starts, Claims, NoLoop, Alone

LEMMA SupDieStep ==
  ASSUME SupInv, NEW p \in Shells, Supervisor!Die(p)
  PROVE  SupInv'
  <1> USE DEF SupInv
  <1>1. /\ shell' = [shell EXCEPT ![p] = [pc |-> "none", prev |-> None]]
        /\ stuck' = stuck \ {p} /\ UNCHANGED <<pidf, age, raced>>
    BY DEF Supervisor!Die
  <1>2. /\ shell' \in [Shells -> [pc : SupPcs, prev : Shells \cup {None}]]
        /\ shell'[p].pc = "none" /\ \A q \in Shells \ {p} : shell'[q] = shell[q]
    <2>1. [pc |-> "none", prev |-> None] \in [pc : SupPcs, prev : Shells \cup {None}]
      BY DEF SupPcs
    <2>2. QED BY <1>1, <2>1, SupSet
  <1>3. SupType'
    <2>1. \A q \in Shells : shell'[q].pc = "kill" => shell'[q].prev # None
      BY <1>2 DEF SupType
    <2>2. \A q \in stuck' : q \in Shells /\ shell'[q].pc = "loop"
      BY <1>1, <1>2 DEF SupType
    <2>3. QED BY <1>1, <1>2, <2>1, <2>2 DEF SupType
  <1> SUFFICES ASSUME ~raced'
               PROVE  /\ \A q \in Shells : StarterOK(q)' /\ LoopOK(q)'
                      /\ \A q, s \in Shells : PairOK(q, s)'
    BY <1>3
  <1>4. \A q \in Shells : StarterOK(q)'
    BY <1>1, <1>2 DEF StarterOK, Starts, Claims, NoLoop, Alone
  <1>5. \A q \in Shells : LoopOK(q)'
    BY <1>1, <1>2 DEF LoopOK
  <1>6. \A q, s \in Shells : PairOK(q, s)'
    BY <1>1, <1>2 DEF PairOK, Starts, Claims
  <1>7. QED BY <1>4, <1>5, <1>6

LEMMA SupNext ==
  ASSUME SupInv, [Supervisor!Next]_supervisorVars
  PROVE  SupInv'
  <1>1. CASE Supervisor!Tick
    BY <1>1, SupTimeStep
  <1>2. ASSUME NEW p \in Shells,
               \/ Supervisor!GuardStarts(p) \/ Supervisor!HandStarts(p)
               \/ Supervisor!Stall(p) \/ Supervisor!Resume(p) \/ Supervisor!Die(p)
        PROVE  SupInv'
    BY <1>2, SupGuardStep, SupHandStep, SupStallStep, SupDieStep
  <1>3. ASSUME NEW p \in Shells, Supervisor!Step(p)
        PROVE  SupInv'
    BY <1>3, SupLookStep, SupKillStep, SupUnlinkStep, SupCreateStep, SupWriteStep,
       SupJudgeStep, SupOverrideStep, SupBeatStep
    DEF Supervisor!Step
  <1>4. CASE UNCHANGED supervisorVars
    <2>1. UNCHANGED <<pidf, age, shell, stuck, raced>>
      BY <1>4 DEF supervisorVars
    <2>2. SupType'
      BY <2>1 DEF SupInv, SupType
    <2>3. QED
      BY <2>1, <2>2 DEF SupInv, StarterOK, LoopOK, PairOK, Starts, Claims, NoLoop, Alone
  <1>5. QED BY <1>1, <1>2, <1>3, <1>4 DEF Supervisor!Next

LEMMA SupOne == SupInv => OneSupervisor
  BY DEF OneSupervisor, Supervisor!OneSupervisor, Supervisor!Looping, SupInv, LoopOK

----------------------------------------------------------------------------
(* The camera's identity. *)

Fields == {"adopted", "uuid", "host"}
Paths == {"cert", "key", "device", "uuid", "adopted", "host"}
Does == {"mem", "open", "put", "remove", "reboot"}
Values == Consoles \cup Hosts \cup BOOLEAN \cup {Own, None} \cup 1..2
Ops == [do : Does, what : Paths \cup {"power"}, val : Values]

\* Among the operations l.
Has(l, do, f) == \E i \in 1..Len(l) : l[i].do = do /\ l[i].what = f
On(l, f) == \E i \in 1..Len(l) : l[i].what = f

\* What is left of one of the programs: a variable is set before its file is
\* rewritten, but for the id whose file has been removed; a file that is emptied
\* is filled next; the key is written last of the pair, once.
Program(l) ==
    /\ l \in Seq(Ops)
    /\ \A i \in 1..Len(l) :
        /\ l[i].do = "open" => i < Len(l) /\ l[i + 1].do = "put" /\ l[i + 1].what = l[i].what
        /\ l[i].do = "mem" =>
            /\ l[i].what \in Fields
            /\ \/ l[i].what = "uuid" /\ l[i].val = None
               \/ i < Len(l) /\ l[i + 1].do = "open" /\ l[i + 1].what = l[i].what
        /\ l[i].do # "reboot" => l[i].what \in Paths
        /\ l[i].do = "put" /\ l[i].what = "key" =>
            \A j \in (i + 1)..Len(l) : l[j].what \notin {"cert", "key"}
        /\ l[i].do = "put" /\ l[i].what = "cert" =>
            /\ i < Len(l) /\ l[i + 1].do = "open" /\ l[i + 1].what = "key"
            /\ \A j \in (i + 1)..Len(l) : l[j].what # "cert"

LEMMA ProgramRest ==
  ASSUME NEW l, Program(l), NEW t, t \in Seq(Ops), Len(l) = Len(t) + 1,
         \A i \in 1..Len(t) : t[i] = l[i + 1], NEW o, o = l[1]
  PROVE  /\ Program(t)
         /\ \A i \in 1..Len(t) : i + 1 \in 1..Len(l) /\ t[i] = l[i + 1]
         /\ \A d, f : Has(l, d, f) <=> (o.do = d /\ o.what = f) \/ Has(t, d, f)
         /\ \A f : On(l, f) <=> o.what = f \/ On(t, f)
         /\ o.do # "reboot" => o.what \in Paths
         /\ o.do = "open" => /\ Len(t) # 0 /\ t[1].do = "put" /\ t[1].what = o.what
                             /\ Has(t, "put", o.what)
         /\ o.do = "mem" => /\ o.what \in Fields
                            /\ Has(t, "open", o.what) \/ (o.what = "uuid" /\ o.val = None)
         /\ o.do = "put" /\ o.what = "key" => ~On(t, "cert") /\ ~On(t, "key")
         /\ o.do = "put" /\ o.what = "cert" => ~On(t, "cert") /\ Has(t, "open", "key")
  <1> DEFINE n == Len(l)
             m == Len(t)
  <1>1. /\ n = m + 1 /\ m \in Nat /\ o = l[1]
        /\ \A i \in 1..m : t[i] = l[i + 1]
    OBVIOUS
  <1>2. /\ \A i \in 1..n :
            /\ l[i].do = "open" => i < n /\ l[i + 1].do = "put" /\ l[i + 1].what = l[i].what
            /\ l[i].do = "mem" =>
                /\ l[i].what \in Fields
                /\ \/ l[i].what = "uuid" /\ l[i].val = None
                   \/ i < n /\ l[i + 1].do = "open" /\ l[i + 1].what = l[i].what
            /\ l[i].do # "reboot" => l[i].what \in Paths
            /\ l[i].do = "put" /\ l[i].what = "key" =>
                \A j \in (i + 1)..n : l[j].what \notin {"cert", "key"}
            /\ l[i].do = "put" /\ l[i].what = "cert" =>
                /\ i < n /\ l[i + 1].do = "open" /\ l[i + 1].what = "key"
                /\ \A j \in (i + 1)..n : l[j].what # "cert"
    BY DEF Program
  <1>3. /\ \A d, f : Has(l, d, f) <=> \E i \in 1..n : l[i].do = d /\ l[i].what = f
        /\ \A d, f : Has(t, d, f) <=> \E i \in 1..m : t[i].do = d /\ t[i].what = f
        /\ \A f : On(l, f) <=> \E i \in 1..n : l[i].what = f
        /\ \A f : On(t, f) <=> \E i \in 1..m : t[i].what = f
    BY DEF Has, On
  <1> HIDE DEF n, m
  <1>4. m \in Nat /\ n = m + 1
    BY <1>1
  <1>5. \A i \in 1..m : i + 1 \in 1..n /\ t[i] = l[i + 1]
    BY <1>1
  <1>6. \A i \in 1..n : i = 1 \/ \E j \in 1..m : i = j + 1
    <2> TAKE i \in 1..n
    <2>1. i # 1 => i - 1 \in 1..m /\ i = (i - 1) + 1
      BY <1>4
    <2>2. QED BY <2>1
  <1>7. \A d, f : Has(l, d, f) <=> (o.do = d /\ o.what = f) \/ Has(t, d, f)
    <2> SUFFICES ASSUME NEW d, NEW f
                 PROVE  Has(l, d, f) <=> (o.do = d /\ o.what = f) \/ Has(t, d, f)
      OBVIOUS
    <2>1. 1 \in 1..n
      BY <1>4
    <2>2. ASSUME NEW i \in 1..n, l[i].do = d, l[i].what = f
          PROVE  (o.do = d /\ o.what = f) \/ \E j \in 1..m : t[j].do = d /\ t[j].what = f
      <3>1. CASE i = 1
        BY <1>1, <2>2, <3>1
      <3>2. ASSUME NEW j \in 1..m, i = j + 1
            PROVE  t[j].do = d /\ t[j].what = f
        BY <1>5, <2>2, <3>2
      <3>3. QED BY <1>6, <3>1, <3>2
    <2>3. ASSUME NEW j \in 1..m, t[j].do = d, t[j].what = f
          PROVE  \E i \in 1..n : l[i].do = d /\ l[i].what = f
      <3>1. j + 1 \in 1..n /\ t[j] = l[j + 1]
        BY <1>5
      <3>2. QED BY <2>3, <3>1
    <2>4. (o.do = d /\ o.what = f) => \E i \in 1..n : l[i].do = d /\ l[i].what = f
      BY <1>1, <2>1
    <2>5. QED BY <1>3, <2>2, <2>3, <2>4
  <1>8. \A f : On(l, f) <=> o.what = f \/ On(t, f)
    <2>1. \A k, f : On(k, f) <=> \E d : Has(k, d, f)
      BY DEF On, Has
    <2>2. QED BY <1>7, <2>1
  <1>9. Program(t)
    <2>1. ASSUME NEW i \in 1..m
          PROVE  /\ t[i].do = "open" => i < m /\ t[i + 1].do = "put" /\ t[i + 1].what = t[i].what
                 /\ t[i].do = "mem" =>
                     /\ t[i].what \in Fields
                     /\ \/ t[i].what = "uuid" /\ t[i].val = None
                        \/ i < m /\ t[i + 1].do = "open" /\ t[i + 1].what = t[i].what
                 /\ t[i].do # "reboot" => t[i].what \in Paths
                 /\ t[i].do = "put" /\ t[i].what = "key" =>
                     \A j \in (i + 1)..m : t[j].what \notin {"cert", "key"}
                 /\ t[i].do = "put" /\ t[i].what = "cert" =>
                     /\ i < m /\ t[i + 1].do = "open" /\ t[i + 1].what = "key"
                     /\ \A j \in (i + 1)..m : t[j].what # "cert"
      <3> DEFINE k == i + 1
      <3>1. k \in 1..n /\ t[i] = l[k] /\ (k < n => i < m /\ t[k] = l[k + 1])
        BY <1>4, <1>5
      <3>2. \A j \in k..m : j + 1 \in (k + 1)..n /\ t[j] = l[j + 1]
        BY <1>4, <1>5
      <3> HIDE DEF k
      <3>3. /\ t[i].do = "open" => i < m /\ t[k].do = "put" /\ t[k].what = t[i].what
            /\ t[i].do = "mem" =>
                /\ t[i].what \in Fields
                /\ \/ t[i].what = "uuid" /\ t[i].val = None
                   \/ i < m /\ t[k].do = "open" /\ t[k].what = t[i].what
            /\ t[i].do # "reboot" => t[i].what \in Paths
        BY <1>2, <3>1
      <3>4. t[i].do = "put" /\ t[i].what = "key" => \A j \in k..m : t[j].what \notin {"cert", "key"}
        BY <1>2, <3>1, <3>2
      <3>5. t[i].do = "put" /\ t[i].what = "cert" =>
                     /\ i < m /\ t[k].do = "open" /\ t[k].what = "key"
                     /\ \A j \in k..m : t[j].what # "cert"
        BY <1>2, <3>1, <3>2
      <3>6. QED BY <3>3, <3>4, <3>5 DEF k
    <2>2. QED BY <2>1 DEF Program, m
  <1>10. 1 \in 1..n /\ (1 < n => m # 0 /\ 1 \in 1..m /\ t[1] = l[1 + 1])
    BY <1>4, <1>5
  <1>11. o.do # "reboot" => o.what \in Paths
    BY <1>1, <1>2, <1>10
  <1>12. o.do = "open" => /\ m # 0 /\ t[1].do = "put" /\ t[1].what = o.what
                          /\ Has(t, "put", o.what)
    BY <1>1, <1>2, <1>3, <1>10
  <1>13. o.do = "mem" => /\ o.what \in Fields
                         /\ Has(t, "open", o.what) \/ (o.what = "uuid" /\ o.val = None)
    BY <1>1, <1>2, <1>3, <1>10
  <1>14. \A i \in 1..m : i + 1 \in (1 + 1)..n
    BY <1>4
  <1>15. o.do = "put" /\ o.what = "key" => ~On(t, "cert") /\ ~On(t, "key")
    <2> SUFFICES ASSUME o.do = "put", o.what = "key"
                 PROVE  \A i \in 1..m : t[i].what \notin {"cert", "key"}
      BY <1>3
    <2>1. \A j \in (1 + 1)..n : l[j].what \notin {"cert", "key"}
      BY <1>1, <1>2, <1>10
    <2>2. QED BY <1>5, <1>14, <2>1
  <1>16. o.do = "put" /\ o.what = "cert" => ~On(t, "cert") /\ Has(t, "open", "key")
    <2> SUFFICES ASSUME o.do = "put", o.what = "cert"
                 PROVE  /\ \A i \in 1..m : t[i].what # "cert"
                        /\ \E i \in 1..m : t[i].do = "open" /\ t[i].what = "key"
      BY <1>3
    <2>1. /\ \A j \in (1 + 1)..n : l[j].what # "cert"
          /\ 1 < n /\ l[1 + 1].do = "open" /\ l[1 + 1].what = "key"
      BY <1>1, <1>2, <1>10
    <2>2. \A i \in 1..m : t[i].what # "cert"
      BY <1>5, <1>14, <2>1
    <2>3. QED BY <1>10, <2>1, <2>2
  <1>17. QED
    <2>1. \A i \in 1..Len(t) : i + 1 \in 1..Len(l) /\ t[i] = l[i + 1]
      BY <1>5 DEF n, m
    <2>2. o.do = "open" => Len(t) # 0
      BY <1>12 DEF m
    <2>3. QED BY <1>7, <1>8, <1>9, <1>11, <1>12, <1>13, <1>15, <1>16, <2>1, <2>2

\* The first operation of a program, and the rest.
LEMMA ProgramStep ==
  ASSUME NEW l, Program(l), l # <<>>
  PROVE  \E o \in Ops, t \in Seq(Ops) :
         /\ o = Head(l) /\ t = Tail(l)
         /\ Program(t) /\ o = l[1] /\ 1 \in 1..Len(l) /\ Len(l) = Len(t) + 1
         /\ \A i \in 1..Len(t) : i + 1 \in 1..Len(l) /\ t[i] = l[i + 1]
         /\ \A d, f : Has(l, d, f) <=> (o.do = d /\ o.what = f) \/ Has(t, d, f)
         /\ \A f : On(l, f) <=> o.what = f \/ On(t, f)
         /\ o.do # "reboot" => o.what \in Paths
         /\ o.do = "open" => /\ t # <<>> /\ t[1].do = "put" /\ t[1].what = o.what
                             /\ Has(t, "put", o.what)
         /\ o.do = "mem" => /\ o.what \in Fields
                            /\ Has(t, "open", o.what) \/ (o.what = "uuid" /\ o.val = None)
         /\ o.do = "put" /\ o.what = "key" => ~On(t, "cert") /\ ~On(t, "key")
         /\ o.do = "put" /\ o.what = "cert" => ~On(t, "cert") /\ Has(t, "open", "key")
  <1> DEFINE o == Head(l)
             t == Tail(l)
  <1>1. l \in Seq(Ops)
    BY DEF Program
  <1>2. /\ o = l[1] /\ o \in Ops /\ t \in Seq(Ops)
        /\ Len(l) = Len(t) + 1 /\ 1 \in 1..Len(l) /\ o = Head(l) /\ t = Tail(l)
        /\ \A i \in 1..Len(t) : t[i] = l[i + 1]
    BY <1>1
  <1>3. o = Head(l) /\ t = Tail(l)
    OBVIOUS
  <1> HIDE DEF o, t
  <1>4. t \in Seq(Ops) => (t # <<>> <=> Len(t) # 0)
    OBVIOUS
  <1>5. /\ Program(t)
        /\ \A i \in 1..Len(t) : i + 1 \in 1..Len(l) /\ t[i] = l[i + 1]
        /\ \A d, f : Has(l, d, f) <=> (o.do = d /\ o.what = f) \/ Has(t, d, f)
        /\ \A f : On(l, f) <=> o.what = f \/ On(t, f)
        /\ o.do # "reboot" => o.what \in Paths
        /\ o.do = "open" => /\ Len(t) # 0 /\ t[1].do = "put" /\ t[1].what = o.what
                            /\ Has(t, "put", o.what)
        /\ o.do = "mem" => /\ o.what \in Fields
                           /\ Has(t, "open", o.what) \/ (o.what = "uuid" /\ o.val = None)
        /\ o.do = "put" /\ o.what = "key" => ~On(t, "cert") /\ ~On(t, "key")
        /\ o.do = "put" /\ o.what = "cert" => ~On(t, "cert") /\ Has(t, "open", "key")
    <2>1. t \in Seq(Ops) /\ (\A i \in 1..Len(t) : t[i] = l[i + 1]) /\ o = l[1]
          /\ Len(l) = Len(t) + 1
      BY <1>2
    <2>2. QED BY <2>1, ProgramRest
  <1>6. o.do = "open" => t # <<>>
    BY <1>2, <1>4, <1>5
  <1>7. QED
    <2>1. o \in Ops /\ t \in Seq(Ops) /\ o = l[1] /\ 1 \in 1..Len(l) /\ Len(l) = Len(t) + 1
      BY <1>2
    <2>2. QED BY <1>3, <1>5, <1>6, <2>1, Zenon

LEMMA EmptyProgram ==
  /\ Program(<<>>)
  /\ \A d, f : ~Has(<<>>, d, f)
  /\ \A f : ~On(<<>>, f)
  BY DEF Program, Has, On

LEMMA OnHas ==
  ASSUME NEW l, NEW f
  PROVE  /\ \A d : Has(l, d, f) => On(l, f)
         /\ On(l, f) <=> \E d : Has(l, d, f)
  BY DEF On, Has

----------------------------------------------------------------------------
(* What the operations left to do, memory and files have to do with what is meant. *)

Tasks == {"main", "reset"}
Left(do, f) == \E g \in Tasks : Has(todo[g], do, f)
FileLeft(f) == \E do \in {"open", "put", "remove"} : Left(do, f)

\* An operation sets what is meant.
AsMeant(o) ==
    /\ o.do = "put" /\ o.what \in Fields => o.val = meant[o.what]
    /\ o.do = "put" /\ o.what = "host" => o.val \in Hosts
    /\ o.do = "put" /\ o.what = "uuid" => o.val \in Consoles
    /\ o.do = "mem" => \/ o.val = meant[o.what]
                       \/ o.what = "uuid" /\ o.val = None /\ meant.uuid = Own
    /\ o.do = "remove" => /\ o.val = None /\ meant.uuid = Own
                          /\ o.what \in {"cert", "key", "device", "uuid"}

MainOp(o) == o.do \notin {"remove", "reboot"}
ResetOp(o) == o.what # "host" /\ (o.what \in {"cert", "key"} => o.do = "remove")

IdentityShape ==
    /\ up \in BOOLEAN
    /\ mem = [f \in Fields |-> mem[f]] /\ disk = [f \in Paths |-> disk[f]]
    /\ todo = [g \in Tasks |-> todo[g]] /\ (\A g \in Tasks : todo[g] \in Seq(Ops))
    /\ meant = [f \in Fields |-> meant[f]]
    /\ meant.adopted \in BOOLEAN /\ meant.uuid \in Consoles \cup {Own}
    /\ meant.host \in Hosts \cup {Default}
    /\ meant.adopted => meant.uuid # Own
    /\ ~up => todo.main = <<>> /\ todo.reset = <<>>

Programs ==
    /\ todo.main = <<>> \/ todo.reset = <<>>
    /\ Program(todo.main) /\ Program(todo.reset)
    /\ \A i \in 1..Len(todo.main) : MainOp(todo.main[i]) /\ AsMeant(todo.main[i])
    /\ \A i \in 1..Len(todo.reset) : ResetOp(todo.reset[i]) /\ AsMeant(todo.reset[i])
    /\ todo.reset # <<>> => todo.reset[Len(todo.reset)].do = "reboot"

\* A console's id matters while there is one, the host unless it is overruled.
Counts(f) == (f = "uuid" => meant.uuid # Own) /\ (f = "host" => cfgHost = None)
MemoryAs(f) ==
    up /\ ~Left("mem", f) /\ (f \notin spoiled \/ Left("put", f)) /\ Counts(f) => mem[f] = meant[f]

DiskAs(f) ==
    ~FileLeft(f) /\ f \notin spoiled /\ (f = "host" => cfgHost = None)
        => Identity!Loaded(disk)[f] = meant[f]

\* The certificate and the key are a pair, or one is absent.
Whole == disk.cert \notin {None, Empty} /\ disk.cert = disk.key
Torn == disk.cert # None /\ disk.key # None /\ ~Whole

PairAs ==
    /\ \E n \in 1..2 :
        /\ \A i \in 1..Len(todo.main) :
              todo.main[i].do = "put" /\ todo.main[i].what \in {"cert", "key"} => todo.main[i].val = n
        /\ Has(todo.main, "put", "key") /\ ~Has(todo.main, "put", "cert") => disk.cert = n
    /\ On(todo.main, "cert") \/ On(todo.main, "key") => Has(todo.main, "put", "key")
    /\ "pair" \notin spoiled /\ ~On(todo.main, "key") =>
        /\ ~Torn
        /\ up /\ todo.reset = <<>> => Whole

IdentityInv ==
    /\ IdentityShape
    /\ "overlap" \notin spoiled => /\ Programs /\ PairAs
                                   /\ \A f \in Fields : MemoryAs(f) /\ DiskAs(f)

\* Only the goroutine g has anything to do, and k afterwards.
LEMMA LeftStep ==
  ASSUME IdentityShape, NEW g \in Tasks, \A h \in Tasks \ {g} : todo[h] = <<>>,
         NEW k, todo' = [todo EXCEPT ![g] = k]
  PROVE  /\ \A d, f : Left(d, f) <=> Has(todo[g], d, f)
         /\ \A d, f : Left(d, f)' <=> Has(k, d, f)
         /\ todo'[g] = k /\ \A h \in Tasks \ {g} : todo'[h] = <<>>
         /\ todo' = [h \in Tasks |-> todo'[h]]
  <1>1. todo'[g] = k /\ (\A h \in Tasks \ {g} : todo'[h] = <<>>) /\ todo' = [h \in Tasks |-> todo'[h]]
    BY DEF IdentityShape
  <1>2. \A h \in Tasks : h = g \/ h \in Tasks \ {g}
    OBVIOUS
  <1>3. \A d, f : Left(d, f) <=> Has(todo[g], d, f)
    BY <1>2, EmptyProgram DEF Left
  <1>4. \A d, f : Left(d, f)' <=> \E h \in Tasks : Has(todo'[h], d, f)
    BY DEF Left
  <1>5. \A d, f : Left(d, f)' <=> Has(k, d, f)
    BY <1>1, <1>2, <1>4, EmptyProgram
  <1>6. QED BY <1>1, <1>3, <1>5

LEMMA TodoKept ==
  ASSUME IdentityShape, NEW g \in Tasks, NEW k \in Seq(Ops), todo' = [todo EXCEPT ![g] = k]
  PROVE  todo' = [h \in Tasks |-> todo'[h]] /\ \A h \in Tasks : todo'[h] \in Seq(Ops)
  BY DEF IdentityShape

LEMMA LoadedFields ==
  ASSUME NEW d
  PROVE  /\ Identity!Loaded(d) = [f \in Fields |-> Identity!Loaded(d)[f]]
         /\ Identity!Loaded(d)["adopted"] = (d.adopted = TRUE)
         /\ Identity!Loaded(d)["uuid"] = IF d.uuid \notin {None, Empty} THEN d.uuid ELSE Own
         /\ cfgHost = None =>
              Identity!Loaded(d)["host"] = IF d.host \notin {None, Empty} THEN d.host ELSE Default
  <1> DEFINE a == d.adopted = TRUE
             u == IF d.uuid \notin {None, Empty} THEN d.uuid ELSE Own
             h == CASE cfgHost # None -> cfgHost
                    [] cfgHost = None /\ d.host \notin {None, Empty} -> d.host
                    [] OTHER -> Default
             r == Identity!Loaded(d)
  <1>1. r = [adopted |-> a, uuid |-> u, host |-> h]
    BY DEF Identity!Loaded, Identity!Holds
  <1>2. cfgHost = None => h = IF d.host \notin {None, Empty} THEN d.host ELSE Default
    OBVIOUS
  <1> HIDE DEF a, u, h, r
  <1>3. r = [f \in {"adopted", "uuid", "host"} |-> r[f]] /\ r["adopted"] = a /\ r["uuid"] = u /\ r["host"] = h
    BY <1>1
  <1> USE DEF a, u
  <1>4. QED BY <1>2, <1>3 DEF Fields, r

\* Some of the operations of l, its last one included.
PartOf(k, l) ==
    /\ Program(k)
    /\ \A i \in 1..Len(k) : \E j \in 1..Len(l) : k[i] = l[j]
    /\ k # <<>> => k[Len(k)] = l[Len(l)]

LEMMA TailPart ==
  ASSUME NEW l, Program(l), l # <<>>, NEW t, Program(t), Len(l) = Len(t) + 1,
         \A i \in 1..Len(t) : i + 1 \in 1..Len(l) /\ t[i] = l[i + 1]
  PROVE  PartOf(t, l)
  <1>1. t \in Seq(Ops)
    BY DEF Program
  <1>2. t # <<>> => Len(t) \in 1..Len(t)
    BY <1>1
  <1>3. t # <<>> => t[Len(t)] = l[Len(l)]
    BY <1>2
  <1>4. QED BY <1>3 DEF PartOf

LEMMA PartTwice ==
  ASSUME NEW l, NEW k, NEW s, PartOf(s, k), PartOf(k, l), k # <<>>
  PROVE  PartOf(s, l)
  BY DEF PartOf

LEMMA TodoOf ==
  ASSUME IdentityShape
  PROVE  todo.main = todo["main"] /\ todo.reset = todo["reset"]
  OBVIOUS

LEMMA ProgramOps ==
  ASSUME NEW l, Program(l)
  PROVE  /\ \A i \in 1..Len(l) : l[i] \in Ops
         /\ \A d, f : Has(l, d, f) => d \in Does
  <1>1. l \in Seq(Ops)
    BY DEF Program
  <1>2. \A i \in 1..Len(l) : l[i] \in Ops
    BY <1>1
  <1>3. \A o \in Ops : o.do \in Does
    BY DEF Ops
  <1>4. QED BY <1>2, <1>3 DEF Has

\* Only one of the goroutines has something to do.
LEMMA OneActive ==
  ASSUME IdentityShape, Programs, NEW g \in Tasks, todo[g] # <<>>
  PROVE  /\ up /\ Program(todo[g])
         /\ \A h \in Tasks \ {g} : todo[h] = <<>>
         /\ \A i \in 1..Len(todo[g]) : AsMeant(todo[g][i])
         /\ g = "main" => \A i \in 1..Len(todo[g]) : MainOp(todo[g][i])
         /\ g = "reset" => /\ \A i \in 1..Len(todo[g]) : ResetOp(todo[g][i])
                           /\ todo[g][Len(todo[g])].do = "reboot"
  <1>1. CASE g = "main"
    <2>1. todo.main # <<>>
      BY <1>1
    <2>2. todo["reset"] = <<>>
      BY <2>1 DEF Programs
    <2>3. QED BY <1>1, <2>1, <2>2 DEF Programs, IdentityShape, Tasks
  <1>2. CASE g = "reset"
    <2>1. todo.reset # <<>>
      BY <1>2
    <2>2. todo["main"] = <<>>
      BY <2>1 DEF Programs
    <2>3. QED BY <1>2, <2>1, <2>2 DEF Programs, IdentityShape, Tasks
  <1>3. QED BY <1>1, <1>2 DEF Tasks

LEMMA ProgramsKept ==
  ASSUME IdentityShape, Programs, NEW g \in Tasks, todo[g] # <<>>, NEW k, PartOf(k, todo[g]),
         todo' = [todo EXCEPT ![g] = k], meant' = meant
  PROVE  Programs'
  <1>1. /\ \A h \in Tasks \ {g} : todo[h] = <<>>
        /\ \A i \in 1..Len(todo[g]) : AsMeant(todo[g][i])
        /\ g = "main" => \A i \in 1..Len(todo[g]) : MainOp(todo[g][i])
        /\ g = "reset" => /\ \A i \in 1..Len(todo[g]) : ResetOp(todo[g][i])
                          /\ todo[g][Len(todo[g])].do = "reboot"
    BY OneActive
  <1>2. todo'[g] = k /\ \A h \in Tasks \ {g} : todo'[h] = <<>>
    BY <1>1, LeftStep
  <1>3. \A o : AsMeant(o) => AsMeant(o)'
    BY DEF AsMeant
  <1>4. /\ Program(k)
        /\ \A i \in 1..Len(k) : AsMeant(k[i])'
        /\ g = "main" => \A i \in 1..Len(k) : MainOp(k[i])
        /\ g = "reset" => /\ \A i \in 1..Len(k) : ResetOp(k[i])
                          /\ k # <<>> => k[Len(k)].do = "reboot"
    BY <1>1, <1>3 DEF PartOf
  <1>5. \A i \in 1..Len(<<>>) : FALSE
    OBVIOUS
  <1>6. CASE g = "main"
    <2>1. todo'.main = k /\ todo'.reset = <<>>
      BY <1>2, <1>6 DEF Tasks
    <2>2. QED BY <1>4, <1>5, <1>6, <2>1, EmptyProgram DEF Programs
  <1>7. CASE g = "reset"
    <2>1. todo'.reset = k /\ todo'.main = <<>>
      BY <1>2, <1>7 DEF Tasks
    <2>2. QED BY <1>4, <1>5, <1>7, <2>1, EmptyProgram DEF Programs
  <1>8. QED BY <1>6, <1>7 DEF Tasks

\* The pair is left alone.
LEMMA PairKept ==
  ASSUME IdentityShape, Programs, PairAs, NEW g \in Tasks, todo[g] # <<>>, NEW k, PartOf(k, todo[g]),
         todo' = [todo EXCEPT ![g] = k],
         \A f \in {"cert", "key"}, d \in Does : Has(k, d, f) <=> Has(todo[g], d, f),
         g = "reset" => k # <<>>,
         disk'.cert = disk.cert, disk'.key = disk.key, up' = up,
         "pair" \in spoiled => "pair" \in spoiled'
  PROVE  PairAs'
  <1>1. /\ \A h \in Tasks \ {g} : todo[h] = <<>> /\ todo'[h] = <<>>
        /\ todo'[g] = k
    BY OneActive, LeftStep
  <1>2. \A i \in 1..Len(<<>>) : FALSE
    OBVIOUS
  <1>3. PICK n \in 1..2 :
          /\ \A i \in 1..Len(todo.main) :
                todo.main[i].do = "put" /\ todo.main[i].what \in {"cert", "key"} => todo.main[i].val = n
          /\ Has(todo.main, "put", "key") /\ ~Has(todo.main, "put", "cert") => disk.cert = n
    BY DEF PairAs
  <1>4. \A f \in {"cert", "key"} : On(todo'.main, f) <=> On(todo.main, f)
    <2>1. CASE g = "main"
      <3>1. \A d, f : Has(todo[g], d, f) => d \in Does
        BY OneActive, ProgramOps
      <3>2. \A d, f : Has(k, d, f) => d \in Does
        BY ProgramOps DEF PartOf
      <3>3. QED BY <1>1, <2>1, <3>1, <3>2, OnHas
    <2>2. CASE g = "reset"
      BY <1>1, <2>2 DEF Tasks
    <2>3. QED BY <2>1, <2>2 DEF Tasks
  <1>5. \A f \in {"cert", "key"} : Has(todo'.main, "put", f) <=> Has(todo.main, "put", f)
    BY <1>1 DEF Tasks, Does
  <1>6. \A i \in 1..Len(todo'.main) :
            todo'.main[i].do = "put" /\ todo'.main[i].what \in {"cert", "key"} => todo'.main[i].val = n
    <2>1. CASE g = "main"
      <3>1. todo'.main = k /\ todo.main = todo[g]
        BY <1>1, <2>1
      <3>2. \A i \in 1..Len(k) : \E j \in 1..Len(todo[g]) : k[i] = todo[g][j]
        BY DEF PartOf
      <3>3. \A j \in 1..Len(todo[g]) :
              todo[g][j].do = "put" /\ todo[g][j].what \in {"cert", "key"} => todo[g][j].val = n
        BY <1>3, <3>1
      <3>4. \A i \in 1..Len(k) : k[i].do = "put" /\ k[i].what \in {"cert", "key"} => k[i].val = n
        BY <3>2, <3>3
      <3>5. QED BY <3>1, <3>4
    <2>2. CASE g = "reset"
      <3>1. todo'.main = <<>>
        BY <1>1, <2>2 DEF Tasks
      <3>2. QED BY <1>2, <3>1
    <2>3. QED BY <2>1, <2>2 DEF Tasks
  <1>7. todo'.reset = <<>> => todo.reset = <<>>
    BY <1>1 DEF Tasks
  <1>8. (Torn' <=> Torn) /\ (Whole' <=> Whole)
    BY DEF Torn, Whole
  <1>9. /\ Has(todo'.main, "put", "key") /\ ~Has(todo'.main, "put", "cert") => disk'.cert = n
        /\ On(todo'.main, "cert") \/ On(todo'.main, "key") => Has(todo'.main, "put", "key")
    BY <1>3, <1>4, <1>5 DEF PairAs
  <1>10. "pair" \notin spoiled' /\ ~On(todo'.main, "key") =>
            /\ ~Torn'
            /\ up' /\ todo'.reset = <<>> => Whole'
    BY <1>4, <1>7, <1>8 DEF PairAs
  <1>11. QED BY <1>6, <1>9, <1>10 DEF PairAs

\* The operation a goroutine is about to do, and what it has to do after it.
FirstOp(g, o, t) ==
    /\ o \in Ops /\ o = Head(todo[g]) /\ t = Tail(todo[g])
    /\ PartOf(t, todo[g])
    /\ \A d, f : Has(todo[g], d, f) <=> (o.do = d /\ o.what = f) \/ Has(t, d, f)
    /\ \A f : On(todo[g], f) <=> o.what = f \/ On(t, f)
    /\ o.do # "reboot" => o.what \in Paths
    /\ o.do = "open" => /\ t # <<>> /\ t[1].do = "put" /\ t[1].what = o.what
                        /\ Has(t, "put", o.what)
    /\ o.do = "mem" => /\ o.what \in Fields
                       /\ Has(t, "open", o.what) \/ (o.what = "uuid" /\ o.val = None)
    /\ o.do = "put" /\ o.what = "key" => ~On(t, "cert") /\ ~On(t, "key")
    /\ o.do = "put" /\ o.what = "cert" => ~On(t, "cert") /\ Has(t, "open", "key")
    /\ AsMeant(o) /\ (g = "main" => MainOp(o)) /\ \E i \in 1..Len(todo[g]) : o = todo[g][i]
    /\ g = "reset" => ResetOp(o) /\ (o.do # "reboot" => t # <<>>)

LEMMA FirstOpOf ==
  ASSUME IdentityShape, Programs, NEW g \in Tasks, todo[g] # <<>>
  PROVE  \E o, t : FirstOp(g, o, t)
  <1> DEFINE l == todo[g]
  <1>1. /\ Program(l) /\ l # <<>>
        /\ \A i \in 1..Len(l) : AsMeant(l[i])
        /\ g = "main" => \A i \in 1..Len(l) : MainOp(l[i])
        /\ g = "reset" => (\A i \in 1..Len(l) : ResetOp(l[i])) /\ l[Len(l)].do = "reboot"
    BY OneActive
  <1>2. PICK o \in Ops, t \in Seq(Ops) :
         /\ o = Head(l) /\ t = Tail(l)
         /\ Program(t) /\ o = l[1] /\ 1 \in 1..Len(l) /\ Len(l) = Len(t) + 1
         /\ \A i \in 1..Len(t) : i + 1 \in 1..Len(l) /\ t[i] = l[i + 1]
         /\ \A d, f : Has(l, d, f) <=> (o.do = d /\ o.what = f) \/ Has(t, d, f)
         /\ \A f : On(l, f) <=> o.what = f \/ On(t, f)
         /\ o.do # "reboot" => o.what \in Paths
         /\ o.do = "open" => /\ t # <<>> /\ t[1].do = "put" /\ t[1].what = o.what
                             /\ Has(t, "put", o.what)
         /\ o.do = "mem" => /\ o.what \in Fields
                            /\ Has(t, "open", o.what) \/ (o.what = "uuid" /\ o.val = None)
         /\ o.do = "put" /\ o.what = "key" => ~On(t, "cert") /\ ~On(t, "key")
         /\ o.do = "put" /\ o.what = "cert" => ~On(t, "cert") /\ Has(t, "open", "key")
    BY <1>1, ProgramStep, Zenon
  <1> HIDE DEF l
  <1>3. PartOf(t, l)
    <2>1. Program(t) /\ Len(l) = Len(t) + 1 /\ \A i \in 1..Len(t) : i + 1 \in 1..Len(l) /\ t[i] = l[i + 1]
      BY <1>2, Zenon
    <2>2. QED BY <1>1, <2>1, TailPart, Zenon
  <1>4. AsMeant(o) /\ (g = "main" => MainOp(o)) /\ (g = "reset" => ResetOp(o))
        /\ \E i \in 1..Len(l) : o = l[i]
    <2>1. o = l[1] /\ 1 \in 1..Len(l)
      BY <1>2, Zenon
    <2>2. QED BY <1>1, <2>1, Zenon
  <1>5. g = "reset" /\ o.do # "reboot" => t # <<>>
    <2> SUFFICES ASSUME g = "reset", t = <<>>
                 PROVE  o.do = "reboot"
      OBVIOUS
    <2>1. Len(l) = 1
      <3>1. Len(l) = Len(t) + 1
        BY <1>2, Zenon
      <3>2. Len(<<>>) + 1 = 1
        OBVIOUS
      <3>3. QED BY <3>1, <3>2, Zenon
    <2>2. o = l[1]
      BY <1>2, Zenon
    <2>3. QED BY <1>1, <2>1, <2>2, Zenon
  <1>6. QED
    <2>1. /\ o = Head(todo[g]) /\ t = Tail(todo[g]) /\ PartOf(t, todo[g])
          /\ \A d, f : Has(todo[g], d, f) <=> (o.do = d /\ o.what = f) \/ Has(t, d, f)
          /\ \A f : On(todo[g], f) <=> o.what = f \/ On(t, f)
          /\ \E i \in 1..Len(todo[g]) : o = todo[g][i]
      BY <1>2, <1>3, <1>4, Zenon DEF l
    <2>2. FirstOp(g, o, t)
      BY <1>2, <1>4, <1>5, <2>1, Zenon DEF FirstOp
    <2>3. QED BY <2>2

LEMMA SetMemoryKeeps ==
  ASSUME IdentityInv, NEW g \in Tasks, Identity!SetMemory(g)
  PROVE  IdentityInv'
  <1>1. /\ up /\ todo[g] # <<>> /\ Head(todo[g]).do = "mem"
        /\ mem' = [mem EXCEPT ![Head(todo[g]).what] = Head(todo[g]).val]
        /\ todo' = [todo EXCEPT ![g] = Tail(todo[g])]
        /\ UNCHANGED <<up, disk, cfgHost, meant, spoiled>>
    BY DEF Identity!SetMemory, Identity!Next1, Identity!First, Identity!Pop
  <1>2. IdentityShape /\ todo' = [h \in Tasks |-> todo'[h]] /\ \A h \in Tasks : todo'[h] \in Seq(Ops)
    <2>1. IdentityShape
      BY DEF IdentityInv
    <2>2. Tail(todo[g]) \in Seq(Ops)
      <3>1. todo[g] \in Seq(Ops) /\ todo[g] # <<>>
        BY <1>1, <2>1 DEF IdentityShape
      <3>2. QED BY <3>1
    <2> DEFINE k == Tail(todo[g])
    <2>3. k \in Seq(Ops) /\ todo' = [todo EXCEPT ![g] = k]
      BY <1>1, <2>2
    <2> HIDE DEF k
    <2>4. QED BY <2>1, <2>3, TodoKept
  <1>3. mem' = [f \in Fields |-> mem'[f]]
    BY <1>1 DEF IdentityInv, IdentityShape
  <1>4. IdentityShape'
    BY <1>1, <1>2, <1>3 DEF IdentityShape
  <1>5. ASSUME "overlap" \notin spoiled
        PROVE  Programs' /\ PairAs' /\ \A f \in Fields : MemoryAs(f)' /\ DiskAs(f)'
    <2>1. Programs /\ PairAs /\ \A f \in Fields : MemoryAs(f) /\ DiskAs(f)
      BY <1>5 DEF IdentityInv
    <2>2. \E o, t : FirstOp(g, o, t)
      BY <1>1, <1>2, <2>1, FirstOpOf
    <2>3. PICK o, t : FirstOp(g, o, t)
      BY <2>2
    <2>4. /\ o.do = "mem" /\ mem' = [mem EXCEPT ![o.what] = o.val]
          /\ todo' = [todo EXCEPT ![g] = t] /\ PartOf(t, todo[g])
          /\ o.what \in Fields
          /\ \A d, f : Has(todo[g], d, f) <=> (o.do = d /\ o.what = f) \/ Has(t, d, f)
          /\ g = "reset" => t # <<>>
      <3> HIDE <1>2
      <3>1. o.do = "mem" /\ mem' = [mem EXCEPT ![o.what] = o.val] /\ todo' = [todo EXCEPT ![g] = t]
        BY <1>1, <2>3, Zenon DEF FirstOp
      <3>2. o.do # "reboot"
        BY <3>1
      <3>3. QED BY <2>3, <3>1, <3>2, Zenon DEF FirstOp
    <2>5. Programs'
      BY <1>1, <1>2, <2>1, <2>4, ProgramsKept
    <2>6. PairAs'
      <3>1. \A f \in {"cert", "key"}, d \in Does : Has(t, d, f) <=> Has(todo[g], d, f)
        BY <2>4 DEF Fields
      <3>2. QED BY <1>1, <1>2, <2>1, <2>4, <3>1, PairKept
    <2>7. /\ \A d, f : Left(d, f) <=> Has(todo[g], d, f)
          /\ \A d, f : Left(d, f)' <=> Has(t, d, f)
      <3>1. \A h \in Tasks \ {g} : todo[h] = <<>>
        BY <1>1, <1>2, <2>1, OneActive
      <3>2. QED BY <1>2, <2>4, <3>1, LeftStep
    <2>8. ASSUME NEW f \in Fields
          PROVE  MemoryAs(f)' /\ DiskAs(f)'
      <3>1. Left("put", f)' <=> Left("put", f)
        BY <2>4, <2>7
      <3>2. FileLeft(f)' <=> FileLeft(f)
        BY <2>4, <2>7 DEF FileLeft
      <3>3. DiskAs(f)'
        <4>1. Identity!Loaded(disk)' = Identity!Loaded(disk)
          BY <1>1 DEF Identity!Loaded, Identity!Holds
        <4>2. QED BY <1>1, <2>1, <3>2, <4>1 DEF DiskAs
      <3>4. Counts(f)' <=> Counts(f)
        BY <1>1 DEF Counts
      <3>5. CASE f = o.what
        <4>1. mem'[f] = o.val
          BY <1>2, <2>4, <3>5 DEF IdentityShape
        <4>2. Counts(f) => o.val = meant[f]
          <5>1. AsMeant(o)
            BY <2>3, Zenon DEF FirstOp
          <5>2. meant["uuid"] = meant.uuid
            OBVIOUS
          <5>3. QED BY <2>4, <3>5, <5>1, <5>2 DEF AsMeant, Counts
        <4>3. MemoryAs(f)'
          BY <1>1, <3>4, <4>1, <4>2 DEF MemoryAs
        <4>4. QED BY <3>3, <4>3
      <3>6. CASE f # o.what
        <4>1. mem'[f] = mem[f]
          BY <1>2, <2>4, <3>6 DEF IdentityShape
        <4>2. Left("mem", f)' <=> Left("mem", f)
          BY <2>4, <2>7, <3>6
        <4>3. MemoryAs(f)'
          BY <1>1, <2>1, <3>1, <3>4, <4>1, <4>2 DEF MemoryAs
        <4>4. QED BY <3>3, <4>3
      <3>7. QED BY <3>5, <3>6
    <2>9. QED BY <2>5, <2>6, <2>8
  <1>6. QED BY <1>1, <1>4, <1>5 DEF IdentityInv

LEMMA LoadedSame ==
  ASSUME NEW d, NEW e, NEW f \in Fields, d[f] = e[f], f = "host" => cfgHost = None
  PROVE  Identity!Loaded(d)[f] = Identity!Loaded(e)[f]
  <1>1. /\ \A x : x["adopted"] = x.adopted /\ x["uuid"] = x.uuid /\ x["host"] = x.host
    OBVIOUS
  <1>2. CASE f = "adopted"
    <2>1. /\ Identity!Loaded(d)["adopted"] = (d.adopted = TRUE)
          /\ Identity!Loaded(e)["adopted"] = (e.adopted = TRUE)
      BY LoadedFields
    <2>2. d.adopted = e.adopted
      BY <1>1, <1>2
    <2>3. QED BY <1>2, <2>1, <2>2
  <1>3. CASE f = "uuid"
    BY <1>1, <1>3, LoadedFields
  <1>4. CASE f = "host"
    BY <1>1, <1>4, LoadedFields
  <1>5. QED BY <1>2, <1>3, <1>4 DEF Fields

\* A file that has been filled, or removed, is read as what is meant.
LEMMA LoadedAsMeant ==
  ASSUME IdentityShape, NEW o, o.what \in Fields, o.do \in {"put", "remove"}, AsMeant(o),
         NEW d, d[o.what] = o.val, o.what = "host" => cfgHost = None
  PROVE  Identity!Loaded(d)[o.what] = meant[o.what]
  <1>1. /\ \A x : x["adopted"] = x.adopted /\ x["uuid"] = x.uuid /\ x["host"] = x.host
    OBVIOUS
  <1>2. CASE o.what = "adopted"
    <2>1. d.adopted = meant.adopted
      BY <1>1, <1>2 DEF AsMeant, Fields
    <2>2. (meant.adopted = TRUE) = meant.adopted
      BY DEF IdentityShape
    <2>3. Identity!Loaded(d)["adopted"] = (d.adopted = TRUE)
      BY LoadedFields
    <2>4. Identity!Loaded(d)["adopted"] = (meant.adopted = TRUE)
      BY <2>1, <2>3, Zenon
    <2>5. Identity!Loaded(d)["adopted"] = meant.adopted
      BY <2>2, <2>4, Zenon
    <2>6. QED BY <1>2, <2>5
  <1>3. CASE o.what = "uuid"
    <2>1. CASE o.do = "put"
      <3>1. d.uuid = meant.uuid /\ d.uuid \in Consoles
        BY <1>1, <1>3, <2>1 DEF AsMeant, Fields
      <3>2. d.uuid \notin {None, Empty}
        BY <3>1, IdentityAssumption
      <3>3. QED BY <1>1, <1>3, <3>1, <3>2, LoadedFields
    <2>2. CASE o.do = "remove"
      <3>1. d.uuid = None /\ meant.uuid = Own
        BY <1>1, <1>3, <2>2 DEF AsMeant
      <3>2. QED BY <1>1, <1>3, <3>1, LoadedFields
    <2>3. QED BY <2>1, <2>2
  <1>4. CASE o.what = "host"
    <2>1. o.do = "put"
      BY <1>4 DEF AsMeant
    <2>2. d.host = meant.host /\ d.host \in Hosts
      BY <1>1, <1>4, <2>1 DEF AsMeant, Fields
    <2>3. d.host \notin {None, Empty}
      BY <2>2, IdentityAssumption
    <2>4. QED BY <1>1, <1>4, <2>2, <2>3, LoadedFields
  <1>5. QED BY <1>2, <1>3, <1>4 DEF Fields

LEMMA TouchFileKeeps ==
  ASSUME IdentityInv, NEW g \in Tasks, Identity!TouchFile(g)
  PROVE  IdentityInv'
  <1> DEFINE oo == Head(todo[g])
             val == IF oo.do = "open" THEN Empty ELSE oo.val
             settles == IF oo.what = "key" THEN {"pair"} ELSE {oo.what}
  <1>1. /\ up /\ todo[g] # <<>> /\ oo.do \in {"open", "put", "remove"}
        /\ disk' = [disk EXCEPT ![oo.what] = val]
        /\ spoiled' = IF oo.do = "put" THEN spoiled \ settles ELSE spoiled
        /\ todo' = [todo EXCEPT ![g] = Tail(todo[g])]
        /\ UNCHANGED <<up, mem, cfgHost, meant>>
    BY DEF Identity!TouchFile, Identity!Next1, Identity!First, Identity!Pop
  <1> HIDE DEF oo, val, settles
  <1>2. IdentityShape /\ todo' = [h \in Tasks |-> todo'[h]] /\ \A h \in Tasks : todo'[h] \in Seq(Ops)
    <2>1. IdentityShape
      BY DEF IdentityInv
    <2>2. Tail(todo[g]) \in Seq(Ops)
      <3>1. todo[g] \in Seq(Ops) /\ todo[g] # <<>>
        BY <1>1, <2>1 DEF IdentityShape
      <3>2. QED BY <3>1
    <2> DEFINE k == Tail(todo[g])
    <2>3. k \in Seq(Ops) /\ todo' = [todo EXCEPT ![g] = k]
      BY <1>1, <2>2
    <2> HIDE DEF k
    <2>4. QED BY <2>1, <2>3, TodoKept
  <1>3. disk' = [f \in Paths |-> disk'[f]]
    BY <1>1, <1>2 DEF IdentityShape
  <1>4. IdentityShape'
    BY <1>1, <1>2, <1>3 DEF IdentityShape
  <1>5. ASSUME "overlap" \notin spoiled'
        PROVE  Programs' /\ PairAs' /\ \A f \in Fields : MemoryAs(f)' /\ DiskAs(f)'
    <2>1. "overlap" \notin spoiled /\ Programs /\ PairAs /\ \A f \in Fields : MemoryAs(f) /\ DiskAs(f)
      <3>1. ASSUME "overlap" \in spoiled PROVE FALSE
        <4>1. oo.do = "put" /\ "overlap" \in settles
          BY <1>1, <1>5, <3>1
        <4>2. oo.what = "overlap"
          BY <4>1 DEF settles
        <4>3. todo[g] \in Seq(Ops) /\ todo[g] # <<>>
          BY <1>1, <1>2 DEF IdentityShape
        <4>4. oo \in Ops
          BY <4>3 DEF oo
        <4>5. oo.what # "overlap"
          BY <4>4 DEF Ops, Paths
        <4>6. QED BY <4>2, <4>5
      <3>2. QED BY <3>1 DEF IdentityInv
    <2>2. PICK o, t : FirstOp(g, o, t)
      BY <1>1, <1>2, <2>1, FirstOpOf
    <2>3. /\ o = oo /\ todo' = [todo EXCEPT ![g] = t] /\ PartOf(t, todo[g])
          /\ o.what \in Paths
          /\ \A d, f : Has(todo[g], d, f) <=> (o.do = d /\ o.what = f) \/ Has(t, d, f)
          /\ AsMeant(o)
      <3> HIDE <1>2
      <3>1. o = oo /\ todo' = [todo EXCEPT ![g] = t]
        BY <1>1, <2>2, Zenon DEF FirstOp, oo
      <3>2. o.do # "reboot"
        BY <1>1, <3>1
      <3>3. QED BY <2>2, <3>1, <3>2, Zenon DEF FirstOp
    <2>4. /\ o.do \in {"open", "put", "remove"} /\ disk' = [disk EXCEPT ![o.what] = val]
          /\ val = IF o.do = "open" THEN Empty ELSE o.val
          /\ spoiled' = IF o.do = "put" THEN spoiled \ settles ELSE spoiled
          /\ settles = IF o.what = "key" THEN {"pair"} ELSE {o.what}
      BY <1>1, <2>3 DEF val, settles
    <2> HIDE <1>5
    <2>5. Programs'
      BY <1>1, <1>2, <2>1, <2>3, ProgramsKept
    <2>6. /\ \A d, f : Left(d, f) <=> Has(todo[g], d, f)
          /\ \A d, f : Left(d, f)' <=> Has(t, d, f)
          /\ todo'[g] = t /\ \A h \in Tasks \ {g} : todo[h] = <<>> /\ todo'[h] = <<>>
      <3>1. \A h \in Tasks \ {g} : todo[h] = <<>>
        BY <1>1, <1>2, <2>1, OneActive
      <3>2. QED BY <1>2, <2>3, <3>1, LeftStep
    <2>7. ASSUME NEW f \in Fields
          PROVE  MemoryAs(f)' /\ DiskAs(f)'
      <3>1. Left("mem", f)' <=> Left("mem", f)
        BY <2>3, <2>4, <2>6
      <3>2. Left("put", f)' => Left("put", f)
        BY <2>3, <2>6
      <3>3. f \notin spoiled' => f \notin spoiled \/ Left("put", f)
        BY <2>3, <2>4, <2>6 DEF Fields
      <3>4. Counts(f)' <=> Counts(f)
        BY <1>1 DEF Counts
      <3>5. MemoryAs(f)'
        BY <1>1, <2>1, <3>1, <3>2, <3>3, <3>4 DEF MemoryAs
      <3>6. CASE o.what # f
        <4>1. disk'[f] = disk[f]
          BY <1>2, <2>3, <2>4, <3>6 DEF IdentityShape, Fields, Paths
        <4>2. FileLeft(f)' <=> FileLeft(f)
          BY <2>3, <2>6, <3>6 DEF FileLeft
        <4>3. f \notin spoiled' => f \notin spoiled
          BY <2>4, <3>6 DEF Fields
        <4>4. f = "host" => (cfgHost' = None <=> cfgHost = None)
          BY <1>1
        <4>5. Identity!Loaded(disk)' = Identity!Loaded(disk')
          BY <1>1 DEF Identity!Loaded, Identity!Holds
        <4>6. (f = "host" => cfgHost = None) => Identity!Loaded(disk')[f] = Identity!Loaded(disk)[f]
          BY <4>1, LoadedSame
        <4>7. DiskAs(f)'
          BY <1>1, <2>1, <4>2, <4>3, <4>4, <4>5, <4>6 DEF DiskAs
        <4>8. QED BY <3>5, <4>7
      <3>7. CASE o.what = f
        <4>1. CASE o.do = "open"
          <5>1. Has(t, "put", f)
            BY <2>2, <3>7, <4>1, Zenon DEF FirstOp
          <5>2. FileLeft(f)'
            BY <2>6, <5>1 DEF FileLeft
          <5>3. DiskAs(f)'
            BY <5>2 DEF DiskAs
          <5>4. QED BY <3>5, <5>3
        <4>2. CASE o.do # "open"
          <5>1. o.do \in {"put", "remove"} /\ disk'[o.what] = o.val /\ o.what \in Fields
            BY <1>2, <2>3, <2>4, <3>7, <4>2 DEF IdentityShape
          <5>2. (f = "host" => cfgHost = None) => Identity!Loaded(disk')[f] = meant[f]
            BY <1>2, <2>3, <3>7, <5>1, LoadedAsMeant
          <5>3. Identity!Loaded(disk)' = Identity!Loaded(disk')
            BY <1>1 DEF Identity!Loaded, Identity!Holds
          <5>4. DiskAs(f)'
            BY <1>1, <5>2, <5>3 DEF DiskAs
          <5>5. QED BY <3>5, <5>4
        <4>3. QED BY <4>1, <4>2
      <3>8. QED BY <3>6, <3>7
    <2>8. PairAs'
      <3>1. CASE o.what \notin {"cert", "key"}
        <4>1. \A f \in {"cert", "key"}, d \in Does : Has(t, d, f) <=> Has(todo[g], d, f)
          BY <2>3, <3>1
        <4>2. disk'.cert = disk.cert /\ disk'.key = disk.key
          BY <1>2, <2>3, <2>4, <3>1 DEF IdentityShape
        <4>3. "pair" \in spoiled => "pair" \in spoiled'
          BY <2>3, <2>4, <3>1 DEF Paths
        <4>4. g = "reset" => t # <<>>
          BY <2>2, <2>4, Zenon DEF FirstOp
        <4>5. QED BY <1>1, <1>2, <2>1, <2>3, <4>1, <4>2, <4>3, <4>4, PairKept
      <3>2. PICK n \in 1..2 :
              /\ \A i \in 1..Len(todo.main) :
                    todo.main[i].do = "put" /\ todo.main[i].what \in {"cert", "key"} => todo.main[i].val = n
              /\ Has(todo.main, "put", "key") /\ ~Has(todo.main, "put", "cert") => disk.cert = n
        BY <2>1 DEF PairAs
      <3>3. CASE o.what \in {"cert", "key"} /\ g = "reset"
        <4>1. ResetOp(o) /\ t # <<>>
          <5>1. o.do # "reboot"
            BY <2>4
          <5>2. QED BY <2>2, <3>3, <5>1, Zenon DEF FirstOp
        <4>2. o.do = "remove"
          BY <3>3, <4>1 DEF ResetOp
        <4>3. o.val = None
          BY <2>3, <4>2 DEF AsMeant
        <4>4. disk'[o.what] = None
          BY <1>2, <2>3, <2>4, <4>2, <4>3 DEF IdentityShape
        <4>5. ~Torn'
          BY <3>3, <4>4 DEF Torn
        <4>6. todo'.main = <<>> /\ todo'.reset = t
          BY <2>6, <3>3 DEF Tasks
        <4>7. \A i \in 1..Len(<<>>) : FALSE
          OBVIOUS
        <4>8. QED BY <3>2, <4>1, <4>5, <4>6, <4>7, EmptyProgram DEF PairAs
      <3>4. CASE o.what \in {"cert", "key"} /\ g = "main"
        <4>1. /\ o.do \in {"open", "put"}
              /\ \A f : On(todo[g], f) <=> o.what = f \/ On(t, f)
              /\ o.do = "open" => Has(t, "put", o.what)
              /\ o.do = "put" /\ o.what = "key" => ~On(t, "cert") /\ ~On(t, "key")
              /\ o.do = "put" /\ o.what = "cert" => ~On(t, "cert") /\ Has(t, "open", "key")
              /\ \E i \in 1..Len(todo[g]) : o = todo[g][i]
          <5>1. MainOp(o)
            BY <2>2, <3>4, Zenon DEF FirstOp
          <5>2. o.do \in {"open", "put"}
            BY <2>4, <5>1 DEF MainOp
          <5>3. QED BY <2>2, <5>2, Zenon DEF FirstOp
        <4>2. todo'.main = t /\ todo.main = todo[g]
          BY <2>6, <3>4
        <4>3. o.do = "put" => o.val = n
          BY <3>2, <3>4, <4>1, <4>2
        <4>4. \A i \in 1..Len(t) : t[i].do = "put" /\ t[i].what \in {"cert", "key"} => t[i].val = n
          <5>1. \A i \in 1..Len(t) : \E j \in 1..Len(todo[g]) : t[i] = todo[g][j]
            BY <2>3 DEF PartOf
          <5>2. \A j \in 1..Len(todo[g]) :
                  todo[g][j].do = "put" /\ todo[g][j].what \in {"cert", "key"} => todo[g][j].val = n
            BY <3>2, <4>2
          <5>3. QED BY <5>1, <5>2
        <4>5. disk'[o.what] = val /\ (o.what = "key" => disk'.cert = disk.cert) /\ disk'["cert"] = disk'.cert
              /\ disk'["key"] = disk'.key
          BY <1>2, <2>3, <2>4 DEF IdentityShape, Paths
        <4>6. Has(todo[g], "put", "key")
          BY <2>1, <3>4, <4>1, <4>2 DEF PairAs
        <4>7. Has(t, "put", "key") /\ ~Has(t, "put", "cert") => disk'.cert = n
          <5>1. CASE o.do = "open" /\ o.what = "cert"
            BY <4>1, <5>1
          <5>2. CASE o.do = "open" /\ o.what = "key"
            BY <2>3, <3>2, <4>2, <4>5, <5>2
          <5>3. CASE o.do = "put" /\ o.what = "cert"
            BY <2>4, <4>3, <4>5, <5>3
          <5>4. CASE o.do = "put" /\ o.what = "key"
            BY <4>1, <5>4, OnHas
          <5>5. QED BY <3>4, <4>1, <5>1, <5>2, <5>3, <5>4
        <4>8. On(t, "cert") \/ On(t, "key") => Has(t, "put", "key")
          BY <2>3, <4>1, <4>6
        <4>9. ~On(t, "key") => ~Torn' /\ Whole'
          <5> SUFFICES ASSUME ~On(t, "key") PROVE ~Torn' /\ Whole'
            OBVIOUS
          <5>1. ~Has(t, "put", "key") /\ ~Has(t, "open", "key")
            BY OnHas
          <5>2. o.do = "put" /\ o.what = "key"
            BY <2>3, <4>1, <4>6, <5>1
          <5>3. ~Has(todo[g], "put", "cert")
            BY <2>3, <4>1, <5>2, OnHas
          <5>4. disk'.cert = n /\ disk'.key = n
            BY <2>4, <3>2, <4>2, <4>3, <4>5, <4>6, <5>2, <5>3
          <5>5. n \notin {None, Empty}
            BY IdentityAssumption
          <5>6. Whole'
            BY <5>4, <5>5 DEF Whole
          <5>7. QED BY <5>6 DEF Torn
        <4>10. QED BY <4>2, <4>4, <4>7, <4>8, <4>9 DEF PairAs
      <3>5. QED BY <3>1, <3>3, <3>4 DEF Tasks
    <2>9. QED BY <2>5, <2>7, <2>8
  <1>6. QED BY <1>4, <1>5 DEF IdentityInv

\* The process stops: what was left to do may be in doubt.
LEMMA StopKeeps ==
  ASSUME IdentityInv, up, Identity!Stop, UNCHANGED <<mem, disk, cfgHost, meant>>
  PROVE  IdentityInv'
  <1> DEFINE torn == IF Identity!PairTorn THEN {"pair"} ELSE {}
             down == FALSE
  <1>1. /\ up' = down
        /\ todo' = [g \in Tasks |-> <<>>]
        /\ spoiled' = spoiled \cup Identity!Unsettled \cup torn
    BY DEF Identity!Stop, Identity!Goroutines, Tasks
  <1>2. down \in BOOLEAN /\ ~down
    OBVIOUS
  <1> HIDE DEF torn, down
  <1>3. IdentityShape
    BY DEF IdentityInv
  <1>4. todo'.main = <<>> /\ todo'.reset = <<>> /\ \A g \in Tasks : todo'[g] = <<>>
    BY <1>1 DEF Tasks
  <1>5. todo' = [g \in Tasks |-> todo'[g]] /\ \A g \in Tasks : todo'[g] \in Seq(Ops)
    BY <1>1, <1>4
  <1>6. IdentityShape'
    BY <1>1, <1>2, <1>3, <1>4, <1>5 DEF IdentityShape
  <1>7. ASSUME "overlap" \notin spoiled'
        PROVE  Programs' /\ PairAs' /\ \A f \in Fields : MemoryAs(f)' /\ DiskAs(f)'
    <2>1. Programs /\ PairAs /\ \A f \in Fields : DiskAs(f)
      BY <1>1, <1>7 DEF IdentityInv
    <2>2. \A i \in 1..Len(<<>>) : FALSE
      OBVIOUS
    <2>3. Programs'
      BY <1>4, <2>2, EmptyProgram DEF Programs
    <2>4. \A f : ~FileLeft(f)'
      <3>1. \A g \in Tasks : \A d, f : ~Has(todo'[g], d, f)
        BY <1>4, EmptyProgram
      <3>2. QED BY <3>1 DEF FileLeft, Left
    <2>5. ASSUME NEW f \in Fields
          PROVE  MemoryAs(f)' /\ DiskAs(f)'
      <3>1. MemoryAs(f)'
        BY <1>1, <1>2 DEF MemoryAs
      <3>2. f \notin spoiled' => ~FileLeft(f)
        <4> SUFFICES ASSUME NEW g \in Tasks, NEW d, Has(todo[g], d, f)
                     PROVE  f \in Identity!Unsettled
          BY <1>1 DEF FileLeft, Left
        <4>1. PICK i \in 1..Len(todo[g]) : todo[g][i].what = f
          BY DEF Has
        <4>2. DOMAIN todo[g] = 1..Len(todo[g])
          BY <1>3 DEF IdentityShape
        <4>3. \E h \in Identity!Goroutines : \E j \in DOMAIN todo[h] : todo[h][j].what = f
          BY <4>1, <4>2 DEF Tasks, Identity!Goroutines
        <4>4. QED BY <4>3 DEF Identity!Unsettled, Fields
      <3>3. Identity!Loaded(disk)' = Identity!Loaded(disk)
        BY DEF Identity!Loaded, Identity!Holds
      <3>4. DiskAs(f)'
        BY <1>1, <2>1, <3>2, <3>3 DEF DiskAs
      <3>5. QED BY <3>1, <3>4
    <2>6. PairAs'
      <3>1. (Torn' <=> Torn)
        BY DEF Torn, Whole
      <3>2. "pair" \notin spoiled' => ~Torn
        <4> SUFFICES ASSUME "pair" \notin spoiled' PROVE ~Torn
          OBVIOUS
        <4>1. "pair" \notin spoiled /\ ~Identity!PairTorn
          BY <1>1 DEF torn
        <4>2. CASE On(todo.main, "key")
          <5>1. PICK i \in 1..Len(todo.main) : todo.main[i].what = "key"
            BY <4>2 DEF On
          <5>2. DOMAIN todo.main = 1..Len(todo.main)
            BY <1>3 DEF IdentityShape, Tasks
          <5>3. disk.key = None
            BY <4>1, <5>1, <5>2 DEF Identity!PairTorn
          <5>4. QED BY <5>3 DEF Torn
        <4>3. CASE ~On(todo.main, "key")
          BY <2>1, <4>1, <4>3 DEF PairAs
        <4>4. QED BY <4>2, <4>3
      <3>3. 1 \in 1..2
        OBVIOUS
      <3>4. QED BY <1>1, <1>2, <1>4, <2>2, <3>1, <3>2, <3>3, EmptyProgram DEF PairAs
    <2>7. QED BY <2>3, <2>5, <2>6
  <1>8. QED BY <1>6, <1>7 DEF IdentityInv

\* A write of the file f0 is given up.
LEMMA GivenUp ==
  ASSUME IdentityInv, NEW g \in Tasks, todo[g] # <<>>, NEW f0, f0 \notin {"cert", "key"},
         NEW k, PartOf(k, todo[g]), todo' = [todo EXCEPT ![g] = k],
         \A d, f : Has(k, d, f) => Has(todo[g], d, f),
         \A d, f : f # f0 \/ d \notin {"open", "put"} => (Has(k, d, f) <=> Has(todo[g], d, f)),
         g = "reset" => k # <<>>, spoiled' = spoiled \cup {f0}, "overlap" \notin spoiled',
         UNCHANGED <<up, mem, disk, cfgHost, meant>>
  PROVE  Programs' /\ PairAs' /\ \A f \in Fields : MemoryAs(f)' /\ DiskAs(f)'
  <1>1. IdentityShape /\ Programs /\ PairAs /\ \A f \in Fields : MemoryAs(f) /\ DiskAs(f)
    BY DEF IdentityInv
  <1>2. Programs'
    BY <1>1, ProgramsKept
  <1>3. PairAs'
    <2>1. \A f \in {"cert", "key"}, d \in Does : Has(k, d, f) <=> Has(todo[g], d, f)
      OBVIOUS
    <2>2. disk'.cert = disk.cert /\ disk'.key = disk.key
      OBVIOUS
    <2>3. QED BY <1>1, <2>1, <2>2, PairKept
  <1>4. /\ \A d, f : Left(d, f) <=> Has(todo[g], d, f)
        /\ \A d, f : Left(d, f)' <=> Has(k, d, f)
    <2>1. \A h \in Tasks \ {g} : todo[h] = <<>>
      BY <1>1, OneActive
    <2>2. QED BY <1>1, <2>1, LeftStep
  <1>5. ASSUME NEW f \in Fields
        PROVE  MemoryAs(f)' /\ DiskAs(f)'
    <2>1. Left("mem", f)' <=> Left("mem", f)
      BY <1>4
    <2>2. Left("put", f)' => Left("put", f)
      BY <1>4
    <2>3. Counts(f)' <=> Counts(f)
      BY DEF Counts
    <2>4. MemoryAs(f)'
      BY <1>1, <2>1, <2>2, <2>3 DEF MemoryAs
    <2>5. f # f0 => (FileLeft(f)' <=> FileLeft(f))
      BY <1>4 DEF FileLeft
    <2>6. Identity!Loaded(disk)' = Identity!Loaded(disk)
      BY DEF Identity!Loaded, Identity!Holds
    <2>7. DiskAs(f)'
      BY <1>1, <2>5, <2>6 DEF DiskAs
    <2>8. QED BY <2>4, <2>7
  <1>6. QED BY <1>2, <1>3, <1>5

\* What is left of a program whose file could not be emptied, or not be filled.
LEMMA WriteDropped ==
  ASSUME IdentityShape, Programs, NEW g \in Tasks, todo[g] # <<>>, NEW o, NEW t, FirstOp(g, o, t),
         NEW k, \/ o.do = "put" /\ k = SubSeq(todo[g], 2, Len(todo[g]))
                \/ o.do = "open" /\ k = SubSeq(todo[g], 3, Len(todo[g]))
  PROVE  /\ k \in Seq(Ops) /\ PartOf(k, todo[g]) /\ (g = "reset" => k # <<>>)
         /\ \A d, f : Has(k, d, f) => Has(todo[g], d, f)
         /\ \A d, f : f # o.what \/ d \notin {"open", "put"} => (Has(k, d, f) <=> Has(todo[g], d, f))
  <1> DEFINE l == todo[g]
             n == Len(l)
  <1>1. /\ l \in Seq(Ops) /\ n \in Nat /\ n >= 1 /\ l # <<>>
    BY DEF IdentityShape
  <1>2. t = Tail(l) /\ PartOf(t, l)
    BY Zenon DEF FirstOp
  <1>3. /\ \A d, f : Has(l, d, f) <=> (o.do = d /\ o.what = f) \/ Has(t, d, f)
        /\ o.do = "open" => t # <<>> /\ t[1].do = "put" /\ t[1].what = o.what
    BY Zenon DEF FirstOp
  <1>4. Tail(l) = SubSeq(l, 2, n) /\ Tail(l) \in Seq(Ops) /\ Len(Tail(l)) = n - 1
        /\ \A i \in 1..Len(Tail(l)) : Tail(l)[i] = l[i + 1]
    BY <1>1, TailIsSubSeq, HeadTailProperties
  <1>5. (g = "reset" /\ o.do # "reboot") => t # <<>>
    BY Zenon DEF FirstOp
  <1>6. CASE o.do = "put"
    <2>1. k = t
      BY <1>2, <1>4, <1>6
    <2>2. k \in Seq(Ops)
      BY <1>2, <1>4, <2>1
    <2> HIDE DEF l, n
    <2>3. QED BY <1>2, <1>3, <1>5, <1>6, <2>1, <2>2 DEF l
  <1>7. CASE o.do = "open"
    <2>1. k = SubSeq(l, 3, n)
      BY <1>7
    <2>2. \A i \in 3..n : l[i] \in Ops
      BY <1>1
    <2>3. /\ k \in Seq(Ops)
          /\ Len(k) = IF 3 <= n THEN (n - 3) + 1 ELSE 0
          /\ \A i \in 1..((n - 3) + 1) : k[i] = l[(3 + i) - 1]
      <3> HIDE DEF l, n
      <3>1. n \in Int
        BY <1>1
      <3>2. QED BY <2>1, <2>2, <3>1, SubSeqProperties
    <2>4. t \in Seq(Ops) /\ Len(t) = n - 1 /\ \A i \in 1..Len(t) : t[i] = l[i + 1]
      <3> HIDE DEF l, n
      <3>1. QED BY <1>2, <1>4
    <2> HIDE DEF l, n
    <2>5. t # <<>> /\ t[1].do = "put" /\ t[1].what = o.what
      BY <1>3, <1>7
    <2>6. Len(t) \in Nat /\ Len(t) # 0
      BY <2>4, <2>5
    <2>7. Len(t) = Len(k) + 1
      <3> DEFINE a == Len(t)
                 b == Len(k)
      <3>1. a \in Nat /\ a # 0 /\ a = n - 1 /\ n \in Nat /\ b = IF 3 <= n THEN (n - 3) + 1 ELSE 0
        BY <1>1, <2>3, <2>4, <2>6
      <3> HIDE DEF a, b
      <3>2. a = b + 1
        BY <3>1
      <3>3. QED BY <3>2 DEF a, b
    <2>8. \A i \in 1..Len(k) : k[i] = t[i + 1]
      <3> DEFINE a == Len(t)
                 b == Len(k)
      <3>1. /\ a = b + 1 /\ a = n - 1 /\ n \in Nat /\ b \in Nat
            /\ \A i \in 1..a : t[i] = l[i + 1]
            /\ \A i \in 1..((n - 3) + 1) : k[i] = l[(3 + i) - 1]
        <4>1. k \in Seq(Ops)
          BY <2>3
        <4>2. b \in Nat
          BY <4>1
        <4> HIDE DEF a, b
        <4>3. a = b + 1 /\ a = n - 1 /\ \A i \in 1..a : t[i] = l[i + 1]
          BY <2>4, <2>7 DEF a, b
        <4>4. QED BY <1>1, <2>3, <4>2, <4>3
      <3> HIDE DEF a, b
      <3>2. ASSUME NEW i \in 1..b PROVE k[i] = t[i + 1]
        <4>1. i \in 1..((n - 3) + 1) /\ i + 1 \in 1..a /\ (3 + i) - 1 = (i + 1) + 1
          BY <3>1
        <4>2. QED BY <3>1, <4>1
      <3>3. QED BY <3>2 DEF b
    <2>9. Program(t)
      BY <1>2 DEF PartOf
    <2>10. /\ Program(k)
           /\ \A i \in 1..Len(k) : i + 1 \in 1..Len(t) /\ k[i] = t[i + 1]
           /\ \A d, f : Has(t, d, f) <=> (t[1].do = d /\ t[1].what = f) \/ Has(k, d, f)
      <3> DEFINE p == t[1]
      <3>1. p = t[1] /\ k \in Seq(Ops)
        BY <2>3
      <3> HIDE DEF p
      <3>2. /\ Program(k)
            /\ \A i \in 1..Len(k) : i + 1 \in 1..Len(t) /\ k[i] = t[i + 1]
            /\ \A d, f : Has(t, d, f) <=> (p.do = d /\ p.what = f) \/ Has(k, d, f)
        BY <2>7, <2>8, <2>9, <3>1, ProgramRest
      <3>3. QED BY <3>2 DEF p
    <2>11. PartOf(k, t)
      BY <2>5, <2>7, <2>9, <2>10, TailPart
    <2>12. PartOf(k, l)
      BY <1>2, <2>5, <2>11, PartTwice
    <2>13. g = "reset" => k # <<>>
      <3> SUFFICES ASSUME g = "reset", k = <<>> PROVE FALSE
        OBVIOUS
      <3>1. t[Len(t)] = l[Len(l)]
        BY <1>2, <2>5 DEF PartOf
      <3>2. l[Len(l)].do = "reboot"
        BY <1>1, OneActive DEF l
      <3>3. Len(t) = 1
        BY <2>7
      <3>4. QED BY <2>5, <3>1, <3>2, <3>3
    <2>14. \A d, f : Has(l, d, f) <=> (d \in {"open", "put"} /\ f = o.what) \/ Has(k, d, f)
      BY <1>3, <1>7, <2>5, <2>10
    <2>15. QED BY <2>3, <2>12, <2>13, <2>14 DEF l
  <1>8. QED BY <1>6, <1>7

\* deleteIdentity is given up: only the reboot is left.
LEMMA DeleteGivenUp ==
  ASSUME IdentityInv, NEW g \in Tasks, todo[g] # <<>>, NEW o, NEW t, FirstOp(g, o, t), o.do = "remove",
         NEW k, k = <<todo[g][Len(todo[g])]>>, todo' = [todo EXCEPT ![g] = k],
         spoiled' = spoiled \cup {"adopted", "uuid"}, "overlap" \notin spoiled',
         UNCHANGED <<up, mem, disk, cfgHost, meant>>
  PROVE  Programs' /\ PairAs' /\ \A f \in Fields : MemoryAs(f)' /\ DiskAs(f)'
  <1> DEFINE l == todo[g]
             z == l[Len(l)]
  <1>1. IdentityShape /\ Programs /\ PairAs /\ \A f \in Fields : MemoryAs(f) /\ DiskAs(f)
    BY DEF IdentityInv
  <1>2. g = "reset"
    <2>1. g = "main" => MainOp(o)
      BY Zenon DEF FirstOp
    <2>2. QED BY <2>1 DEF MainOp, Tasks
  <1>3. /\ Program(l) /\ z.do = "reboot" /\ \A i \in 1..Len(l) : ResetOp(l[i])
    BY <1>1, <1>2, OneActive
  <1>4. z \in Ops /\ Len(l) \in 1..Len(l)
    BY <1>1 DEF IdentityShape
  <1> HIDE DEF z
  <1>5. k = <<z>>
    BY DEF z
  <1>6. k \in Seq(Ops) /\ Len(k) = 1 /\ k[1] = z /\ k # <<>>
    BY <1>4, <1>5
  <1>7. Program(k)
    <2>1. \A i \in 1..Len(k) : k[i].do = "reboot"
      BY <1>3, <1>6
    <2>2. QED BY <1>6, <2>1 DEF Program
  <1>8. PartOf(k, l)
    BY <1>4, <1>6, <1>7 DEF PartOf, z
  <1>9. \A d, f : Has(k, d, f) => d = "reboot"
    BY <1>3, <1>6 DEF Has
  <1>10. \A d : ~Has(l, d, "host")
    BY <1>3 DEF Has, ResetOp
  <1>11. /\ \A d, f : Left(d, f) <=> Has(l, d, f)
         /\ \A d, f : Left(d, f)' <=> Has(k, d, f)
         /\ todo'[g] = k /\ \A h \in Tasks \ {g} : todo[h] = <<>> /\ todo'[h] = <<>>
    <2>1. \A h \in Tasks \ {g} : todo[h] = <<>>
      BY <1>1, OneActive
    <2>2. QED BY <1>1, <2>1, LeftStep
  <1>12. Programs'
    BY <1>1, <1>8, ProgramsKept
  <1>13. PairAs'
    <2>1. todo.main = <<>> /\ todo'.main = <<>> /\ todo'.reset # <<>>
      BY <1>2, <1>6, <1>11 DEF Tasks
    <2>2. Torn' <=> Torn
      BY DEF Torn, Whole
    <2>3. "pair" \notin spoiled' => "pair" \notin spoiled
      OBVIOUS
    <2>4. \A i \in 1..Len(<<>>) : FALSE
      OBVIOUS
    <2>5. QED BY <1>1, <2>1, <2>2, <2>3, <2>4, EmptyProgram DEF PairAs
  <1>14. ASSUME NEW f \in Fields
         PROVE  MemoryAs(f)' /\ DiskAs(f)'
    <2>1. CASE f # "host"
      <3>1. f \in spoiled'
        BY <2>1 DEF Fields
      <3>2. ~Left("put", f)'
        BY <1>9, <1>11
      <3>3. QED BY <3>1, <3>2 DEF MemoryAs, DiskAs
    <2>2. CASE f = "host"
      <3>1. \A d : ~Left(d, f)
        BY <1>10, <1>11, <2>2
      <3>2. ~Left("put", f)' /\ ~FileLeft(f)
        BY <1>9, <1>11, <3>1 DEF FileLeft
      <3>3. f \notin spoiled' => f \notin spoiled
        OBVIOUS
      <3>4. Counts(f)' <=> Counts(f)
        BY DEF Counts
      <3>5. Identity!Loaded(disk)' = Identity!Loaded(disk)
        BY DEF Identity!Loaded, Identity!Holds
      <3>6. MemoryAs(f)'
        BY <1>1, <3>1, <3>2, <3>3, <3>4 DEF MemoryAs
      <3>7. DiskAs(f)'
        BY <1>1, <3>2, <3>3, <3>5 DEF DiskAs
      <3>8. QED BY <3>6, <3>7
    <2>3. QED BY <2>1, <2>2
  <1>15. QED BY <1>12, <1>13, <1>14

LEMMA OperationFailsKeeps ==
  ASSUME IdentityInv, NEW g \in Tasks, Identity!OperationFails(g)
  PROVE  IdentityInv'
  <1> DEFINE oo == Head(todo[g])
  <1>1. /\ up /\ todo[g] # <<>> /\ oo.do \in {"open", "put", "remove"}
        /\ UNCHANGED <<mem, disk, cfgHost, meant>>
        /\ \/ Identity!Stop
           \/ /\ up' = up /\ oo.do = "remove" /\ spoiled' = spoiled \cup {"adopted", "uuid"}
              /\ todo' = [todo EXCEPT ![g] = <<todo[g][Len(todo[g])]>>]
           \/ /\ up' = up /\ oo.do # "remove" /\ oo.what \notin {"cert", "key"}
              /\ spoiled' = spoiled \cup {oo.what}
              /\ todo' = [todo EXCEPT ![g] = SubSeq(todo[g], IF oo.do = "open" THEN 3 ELSE 2, Len(todo[g]))]
    BY DEF Identity!OperationFails, Identity!Next1, Identity!First, Identity!Last
  <1> HIDE DEF oo
  <1>2. IdentityShape /\ todo[g] \in Seq(Ops)
    BY DEF IdentityInv, IdentityShape
  <1>3. CASE Identity!Stop
    BY <1>1, <1>3, StopKeeps
  <1>4. ASSUME NEW k, up' = up, "overlap" \in spoiled => "overlap" \in spoiled',
               todo' = [todo EXCEPT ![g] = k], k \in Seq(Ops),
               ASSUME "overlap" \notin spoiled'
               PROVE  Programs' /\ PairAs' /\ \A f \in Fields : MemoryAs(f)' /\ DiskAs(f)'
        PROVE  IdentityInv'
    <2>1. todo' = [h \in Tasks |-> todo'[h]] /\ \A h \in Tasks : todo'[h] \in Seq(Ops)
      BY <1>2, <1>4, TodoKept
    <2>2. IdentityShape'
      BY <1>1, <1>2, <1>4, <2>1 DEF IdentityShape
    <2>3. QED BY <1>4, <2>2 DEF IdentityInv
  <1>5. "overlap" \notin spoiled => \E o, t : FirstOp(g, o, t)
    BY <1>1, <1>2, FirstOpOf DEF IdentityInv
  <1>6. \A o, t : FirstOp(g, o, t) => o = oo
    BY Zenon DEF FirstOp, oo
  <1>7. CASE /\ up' = up /\ oo.do = "remove" /\ spoiled' = spoiled \cup {"adopted", "uuid"}
             /\ todo' = [todo EXCEPT ![g] = <<todo[g][Len(todo[g])]>>]
    <2> DEFINE k == <<todo[g][Len(todo[g])]>>
    <2>1. k \in Seq(Ops)
      <3>1. todo[g][Len(todo[g])] \in Ops
        BY <1>1, <1>2
      <3>2. QED BY <3>1
    <2>2. k = <<todo[g][Len(todo[g])]>> /\ todo' = [todo EXCEPT ![g] = k]
      BY <1>7
    <2> HIDE DEF k
    <2>3. ASSUME "overlap" \notin spoiled'
          PROVE  Programs' /\ PairAs' /\ \A f \in Fields : MemoryAs(f)' /\ DiskAs(f)'
      <3>1. PICK o, t : FirstOp(g, o, t)
        BY <1>5, <1>7, <2>3
      <3>2. o.do = "remove"
        BY <1>6, <1>7, <3>1
      <3>3. QED BY <1>1, <1>7, <2>2, <2>3, <3>1, <3>2, DeleteGivenUp
    <2>4. QED BY <1>4, <1>7, <2>1, <2>2, <2>3
  <1>8. CASE /\ up' = up /\ oo.do # "remove" /\ oo.what \notin {"cert", "key"}
             /\ spoiled' = spoiled \cup {oo.what}
             /\ todo' = [todo EXCEPT ![g] = SubSeq(todo[g], IF oo.do = "open" THEN 3 ELSE 2, Len(todo[g]))]
    <2> DEFINE a == IF oo.do = "open" THEN 3 ELSE 2
               k == SubSeq(todo[g], a, Len(todo[g]))
    <2>1. k \in Seq(Ops)
      <3>1. a \in Int /\ a >= 1
        OBVIOUS
      <3> HIDE DEF a
      <3>2. Len(todo[g]) \in Int /\ \A i \in a..Len(todo[g]) : todo[g][i] \in Ops
        BY <1>2, <3>1
      <3>3. QED BY <3>1, <3>2, SubSeqProperties
    <2>2. /\ \/ oo.do = "put" /\ k = SubSeq(todo[g], 2, Len(todo[g]))
             \/ oo.do = "open" /\ k = SubSeq(todo[g], 3, Len(todo[g]))
          /\ todo' = [todo EXCEPT ![g] = k]
      BY <1>1, <1>8
    <2> HIDE DEF k, a
    <2>3. ASSUME "overlap" \notin spoiled'
          PROVE  Programs' /\ PairAs' /\ \A f \in Fields : MemoryAs(f)' /\ DiskAs(f)'
      <3>1. PICK o, t : FirstOp(g, o, t)
        BY <1>5, <1>8, <2>3
      <3>2. o = oo
        BY <1>6, <3>1
      <3>3. Programs
        BY <1>8, <2>3 DEF IdentityInv
      <3>4. /\ PartOf(k, todo[g]) /\ (g = "reset" => k # <<>>)
            /\ \A d, f : Has(k, d, f) => Has(todo[g], d, f)
            /\ \A d, f : f # o.what \/ d \notin {"open", "put"} => (Has(k, d, f) <=> Has(todo[g], d, f))
        BY <1>1, <1>2, <2>2, <3>1, <3>2, <3>3, WriteDropped
      <3>5. o.what \notin {"cert", "key"} /\ spoiled' = spoiled \cup {o.what}
        BY <1>8, <3>2
      <3>6. QED BY <1>1, <1>8, <2>2, <2>3, <3>4, <3>5, GivenUp
    <2>4. QED BY <1>4, <1>8, <2>1, <2>2, <2>3
  <1>9. QED BY <1>1, <1>3, <1>7, <1>8

LEMMA CrashKeeps ==
  ASSUME IdentityInv, Identity!Crash
  PROVE  IdentityInv'
  BY StopKeeps DEF Identity!Crash

LEMMA RebootKeeps ==
  ASSUME IdentityInv, Identity!Reboot
  PROVE  IdentityInv'
  <1> DEFINE oo == Head(todo["reset"])
  <1>1. /\ up /\ todo["reset"] # <<>> /\ oo.do = "reboot" /\ UNCHANGED <<mem, disk, cfgHost, meant>>
        /\ \/ Identity!Stop
           \/ /\ up' = up /\ spoiled' = spoiled \cup {"pair"}
              /\ todo' = [todo EXCEPT !["reset"] = Tail(todo["reset"])]
    BY DEF Identity!Reboot, Identity!Next1, Identity!First, Identity!Pop
  <1> HIDE DEF oo
  <1>2. IdentityShape /\ todo["reset"] \in Seq(Ops) /\ "reset" \in Tasks
    BY DEF IdentityInv, IdentityShape, Tasks
  <1>3. CASE Identity!Stop
    BY <1>1, <1>3, StopKeeps
  <1>4. CASE /\ up' = up /\ spoiled' = spoiled \cup {"pair"}
             /\ todo' = [todo EXCEPT !["reset"] = Tail(todo["reset"])]
    <2> DEFINE k == Tail(todo["reset"])
               g == "reset"
    <2>1. k \in Seq(Ops)
      BY <1>1, <1>2
    <2>2. todo' = [todo EXCEPT ![g] = k] /\ k = Tail(todo[g]) /\ g \in Tasks /\ g = "reset"
      BY <1>2, <1>4
    <2>3. oo = Head(todo[g]) /\ todo[g] # <<>>
      BY <1>1 DEF oo
    <2> HIDE DEF k, g
    <2>4. todo' = [h \in Tasks |-> todo'[h]] /\ \A h \in Tasks : todo'[h] \in Seq(Ops)
      BY <1>2, <2>1, <2>2, TodoKept
    <2>5. IdentityShape'
      BY <1>1, <1>2, <1>4, <2>4 DEF IdentityShape
    <2>6. ASSUME "overlap" \notin spoiled'
          PROVE  Programs' /\ PairAs' /\ \A f \in Fields : MemoryAs(f)' /\ DiskAs(f)'
      <3>1. Programs /\ PairAs /\ \A f \in Fields : MemoryAs(f) /\ DiskAs(f)
        BY <1>4, <2>6 DEF IdentityInv
      <3>2. \E o, t : FirstOp(g, o, t)
        BY <1>2, <2>2, <2>3, <3>1, FirstOpOf
      <3>3. PICK o, t : FirstOp(g, o, t)
        BY <3>2
      <3>4. /\ o = oo /\ t = k /\ PartOf(t, todo[g])
            /\ \A d, f : Has(todo[g], d, f) <=> (o.do = d /\ o.what = f) \/ Has(t, d, f)
        BY <2>2, <2>3, <3>3, Zenon DEF FirstOp
      <3>5. Programs'
        BY <1>1, <1>2, <2>2, <2>3, <3>1, <3>4, ProgramsKept
      <3>6. /\ \A d, f : Left(d, f) <=> Has(todo[g], d, f)
            /\ \A d, f : Left(d, f)' <=> Has(k, d, f)
            /\ todo'[g] = k /\ \A h \in Tasks \ {g} : todo[h] = <<>> /\ todo'[h] = <<>>
        <4>1. \A h \in Tasks \ {g} : todo[h] = <<>>
          BY <1>2, <2>2, <2>3, <3>1, OneActive
        <4>2. QED BY <1>2, <2>2, <4>1, LeftStep
      <3>7. \A d \in {"mem", "open", "put", "remove"}, f \in Fields : Left(d, f)' <=> Left(d, f)
        BY <1>1, <3>4, <3>6
      <3>8. ASSUME NEW f \in Fields PROVE MemoryAs(f)' /\ DiskAs(f)'
        <4>1. (FileLeft(f)' <=> FileLeft(f)) /\ (Left("mem", f)' <=> Left("mem", f))
              /\ (Left("put", f)' <=> Left("put", f))
          BY <3>7 DEF FileLeft
        <4>2. f \notin spoiled' => f \notin spoiled
          BY <1>4
        <4>3. Identity!Loaded(disk)' = Identity!Loaded(disk) /\ (Counts(f)' <=> Counts(f))
          BY <1>1 DEF Identity!Loaded, Identity!Holds, Counts
        <4>4. MemoryAs(f)'
          BY <1>1, <1>4, <3>1, <4>1, <4>2, <4>3 DEF MemoryAs
        <4>5. DiskAs(f)'
          BY <1>1, <3>1, <4>1, <4>2, <4>3 DEF DiskAs
        <4>6. QED BY <4>4, <4>5
      <3>9. PairAs'
        <4>1. todo'.main = <<>>
          BY <2>2, <3>6 DEF Tasks
        <4>2. (\A i \in 1..Len(<<>>) : FALSE) /\ 1 \in 1..2
          OBVIOUS
        <4>3. "pair" \in spoiled'
          BY <1>4
        <4>4. QED BY <4>1, <4>2, <4>3, EmptyProgram DEF PairAs
      <3>10. QED BY <3>5, <3>8, <3>9
    <2>7. QED BY <2>5, <2>6 DEF IdentityInv
  <1>5. QED BY <1>1, <1>3, <1>4

----------------------------------------------------------------------------
(* The programs. *)

LEMMA OpFields ==
  ASSUME NEW d \in Does, NEW w \in Paths \cup {"power"}, NEW v \in Values
  PROVE  \E o \in Ops : o = Identity!Op(d, w, v) /\ o.do = d /\ o.what = w /\ o.val = v
  <1> DEFINE o == Identity!Op(d, w, v)
  <1>1. o = [do |-> d, what |-> w, val |-> v]
    BY DEF Identity!Op
  <1>2. o = Identity!Op(d, w, v)
    OBVIOUS
  <1> HIDE DEF o
  <1>3. o.do = d /\ o.what = w /\ o.val = v
    BY <1>1
  <1>4. o \in Ops
    BY <1>1 DEF Ops
  <1>5. QED BY <1>2, <1>3, <1>4

LEMMA SomeValues ==
  /\ None \in Values /\ Own \in Values /\ 1 \in Values /\ 2 \in Values
  /\ TRUE \in Values /\ FALSE \in Values
  /\ \A c \in Consoles \cup Hosts : c \in Values
  BY DEF Values

\* A program of one operation.
LEMMA SingleProgram ==
  ASSUME NEW o \in Ops, NEW l, l = <<o>>,
         \/ o.do = "remove" /\ o.what \in Paths
         \/ o.do = "reboot"
         \/ o.do = "mem" /\ o.what = "uuid" /\ o.val = None
  PROVE  /\ Program(l) /\ Len(l) = 1 /\ l[1] = o
         /\ \A i \in 1..Len(l) : l[i] = o
         /\ \A d, f : Has(l, d, f) <=> o.do = d /\ o.what = f
         /\ \A f : On(l, f) <=> o.what = f
  <1>1. l \in Seq(Ops) /\ Len(l) = 1 /\ l[1] = o
    OBVIOUS
  <1>2. \A i \in 1..Len(l) : l[i] = o
    BY <1>1
  <1>3. 1 \in 1..Len(l)
    BY <1>1
  <1>4. \A d, f : Has(l, d, f) <=> o.do = d /\ o.what = f
    BY <1>2, <1>3 DEF Has
  <1>5. \A f : On(l, f) <=> o.what = f
    BY <1>2, <1>3 DEF On
  <1>6. o.do = "mem" => o.what \in Fields /\ o.what \in Paths
    BY DEF Fields, Paths
  <1>7. Program(l)
    BY <1>1, <1>2, <1>6 DEF Program
  <1>8. QED BY <1>1, <1>2, <1>4, <1>5, <1>7

Joins(l, a, b) == l = a \o b
Apart(a, b) ==
    \/ ~Has(a, "put", "cert") /\ ~Has(a, "put", "key")
    \/ ~On(b, "cert") /\ ~On(b, "key")

\* Two programs, of which only the first or only the second deals with the pair.
LEMMA JoinedProgram ==
  ASSUME NEW a, NEW b, NEW l, Program(a), Program(b), Joins(l, a, b), Apart(a, b)
  PROVE  /\ Program(l)
         /\ \A i \in 1..Len(l) : \/ \E j \in 1..Len(a) : l[i] = a[j]
                                 \/ \E j \in 1..Len(b) : l[i] = b[j]
         /\ \A d, f : Has(l, d, f) <=> Has(a, d, f) \/ Has(b, d, f)
         /\ \A f : On(l, f) <=> On(a, f) \/ On(b, f)
         /\ b # <<>> => l # <<>> /\ l[Len(l)] = b[Len(b)]
  <1> DEFINE m == Len(a)
             n == Len(b)
             z == Len(l)
  <1>1. a \in Seq(Ops) /\ b \in Seq(Ops) /\ l = a \o b
    BY DEF Program, Joins
  <1>2. /\ l \in Seq(Ops) /\ z = m + n /\ m \in Nat /\ n \in Nat
        /\ \A i \in 1..m : l[i] = a[i]
        /\ \A i \in 1..n : l[i + m] = b[i]
    <2>1. \A i \in 1..(m + n) : l[i] = IF i <= m THEN a[i] ELSE b[i - m]
      BY <1>1
    <2>2. l \in Seq(Ops) /\ z = m + n /\ m \in Nat /\ n \in Nat
      BY <1>1
    <2> HIDE DEF m, n, z
    <2>3. \A i \in 1..m : i \in 1..(m + n) /\ i <= m
      BY <2>2
    <2>4. \A i \in 1..n : i + m \in 1..(m + n) /\ ~(i + m <= m) /\ (i + m) - m = i
      BY <2>2
    <2>5. QED BY <2>1, <2>2, <2>3, <2>4
  <1>3. \A i \in 1..m :
           /\ a[i].do = "open" => i < m /\ a[i + 1].do = "put" /\ a[i + 1].what = a[i].what
           /\ a[i].do = "mem" =>
                /\ a[i].what \in Fields
                /\ \/ a[i].what = "uuid" /\ a[i].val = None
                   \/ i < m /\ a[i + 1].do = "open" /\ a[i + 1].what = a[i].what
           /\ a[i].do # "reboot" => a[i].what \in Paths
           /\ a[i].do = "put" /\ a[i].what = "key" =>
                \A j \in (i + 1)..m : a[j].what \notin {"cert", "key"}
           /\ a[i].do = "put" /\ a[i].what = "cert" =>
                /\ i < m /\ a[i + 1].do = "open" /\ a[i + 1].what = "key"
                /\ \A j \in (i + 1)..m : a[j].what # "cert"
    BY DEF Program
  <1>4. \A i \in 1..n :
           /\ b[i].do = "open" => i < n /\ b[i + 1].do = "put" /\ b[i + 1].what = b[i].what
           /\ b[i].do = "mem" =>
                /\ b[i].what \in Fields
                /\ \/ b[i].what = "uuid" /\ b[i].val = None
                   \/ i < n /\ b[i + 1].do = "open" /\ b[i + 1].what = b[i].what
           /\ b[i].do # "reboot" => b[i].what \in Paths
           /\ b[i].do = "put" /\ b[i].what = "key" =>
                \A j \in (i + 1)..n : b[j].what \notin {"cert", "key"}
           /\ b[i].do = "put" /\ b[i].what = "cert" =>
                /\ i < n /\ b[i + 1].do = "open" /\ b[i + 1].what = "key"
                /\ \A j \in (i + 1)..n : b[j].what # "cert"
    BY DEF Program
  <1>5. /\ \A d, f : Has(a, d, f) <=> \E i \in 1..m : a[i].do = d /\ a[i].what = f
        /\ \A d, f : Has(b, d, f) <=> \E i \in 1..n : b[i].do = d /\ b[i].what = f
        /\ \A d, f : Has(l, d, f) <=> \E i \in 1..z : l[i].do = d /\ l[i].what = f
        /\ \A f : On(a, f) <=> \E i \in 1..m : a[i].what = f
        /\ \A f : On(b, f) <=> \E i \in 1..n : b[i].what = f
        /\ \A f : On(l, f) <=> \E i \in 1..z : l[i].what = f
    BY DEF Has, On
  <1>6. b # <<>> => n # 0
    BY <1>1
  <1>7. z # 0 => l # <<>>
    BY <1>2
  <1> HIDE DEF m, n, z
  <1>8. \A i \in 1..z : i \in 1..m \/ \E p \in 1..n : i = p + m
    <2> TAKE i \in 1..z
    <2>1. ~(i \in 1..m) => i - m \in 1..n /\ i = (i - m) + m
      BY <1>2
    <2>2. QED BY <2>1
  <1>9. (\A i \in 1..m : i \in 1..z) /\ (\A p \in 1..n : p + m \in 1..z)
    BY <1>2
  <1>10. \A i \in 1..z : \/ \E j \in 1..m : l[i] = a[j]
                         \/ \E j \in 1..n : l[i] = b[j]
    BY <1>2, <1>8
  <1>11. /\ \A i \in 1..m : i \in 1..z /\ l[i] = a[i]
         /\ \A p \in 1..n : \E i \in 1..z : l[i] = b[p]
    BY <1>2, <1>9
  <1>12. z = m + n /\ m \in Nat /\ n \in Nat
    BY <1>2
  <1>13. \A d, f : Has(l, d, f) <=> Has(a, d, f) \/ Has(b, d, f)
    <2> SUFFICES ASSUME NEW d, NEW f
                 PROVE  Has(l, d, f) <=> Has(a, d, f) \/ Has(b, d, f)
      OBVIOUS
    <2>1. ASSUME NEW i \in 1..z, l[i].do = d, l[i].what = f
          PROVE  \/ \E j \in 1..m : a[j].do = d /\ a[j].what = f
                 \/ \E j \in 1..n : b[j].do = d /\ b[j].what = f
      BY <1>10, <2>1
    <2>2. ASSUME NEW i \in 1..m, a[i].do = d, a[i].what = f
          PROVE  \E j \in 1..z : l[j].do = d /\ l[j].what = f
      BY <1>11, <2>2
    <2>3. ASSUME NEW i \in 1..n, b[i].do = d, b[i].what = f
          PROVE  \E j \in 1..z : l[j].do = d /\ l[j].what = f
      <3>1. PICK j \in 1..z : l[j] = b[i]
        BY <1>11
      <3>2. QED BY <2>3, <3>1
    <2>4. /\ Has(a, d, f) <=> \E i \in 1..m : a[i].do = d /\ a[i].what = f
          /\ Has(b, d, f) <=> \E i \in 1..n : b[i].do = d /\ b[i].what = f
          /\ Has(l, d, f) <=> \E i \in 1..z : l[i].do = d /\ l[i].what = f
      BY DEF Has, m, n, z
    <2>5. QED BY <2>1, <2>2, <2>3, <2>4, Zenon
  <1>14. \A f : On(l, f) <=> On(a, f) \/ On(b, f)
    <2>1. \A f : /\ On(l, f) <=> \E d : Has(l, d, f)
                 /\ On(a, f) <=> \E d : Has(a, d, f)
                 /\ On(b, f) <=> \E d : Has(b, d, f)
      BY OnHas
    <2>2. QED BY <1>13, <2>1
  <1>15. ASSUME NEW i \in 1..m
         PROVE  /\ l[i].do = "open" => i < z /\ l[i + 1].do = "put" /\ l[i + 1].what = l[i].what
                /\ l[i].do = "mem" =>
                     /\ l[i].what \in Fields
                     /\ \/ l[i].what = "uuid" /\ l[i].val = None
                        \/ i < z /\ l[i + 1].do = "open" /\ l[i + 1].what = l[i].what
                /\ l[i].do # "reboot" => l[i].what \in Paths
                /\ l[i].do = "put" /\ l[i].what = "key" =>
                     \A j \in (i + 1)..z : l[j].what \notin {"cert", "key"}
                /\ l[i].do = "put" /\ l[i].what = "cert" =>
                     /\ i < z /\ l[i + 1].do = "open" /\ l[i + 1].what = "key"
                     /\ \A j \in (i + 1)..z : l[j].what # "cert"
    <2>1. /\ l[i] = a[i] /\ (i < m => i < z /\ l[i + 1] = a[i + 1])
          /\ i \in Nat
      <3>1. i \in Nat /\ (i < m => i + 1 \in 1..m /\ i < z)
        BY <1>12
      <3>2. QED BY <1>11, <3>1
    <2>2. \A j \in (i + 1)..z : j \in (i + 1)..m \/ \E p \in 1..n : j = p + m
      <3> TAKE j \in (i + 1)..z
      <3>1. j \in 1..z /\ (j \in 1..m => j \in (i + 1)..m)
        BY <1>12
      <3>2. QED BY <1>8, <3>1
    <2>3. (\A j \in (i + 1)..m : l[j] = a[j]) /\ (\A p \in 1..n : l[p + m] = b[p])
      <3>1. \A j \in (i + 1)..m : j \in 1..m
        BY <1>12
      <3>2. QED BY <1>2, <1>11, <3>1
    <2>4. a[i].do = "put" /\ a[i].what \in {"cert", "key"} =>
            \A p \in 1..n : b[p].what \notin {"cert", "key"}
      <3>1. CASE ~Has(a, "put", "cert") /\ ~Has(a, "put", "key")
        BY <1>5, <3>1
      <3>2. CASE ~On(b, "cert") /\ ~On(b, "key")
        BY <1>5, <3>2
      <3>3. QED BY <3>1, <3>2 DEF Apart
    <2>5. \A j \in (i + 1)..z : (\E q \in (i + 1)..m : l[j] = a[q]) \/ \E p \in 1..n : l[j] = b[p]
      BY <2>2, <2>3
    <2>6. l[i].do = "put" /\ l[i].what = "key" =>
                \A j \in (i + 1)..z : l[j].what \notin {"cert", "key"}
      BY <1>3, <2>1, <2>4, <2>5
    <2>7. l[i].do = "put" /\ l[i].what = "cert" =>
                /\ i < z /\ l[i + 1].do = "open" /\ l[i + 1].what = "key"
                /\ \A j \in (i + 1)..z : l[j].what # "cert"
      <3> SUFFICES ASSUME a[i].do = "put", a[i].what = "cert"
                   PROVE  /\ i < z /\ l[i + 1].do = "open" /\ l[i + 1].what = "key"
                          /\ \A j \in (i + 1)..z : l[j].what # "cert"
        BY <2>1
      <3>1. /\ i < m /\ a[i + 1].do = "open" /\ a[i + 1].what = "key"
            /\ \A q \in (i + 1)..m : a[q].what # "cert"
        BY <1>3
      <3>2. \A p \in 1..n : b[p].what # "cert"
        BY <2>4
      <3>3. QED BY <2>1, <2>5, <3>1, <3>2
    <2>8. /\ l[i].do = "open" => i < z /\ l[i + 1].do = "put" /\ l[i + 1].what = l[i].what
          /\ l[i].do = "mem" =>
                /\ l[i].what \in Fields
                /\ \/ l[i].what = "uuid" /\ l[i].val = None
                   \/ i < z /\ l[i + 1].do = "open" /\ l[i + 1].what = l[i].what
          /\ l[i].do # "reboot" => l[i].what \in Paths
      BY <1>3, <2>1
    <2>9. QED BY <2>6, <2>7, <2>8
  <1>16. ASSUME NEW p \in 1..n, NEW i, i = p + m
         PROVE  /\ l[i].do = "open" => i < z /\ l[i + 1].do = "put" /\ l[i + 1].what = l[i].what
                /\ l[i].do = "mem" =>
                     /\ l[i].what \in Fields
                     /\ \/ l[i].what = "uuid" /\ l[i].val = None
                        \/ i < z /\ l[i + 1].do = "open" /\ l[i + 1].what = l[i].what
                /\ l[i].do # "reboot" => l[i].what \in Paths
                /\ l[i].do = "put" /\ l[i].what = "key" =>
                     \A j \in (i + 1)..z : l[j].what \notin {"cert", "key"}
                /\ l[i].do = "put" /\ l[i].what = "cert" =>
                     /\ i < z /\ l[i + 1].do = "open" /\ l[i + 1].what = "key"
                     /\ \A j \in (i + 1)..z : l[j].what # "cert"
    <2>1. /\ l[i] = b[p] /\ (p < n => i < z /\ l[i + 1] = b[p + 1])
          /\ i \in Nat
      <3>1. p < n => p + 1 \in 1..n /\ (p + 1) + m = i + 1 /\ i < z
        BY <1>16, <1>12
      <3>2. i \in Nat
        BY <1>16, <1>12
      <3>3. l[i] = b[p] /\ \A q \in 1..n : l[q + m] = b[q]
        BY <1>2, <1>16
      <3>4. QED BY <3>1, <3>2, <3>3
    <2>2. \A j \in (i + 1)..z : \E q \in (p + 1)..n : l[j] = b[q]
      <3> TAKE j \in (i + 1)..z
      <3>1. j - m \in (p + 1)..n /\ j - m \in 1..n /\ j = (j - m) + m
        BY <1>16, <1>12
      <3>2. QED BY <1>2, <3>1
    <2>3. l[i].do = "put" /\ l[i].what = "key" =>
                \A j \in (i + 1)..z : l[j].what \notin {"cert", "key"}
      BY <1>4, <2>1, <2>2
    <2>4. l[i].do = "put" /\ l[i].what = "cert" =>
                /\ i < z /\ l[i + 1].do = "open" /\ l[i + 1].what = "key"
                /\ \A j \in (i + 1)..z : l[j].what # "cert"
      <3> SUFFICES ASSUME b[p].do = "put", b[p].what = "cert"
                   PROVE  /\ i < z /\ l[i + 1].do = "open" /\ l[i + 1].what = "key"
                          /\ \A j \in (i + 1)..z : l[j].what # "cert"
        BY <2>1
      <3>1. /\ p < n /\ b[p + 1].do = "open" /\ b[p + 1].what = "key"
            /\ \A q \in (p + 1)..n : b[q].what # "cert"
        BY <1>4
      <3>2. QED BY <2>1, <2>2, <3>1
    <2>5. /\ l[i].do = "open" => i < z /\ l[i + 1].do = "put" /\ l[i + 1].what = l[i].what
          /\ l[i].do = "mem" =>
                /\ l[i].what \in Fields
                /\ \/ l[i].what = "uuid" /\ l[i].val = None
                   \/ i < z /\ l[i + 1].do = "open" /\ l[i + 1].what = l[i].what
          /\ l[i].do # "reboot" => l[i].what \in Paths
      BY <1>4, <2>1
    <2>6. QED BY <2>3, <2>4, <2>5
  <1>17. Program(l)
    <2>1. \A i \in 1..z :
           /\ l[i].do = "open" => i < z /\ l[i + 1].do = "put" /\ l[i + 1].what = l[i].what
           /\ l[i].do = "mem" =>
                /\ l[i].what \in Fields
                /\ \/ l[i].what = "uuid" /\ l[i].val = None
                   \/ i < z /\ l[i + 1].do = "open" /\ l[i + 1].what = l[i].what
           /\ l[i].do # "reboot" => l[i].what \in Paths
           /\ l[i].do = "put" /\ l[i].what = "key" =>
                \A j \in (i + 1)..z : l[j].what \notin {"cert", "key"}
           /\ l[i].do = "put" /\ l[i].what = "cert" =>
                /\ i < z /\ l[i + 1].do = "open" /\ l[i + 1].what = "key"
                /\ \A j \in (i + 1)..z : l[j].what # "cert"
      <3> TAKE i \in 1..z
      <3>1. CASE i \in 1..m
        BY <1>15, <3>1
      <3>2. CASE \E p \in 1..n : i = p + m
        BY <1>16, <3>2, Zenon
      <3>3. QED BY <1>8, <3>1, <3>2
    <2>2. QED BY <1>2, <2>1 DEF Program, z
  <1>18. b # <<>> => l # <<>> /\ l[z] = b[n]
    <2>1. n # 0 => n \in 1..n /\ n + m = z /\ z # 0
      BY <1>2
    <2>2. QED BY <1>2, <1>6, <1>7, <2>1
  <1>19. QED
    <2>1. QED BY <1>10, <1>13, <1>14, <1>17, <1>18 DEF m, n, z

\* A file is written; a variable and its file.
LEMMA WriteProgram ==
  ASSUME NEW f \in {"device", "uuid", "adopted", "host"}, NEW v \in Values,
         NEW l, l = Identity!WriteFile(f, v)
  PROVE  /\ Program(l)
         /\ \A i \in 1..Len(l) : /\ l[i].what = f /\ l[i].do \in {"open", "put"}
                                 /\ l[i].do = "put" => l[i].val = v
         /\ Has(l, "open", f) /\ Has(l, "put", f)
  <1>1. f \in Paths /\ f \in Paths \cup {"power"} /\ f \notin {"cert", "key"}
        /\ "open" \in Does /\ "put" \in Does
    BY DEF Paths, Does
  <1>2. PICK b \in Ops : b = Identity!Op("open", f, None) /\ b.do = "open" /\ b.what = f
    BY <1>1, OpFields, SomeValues
  <1>3. PICK c \in Ops : c = Identity!Op("put", f, v) /\ c.do = "put" /\ c.what = f /\ c.val = v
    BY <1>1, OpFields
  <1>4. l = <<b, c>>
    BY <1>2, <1>3 DEF Identity!WriteFile
  <1>5. l \in Seq(Ops) /\ Len(l) = 2 /\ l[1] = b /\ l[2] = c
    BY <1>4
  <1>6. \A i \in 1..2 : i = 1 \/ i = 2
    OBVIOUS
  <1>7. 1 \in 1..2 /\ 2 \in 1..2 /\ 1 < 2 /\ 1 + 1 = 2
    OBVIOUS
  <1>8. \A i \in 1..Len(l) :
          /\ l[i].do = "open" => i < Len(l) /\ l[i + 1].do = "put" /\ l[i + 1].what = l[i].what
          /\ l[i].what = f /\ l[i].do \in {"open", "put"}
          /\ l[i].do = "put" => l[i].val = v
    <2> SUFFICES ASSUME NEW i \in 1..2
                 PROVE  /\ l[i].do = "open" => i < 2 /\ l[i + 1].do = "put" /\ l[i + 1].what = l[i].what
                        /\ l[i].what = f /\ l[i].do \in {"open", "put"}
                        /\ l[i].do = "put" => l[i].val = v
      BY <1>5
    <2>1. CASE i = 1
      BY <1>2, <1>3, <1>5, <1>7, <2>1
    <2>2. CASE i = 2
      BY <1>3, <1>5, <2>2
    <2>3. QED BY <1>6, <2>1, <2>2
  <1>9. Program(l)
    BY <1>1, <1>5, <1>8 DEF Program
  <1>10. Has(l, "open", f) /\ Has(l, "put", f)
    BY <1>2, <1>3, <1>5, <1>7 DEF Has
  <1>11. QED BY <1>8, <1>9, <1>10

SetOps(f, v) == Identity!Mem(f, v) \o Identity!WriteFile(f, v)
SetsTo(l, f, v) ==
    /\ \A i \in 1..Len(l) : /\ l[i].what = f /\ l[i].do \in {"mem", "open", "put"}
                            /\ l[i].do # "open" => l[i].val = v
    /\ \A d \in {"mem", "open", "put"} : Has(l, d, f)

LEMMA SetProgram ==
  ASSUME NEW f \in Fields, NEW v \in Values
  PROVE  LET l == SetOps(f, v)
         IN  Program(l) /\ l # <<>> /\ SetsTo(l, f, v)
  <1> DEFINE l == SetOps(f, v)
  <1>1. f \in Paths /\ f \in Paths \cup {"power"} /\ f \notin {"cert", "key", "power"}
        /\ "mem" \in Does /\ "open" \in Does /\ "put" \in Does
    BY DEF Fields, Paths, Does
  <1>2. PICK a \in Ops : a = Identity!Op("mem", f, v) /\ a.do = "mem" /\ a.what = f /\ a.val = v
    BY <1>1, OpFields
  <1>3. PICK b \in Ops : b = Identity!Op("open", f, None) /\ b.do = "open" /\ b.what = f
    BY <1>1, OpFields, SomeValues
  <1>4. PICK c \in Ops : c = Identity!Op("put", f, v) /\ c.do = "put" /\ c.what = f /\ c.val = v
    BY <1>1, OpFields
  <1>5. l = <<a>> \o <<b, c>>
    BY <1>2, <1>3, <1>4 DEF Identity!Mem, Identity!WriteFile, SetOps
  <1> HIDE DEF l
  <1>6. l \in Seq(Ops) /\ Len(l) = 3 /\ l[1] = a /\ l[2] = b /\ l[3] = c
    BY <1>5
  <1>7. \A i \in 1..Len(l) : i = 1 \/ i = 2 \/ i = 3
    BY <1>6
  <1>8. \A i \in 1..Len(l) :
          /\ l[i].do = "open" => i < Len(l) /\ l[i + 1].do = "put" /\ l[i + 1].what = l[i].what
          /\ l[i].do = "mem" => /\ l[i].what \in Fields
                                /\ i < Len(l) /\ l[i + 1].do = "open" /\ l[i + 1].what = l[i].what
          /\ l[i].what = f /\ l[i].do \in {"mem", "open", "put"}
          /\ l[i].do # "open" => l[i].val = v
    <2> SUFFICES ASSUME NEW i \in 1..Len(l)
                 PROVE  /\ l[i].do = "open" => i < Len(l) /\ l[i + 1].do = "put" /\ l[i + 1].what = l[i].what
                        /\ l[i].do = "mem" =>
                             /\ l[i].what \in Fields
                             /\ i < Len(l) /\ l[i + 1].do = "open" /\ l[i + 1].what = l[i].what
                        /\ l[i].what = f /\ l[i].do \in {"mem", "open", "put"}
                        /\ l[i].do # "open" => l[i].val = v
      OBVIOUS
    <2>1. CASE i = 1
      BY <1>2, <1>3, <1>6, <2>1
    <2>2. CASE i = 2
      BY <1>3, <1>4, <1>6, <2>2
    <2>3. CASE i = 3
      BY <1>4, <1>6, <2>3
    <2>4. QED BY <1>7, <2>1, <2>2, <2>3
  <1>9. Program(l)
    BY <1>1, <1>6, <1>8 DEF Program
  <1>10. 1 \in 1..Len(l) /\ 2 \in 1..Len(l) /\ 3 \in 1..Len(l)
    BY <1>6
  <1>11. \A d \in {"mem", "open", "put"} : Has(l, d, f)
    BY <1>2, <1>3, <1>4, <1>6, <1>10 DEF Has
  <1>12. l # <<>> /\ SetsTo(l, f, v)
    BY <1>6, <1>8, <1>11 DEF SetsTo
  <1>13. QED BY <1>9, <1>12 DEF l

\* Two of them: the host, then the id.
LEMMA PushProgram ==
  ASSUME NEW h \in Values, NEW c \in Values,
         NEW l, Joins(l, SetOps("host", h), SetOps("uuid", c))
  PROVE  /\ Program(l) /\ l # <<>>
         /\ \A i \in 1..Len(l) : /\ l[i].do \in {"mem", "open", "put"}
                                 /\ \/ l[i].what = "host" /\ (l[i].do # "open" => l[i].val = h)
                                    \/ l[i].what = "uuid" /\ (l[i].do # "open" => l[i].val = c)
         /\ \A d \in {"mem", "open", "put"} : Has(l, d, "host") /\ Has(l, d, "uuid")
  <1> DEFINE a == SetOps("host", h)
             b == SetOps("uuid", c)
  <1>1. Joins(l, a, b)
    OBVIOUS
  <1>2. "host" \in Fields /\ "uuid" \in Fields
    BY DEF Fields
  <1>3. a = SetOps("host", h) /\ b = SetOps("uuid", c)
    OBVIOUS
  <1> HIDE DEF a, b
  <1>4. Program(a) /\ Program(b) /\ b # <<>> /\ SetsTo(a, "host", h) /\ SetsTo(b, "uuid", c)
    BY <1>2, <1>3, SetProgram
  <1>5. /\ \A i \in 1..Len(a) : /\ a[i].what = "host" /\ a[i].do \in {"mem", "open", "put"}
                                /\ a[i].do # "open" => a[i].val = h
        /\ \A d \in {"mem", "open", "put"} : Has(a, d, "host")
    BY <1>4 DEF SetsTo
  <1>6. /\ \A i \in 1..Len(b) : /\ b[i].what = "uuid" /\ b[i].do \in {"mem", "open", "put"}
                                /\ b[i].do # "open" => b[i].val = c
        /\ \A d \in {"mem", "open", "put"} : Has(b, d, "uuid")
    BY <1>4 DEF SetsTo
  <1>7. Apart(a, b)
    BY <1>6 DEF On, Apart
  <1>8. /\ Program(l)
        /\ \A i \in 1..Len(l) : \/ \E j \in 1..Len(a) : l[i] = a[j]
                                \/ \E j \in 1..Len(b) : l[i] = b[j]
        /\ \A d, f : Has(l, d, f) <=> Has(a, d, f) \/ Has(b, d, f)
        /\ \A f : On(l, f) <=> On(a, f) \/ On(b, f)
        /\ b # <<>> => l # <<>> /\ l[Len(l)] = b[Len(b)]
    <2>1. Program(a) /\ Program(b)
      BY <1>4
    <2>2. QED BY <1>1, <1>7, <2>1, JoinedProgram, Zenon
  <1>9. \A i \in 1..Len(l) : /\ l[i].do \in {"mem", "open", "put"}
                             /\ \/ l[i].what = "host" /\ (l[i].do # "open" => l[i].val = h)
                                \/ l[i].what = "uuid" /\ (l[i].do # "open" => l[i].val = c)
    <2> SUFFICES ASSUME NEW i \in 1..Len(l)
                 PROVE  /\ l[i].do \in {"mem", "open", "put"}
                        /\ \/ l[i].what = "host" /\ (l[i].do # "open" => l[i].val = h)
                           \/ l[i].what = "uuid" /\ (l[i].do # "open" => l[i].val = c)
      OBVIOUS
    <2>1. CASE \E j \in 1..Len(a) : l[i] = a[j]
      BY <1>5, <2>1
    <2>2. CASE \E j \in 1..Len(b) : l[i] = b[j]
      BY <1>6, <2>2
    <2>3. QED BY <1>8, <2>1, <2>2
  <1>10. QED BY <1>5, <1>6, <1>8, <1>9, <1>4

Deletes(l) ==
    /\ Program(l) /\ l # <<>> /\ l[Len(l)].do = "reboot"
    /\ \A i \in 1..Len(l) :
         /\ l[i].do = "remove" => l[i].val = None
         /\ l[i].what \in {"cert", "key", "device"} => l[i].do = "remove"
         /\ l[i].what \in {"cert", "key", "device", "uuid", "adopted", "power"}
         /\ l[i].do = "remove" => l[i].what \in {"cert", "key", "device", "uuid"}
         /\ l[i].do = "mem" => \/ l[i].what = "uuid" /\ l[i].val = None
                               \/ l[i].what = "adopted" /\ l[i].val = FALSE
         /\ l[i].do = "put" => l[i].what = "adopted" /\ l[i].val = FALSE
    /\ Has(l, "remove", "uuid") /\ Has(l, "mem", "adopted") /\ Has(l, "put", "adopted")

\* deleteIdentity and the reboot.
LEMMA DeleteProgram ==
  ASSUME NEW l, l = Identity!DeleteIdentity
  PROVE  Deletes(l)
  <1> DEFINE no == FALSE
             Dropped == {"cert", "key", "device", "uuid"}
             Fits(o) == /\ o.do = "remove" => o.val = None
                        /\ o.what \in {"cert", "key", "device"} => o.do = "remove"
                        /\ o.what \in {"cert", "key", "device", "uuid", "adopted", "power"}
                        /\ o.do = "remove" => o.what \in Dropped
                        /\ o.do = "mem" => \/ o.what = "uuid" /\ o.val = None
                                           \/ o.what = "adopted" /\ o.val = no
                        /\ o.do = "put" => o.what = "adopted" /\ o.val = no
             All(k) == \A i \in 1..Len(k) : Fits(k[i])
             NoPut(k) == ~Has(k, "put", "cert") /\ ~Has(k, "put", "key")
  <1>1. no \in Values
    BY SomeValues
  <1>2. /\ l = Identity!Unlink("cert") \o Identity!Unlink("key") \o Identity!Unlink("device")
                 \o Identity!Unlink("uuid") \o Identity!Mem("uuid", None)
                 \o SetOps("adopted", no) \o <<Identity!Op("reboot", "power", None)>>
    BY DEF Identity!DeleteIdentity, Identity!SetAdopted, SetOps
  <1> HIDE DEF no
  <1>3. ASSUME NEW w \in Dropped, NEW k, k = Identity!Unlink(w)
        PROVE  Program(k) /\ k # <<>> /\ All(k) /\ NoPut(k) /\ Has(k, "remove", w)
    <2>1. w \in Paths /\ w \in Paths \cup {"power"} /\ "remove" \in Does
      BY DEF Paths, Does
    <2>2. PICK o \in Ops : o = Identity!Op("remove", w, None) /\ o.do = "remove" /\ o.what = w /\ o.val = None
      BY <2>1, OpFields, SomeValues
    <2>3. k = <<o>>
      BY <1>3, <2>2 DEF Identity!Unlink
    <2>4. /\ Program(k) /\ Len(k) = 1 /\ \A i \in 1..Len(k) : k[i] = o
          /\ \A d, f : Has(k, d, f) <=> o.do = d /\ o.what = f
      BY <2>1, <2>2, <2>3, SingleProgram
    <2>5. Fits(o)
      BY <2>2
    <2>6. QED BY <2>2, <2>3, <2>4, <2>5
  <1>4. ASSUME NEW k, k = Identity!Mem("uuid", None)
        PROVE  Program(k) /\ k # <<>> /\ All(k) /\ NoPut(k)
    <2>1. "uuid" \in Paths \cup {"power"} /\ "mem" \in Does
      BY DEF Paths, Does
    <2>2. PICK o \in Ops : o = Identity!Op("mem", "uuid", None) /\ o.do = "mem" /\ o.what = "uuid" /\ o.val = None
      BY <2>1, OpFields, SomeValues
    <2>3. k = <<o>>
      BY <1>4, <2>2 DEF Identity!Mem
    <2>4. /\ Program(k) /\ Len(k) = 1 /\ \A i \in 1..Len(k) : k[i] = o
          /\ \A d, f : Has(k, d, f) <=> o.do = d /\ o.what = f
      BY <2>2, <2>3, SingleProgram
    <2>5. Fits(o)
      BY <2>2
    <2>6. QED BY <2>2, <2>3, <2>4, <2>5
  <1>5. ASSUME NEW k, k = <<Identity!Op("reboot", "power", None)>>
        PROVE  Program(k) /\ k # <<>> /\ All(k) /\ NoPut(k) /\ k[Len(k)].do = "reboot"
    <2>1. "power" \in Paths \cup {"power"} /\ "reboot" \in Does
      BY DEF Does
    <2>2. PICK o \in Ops : o = Identity!Op("reboot", "power", None) /\ o.do = "reboot" /\ o.what = "power"
      BY <2>1, OpFields, SomeValues
    <2>3. k = <<o>>
      BY <1>5, <2>2
    <2>4. /\ Program(k) /\ Len(k) = 1 /\ k[1] = o /\ \A i \in 1..Len(k) : k[i] = o
          /\ \A d, f : Has(k, d, f) <=> o.do = d /\ o.what = f
      BY <2>2, <2>3, SingleProgram
    <2>5. Fits(o)
      BY <2>2
    <2>6. QED BY <2>2, <2>3, <2>4, <2>5
  <1>6. ASSUME NEW k, k = SetOps("adopted", no)
        PROVE  Program(k) /\ k # <<>> /\ All(k) /\ NoPut(k)
               /\ Has(k, "mem", "adopted") /\ Has(k, "put", "adopted")
    <2>1. "adopted" \in Fields
      BY DEF Fields
    <2>2. /\ Program(k) /\ k # <<>>
          /\ \A i \in 1..Len(k) : /\ k[i].what = "adopted" /\ k[i].do \in {"mem", "open", "put"}
                                  /\ k[i].do # "open" => k[i].val = no
          /\ \A d \in {"mem", "open", "put"} : Has(k, d, "adopted")
      <3>1. Program(k) /\ k # <<>> /\ SetsTo(k, "adopted", no)
        BY <1>1, <1>6, <2>1, SetProgram
      <3>2. QED BY <3>1 DEF SetsTo
    <2>3. All(k)
      BY <2>2
    <2>4. NoPut(k)
      BY <2>2 DEF Has
    <2>5. QED BY <2>2, <2>3, <2>4
  <1> HIDE DEF Fits
  <1>7. \A a, b : NoPut(a) => Apart(a, b)
    BY DEF Apart
  <1>8. ASSUME NEW a, NEW b, NEW k, Joins(k, a, b), Program(a), Program(b), b # <<>>,
               All(a), All(b), NoPut(a), NoPut(b)
        PROVE  /\ Program(k) /\ k # <<>> /\ All(k) /\ NoPut(k)
               /\ \A d, f : Has(k, d, f) <=> Has(a, d, f) \/ Has(b, d, f)
               /\ k[Len(k)] = b[Len(b)]
    <2>1. Joins(k, a, b) /\ Program(a) /\ Program(b) /\ Apart(a, b)
      BY <1>7, <1>8
    <2>2. /\ Program(k)
          /\ \A i \in 1..Len(k) : \/ \E j \in 1..Len(a) : k[i] = a[j]
                                  \/ \E j \in 1..Len(b) : k[i] = b[j]
          /\ \A d, f : Has(k, d, f) <=> Has(a, d, f) \/ Has(b, d, f)
          /\ \A f : On(k, f) <=> On(a, f) \/ On(b, f)
          /\ b # <<>> => k # <<>> /\ k[Len(k)] = b[Len(b)]
      BY <2>1, JoinedProgram, ZenonT(40)
    <2>3. All(k)
      BY <1>8, <2>2
    <2>4. QED BY <1>8, <2>2, <2>3
  <1> HIDE DEF All, NoPut
  <1> DEFINE k1 == Identity!Unlink("cert")
             k2 == k1 \o Identity!Unlink("key")
             k3 == k2 \o Identity!Unlink("device")
             k4 == k3 \o Identity!Unlink("uuid")
             k5 == k4 \o Identity!Mem("uuid", None)
             k6 == k5 \o SetOps("adopted", no)
  <1>9. l = k6 \o <<Identity!Op("reboot", "power", None)>>
    BY <1>2
  <1>10. Program(k1) /\ All(k1) /\ NoPut(k1)
    BY <1>3
  <1>11. Program(k2) /\ All(k2) /\ NoPut(k2)
    <2> HIDE DEF k1
    <2> DEFINE r == Identity!Unlink("key")
    <2>1. Joins(k2, k1, r)
      BY DEF Joins
    <2>2. Program(r) /\ r # <<>> /\ All(r) /\ NoPut(r)
      BY <1>3
    <2> HIDE DEF r, k2
    <2>3. /\ Program(k2) /\ All(k2) /\ NoPut(k2)
          /\ \A d, f : Has(k2, d, f) <=> Has(k1, d, f) \/ Has(r, d, f)
      BY <1>8, <1>10, <2>1, <2>2, Zenon
    <2>4. QED BY <1>10, <2>2, <2>3, Zenon
  <1>12. Program(k3) /\ All(k3) /\ NoPut(k3)
    <2> HIDE DEF k2
    <2> DEFINE r == Identity!Unlink("device")
    <2>1. Joins(k3, k2, r)
      BY DEF Joins
    <2>2. Program(r) /\ r # <<>> /\ All(r) /\ NoPut(r)
      BY <1>3
    <2> HIDE DEF r, k3
    <2>3. /\ Program(k3) /\ All(k3) /\ NoPut(k3)
          /\ \A d, f : Has(k3, d, f) <=> Has(k2, d, f) \/ Has(r, d, f)
      BY <1>8, <1>11, <2>1, <2>2, Zenon
    <2>4. QED BY <1>11, <2>2, <2>3, Zenon
  <1>13. Program(k4) /\ All(k4) /\ NoPut(k4) /\ Has(k4, "remove", "uuid")
    <2> HIDE DEF k3
    <2> DEFINE r == Identity!Unlink("uuid")
    <2>1. Joins(k4, k3, r)
      BY DEF Joins
    <2>2. Program(r) /\ r # <<>> /\ All(r) /\ NoPut(r) /\ Has(r, "remove", "uuid")
      BY <1>3
    <2> HIDE DEF r, k4
    <2>3. /\ Program(k4) /\ All(k4) /\ NoPut(k4)
          /\ \A d, f : Has(k4, d, f) <=> Has(k3, d, f) \/ Has(r, d, f)
      BY <1>8, <1>12, <2>1, <2>2, Zenon
    <2>4. QED BY <1>12, <2>2, <2>3, Zenon
  <1>14. Program(k5) /\ All(k5) /\ NoPut(k5) /\ Has(k5, "remove", "uuid")
    <2> HIDE DEF k4
    <2> DEFINE r == Identity!Mem("uuid", None)
    <2>1. Joins(k5, k4, r)
      BY DEF Joins
    <2>2. Program(r) /\ r # <<>> /\ All(r) /\ NoPut(r)
      BY <1>4
    <2> HIDE DEF r, k5
    <2>3. /\ Program(k5) /\ All(k5) /\ NoPut(k5)
          /\ \A d, f : Has(k5, d, f) <=> Has(k4, d, f) \/ Has(r, d, f)
      BY <1>8, <1>13, <2>1, <2>2, Zenon
    <2>4. QED BY <1>13, <2>2, <2>3, Zenon
  <1>15. /\ Program(k6) /\ All(k6) /\ NoPut(k6) /\ Has(k6, "remove", "uuid")
         /\ Has(k6, "mem", "adopted") /\ Has(k6, "put", "adopted")
    <2> HIDE DEF k5
    <2> DEFINE r == SetOps("adopted", no)
    <2>1. Joins(k6, k5, r)
      BY DEF Joins
    <2>2. Program(r) /\ r # <<>> /\ All(r) /\ NoPut(r) /\ Has(r, "mem", "adopted") /\ Has(r, "put", "adopted")
      BY <1>6
    <2> HIDE DEF r, k6
    <2>3. /\ Program(k6) /\ All(k6) /\ NoPut(k6)
          /\ \A d, f : Has(k6, d, f) <=> Has(k5, d, f) \/ Has(r, d, f)
      BY <1>8, <1>14, <2>1, <2>2, Zenon
    <2>4. QED BY <1>14, <2>2, <2>3, Zenon
  <1>16. /\ Program(l) /\ l # <<>> /\ l[Len(l)].do = "reboot" /\ All(l)
         /\ Has(l, "remove", "uuid") /\ Has(l, "mem", "adopted") /\ Has(l, "put", "adopted")
    <2> HIDE DEF k6
    <2> DEFINE r == <<Identity!Op("reboot", "power", None)>>
    <2>1. Joins(l, k6, r)
      BY <1>9 DEF Joins
    <2>2. Program(r) /\ r # <<>> /\ All(r) /\ NoPut(r) /\ r[Len(r)].do = "reboot"
      BY <1>5
    <2> HIDE DEF r
    <2>3. /\ Program(l) /\ l # <<>> /\ All(l)
          /\ \A d, f : Has(l, d, f) <=> Has(k6, d, f) \/ Has(r, d, f)
          /\ l[Len(l)] = r[Len(r)]
      BY <1>8, <1>15, <2>1, <2>2, Zenon
    <2>4. QED BY <1>15, <2>2, <2>3, Zenon
  <1> HIDE DEF k1, k2, k3, k4, k5, k6
  <1>17. QED
    <2>1. \A i \in 1..Len(l) : Fits(l[i])
      BY <1>16 DEF All
    <2>2. QED BY <1>16, <2>1, Zenon DEF Deletes, Fits, no

\* A pair is made anew.
LEMMA PairProgram ==
  ASSUME NEW n \in 1..2, NEW l, Joins(l, Identity!WriteFile("cert", n), Identity!WriteFile("key", n))
  PROVE  /\ Program(l)
         /\ \A i \in 1..Len(l) : /\ l[i].what \in {"cert", "key"} /\ l[i].do \in {"open", "put"}
                                 /\ l[i].do = "put" => l[i].val = n
         /\ Has(l, "put", "cert") /\ Has(l, "put", "key") /\ On(l, "key")
  <1>1. {"cert", "key"} \subseteq Paths /\ "open" \in Does /\ "put" \in Does /\ n \in Values
    BY DEF Paths, Does, Values
  <1>2. PICK a \in Ops : a = Identity!Op("open", "cert", None) /\ a.do = "open" /\ a.what = "cert"
    BY <1>1, OpFields, SomeValues
  <1>3. PICK b \in Ops : b = Identity!Op("put", "cert", n) /\ b.do = "put" /\ b.what = "cert" /\ b.val = n
    BY <1>1, OpFields
  <1>4. PICK c \in Ops : c = Identity!Op("open", "key", None) /\ c.do = "open" /\ c.what = "key"
    BY <1>1, OpFields, SomeValues
  <1>5. PICK d \in Ops : d = Identity!Op("put", "key", n) /\ d.do = "put" /\ d.what = "key" /\ d.val = n
    BY <1>1, OpFields
  <1>6. l = <<a, b>> \o <<c, d>>
    BY <1>2, <1>3, <1>4, <1>5 DEF Identity!WriteFile, Joins
  <1>7. l \in Seq(Ops) /\ Len(l) = 4 /\ l[1] = a /\ l[2] = b /\ l[3] = c /\ l[4] = d
    BY <1>6
  <1>8. \A i \in 1..4 : i = 1 \/ i = 2 \/ i = 3 \/ i = 4
    OBVIOUS
  <1>9. /\ 1 \in 1..4 /\ 2 \in 1..4 /\ 3 \in 1..4 /\ 4 \in 1..4
        /\ 1 < 4 /\ 2 < 4 /\ 3 < 4 /\ 1 + 1 = 2 /\ 2 + 1 = 3 /\ 3 + 1 = 4
        /\ (\A j \in 3..4 : j = 3 \/ j = 4) /\ (\A j \in (4 + 1)..4 : FALSE)
    OBVIOUS
  <1>10. ASSUME NEW i \in 1..4
         PROVE  /\ l[i].do = "open" => i < 4 /\ l[i + 1].do = "put" /\ l[i + 1].what = l[i].what
                /\ l[i].do = "put" /\ l[i].what = "key" =>
                     \A j \in (i + 1)..4 : l[j].what \notin {"cert", "key"}
                /\ l[i].do = "put" /\ l[i].what = "cert" =>
                     /\ i < 4 /\ l[i + 1].do = "open" /\ l[i + 1].what = "key"
                     /\ \A j \in (i + 1)..4 : l[j].what # "cert"
                /\ l[i].what \in {"cert", "key"} /\ l[i].do \in {"open", "put"}
                /\ l[i].do = "put" => l[i].val = n
    <2>1. CASE i = 1
      BY <1>2, <1>3, <1>7, <1>9, <2>1
    <2>2. CASE i = 2
      BY <1>3, <1>4, <1>5, <1>7, <1>9, <2>2
    <2>3. CASE i = 3
      BY <1>4, <1>5, <1>7, <1>9, <2>3
    <2>4. CASE i = 4
      BY <1>5, <1>7, <1>9, <2>4
    <2>5. QED BY <1>8, <2>1, <2>2, <2>3, <2>4
  <1>11. \A i \in 1..4 : l[i].do # "mem" /\ l[i].what \in Paths
    BY <1>1, <1>10
  <1>12. Program(l)
    BY <1>7, <1>10, <1>11 DEF Program
  <1>13. Has(l, "put", "cert") /\ Has(l, "put", "key") /\ On(l, "key")
    BY <1>3, <1>5, <1>7, <1>9 DEF Has, On
  <1>14. QED BY <1>7, <1>10, <1>12, <1>13

\* What a start has to do.
LEMMA BootProgram ==
  ASSUME NEW l, Joins(l, Identity!EnsureCertKey(disk), Identity!EnsureDevice(disk))
  PROVE  /\ Program(l)
         /\ \A i \in 1..Len(l) : l[i].what \in {"cert", "key", "device"} /\ l[i].do \in {"open", "put"}
         /\ \/ /\ disk.cert # None /\ disk.key # None
               /\ ~On(l, "cert") /\ ~On(l, "key")
            \/ /\ Has(l, "put", "cert") /\ Has(l, "put", "key") /\ On(l, "key")
               /\ \E n \in 1..2 : \A i \in 1..Len(l) :
                     l[i].do = "put" /\ l[i].what \in {"cert", "key"} => l[i].val = n
  <1> DEFINE a == Identity!EnsureCertKey(disk)
             b == Identity!EnsureDevice(disk)
  <1>1. Joins(l, a, b)
    OBVIOUS
  <1>2. \A i \in 1..Len(<<>>) : FALSE
    OBVIOUS
  <1>3. /\ Program(b)
        /\ \A i \in 1..Len(b) : b[i].what = "device" /\ b[i].do \in {"open", "put"}
    <2>1. CASE disk.device = Own
      <3>1. b = <<>>
        BY <2>1 DEF Identity!EnsureDevice
      <3>2. QED BY <1>2, <3>1, EmptyProgram
    <2>2. CASE disk.device # Own
      <3>1. b = Identity!WriteFile("device", Own)
        BY <2>2 DEF Identity!EnsureDevice
      <3> HIDE DEF b
      <3>2. QED BY <3>1, SomeValues, WriteProgram
    <2>3. QED BY <2>1, <2>2
  <1>4. /\ Program(a)
        /\ \A i \in 1..Len(a) : a[i].what \in {"cert", "key"} /\ a[i].do \in {"open", "put"}
        /\ \/ disk.cert # None /\ disk.key # None /\ a = <<>>
           \/ /\ Has(a, "put", "cert") /\ Has(a, "put", "key") /\ On(a, "key")
              /\ \E n \in 1..2 : \A i \in 1..Len(a) : a[i].do = "put" => a[i].val = n
    <2>1. CASE disk.cert # None /\ disk.key # None
      <3>1. a = <<>>
        BY <2>1 DEF Identity!EnsureCertKey
      <3>2. QED BY <1>2, <2>1, <3>1, EmptyProgram
    <2>2. CASE ~(disk.cert # None /\ disk.key # None)
      <3> DEFINE n == CHOOSE m \in 1..2 : m \notin {disk.cert, disk.key}
      <3>1. \E m \in 1..2 : m \notin {disk.cert, disk.key}
        <4>1. 1 \in 0..2 /\ 2 \in 0..2 /\ 1 \in 1..2 /\ 2 \in 1..2 /\ 1 # 2
          OBVIOUS
        <4>2. None \notin 0..2
          BY IdentityAssumption
        <4>3. QED BY <2>2, <4>1, <4>2
      <3>2. n \in 1..2
        BY <3>1
      <3>3. Joins(a, Identity!WriteFile("cert", n), Identity!WriteFile("key", n))
        BY <2>2 DEF Identity!EnsureCertKey, Joins
      <3> HIDE DEF n, a
      <3>4. /\ Program(a)
            /\ \A i \in 1..Len(a) : /\ a[i].what \in {"cert", "key"} /\ a[i].do \in {"open", "put"}
                                    /\ a[i].do = "put" => a[i].val = n
            /\ Has(a, "put", "cert") /\ Has(a, "put", "key") /\ On(a, "key")
        BY <3>2, <3>3, PairProgram
      <3>5. QED BY <3>2, <3>4
    <2>3. QED BY <2>1, <2>2
  <1> HIDE DEF a, b
  <1>5. Apart(a, b)
    BY <1>3 DEF On, Apart
  <1>6. /\ Program(l)
        /\ \A i \in 1..Len(l) : \/ \E j \in 1..Len(a) : l[i] = a[j]
                                \/ \E j \in 1..Len(b) : l[i] = b[j]
        /\ \A d, f : Has(l, d, f) <=> Has(a, d, f) \/ Has(b, d, f)
        /\ \A f : On(l, f) <=> On(a, f) \/ On(b, f)
        /\ b # <<>> => l # <<>> /\ l[Len(l)] = b[Len(b)]
    <2>1. Program(a) /\ Program(b)
      BY <1>3, <1>4
    <2>2. QED BY <1>1, <1>5, <2>1, JoinedProgram, ZenonT(40)
  <1>7. ASSUME NEW i \in 1..Len(l)
        PROVE  l[i].what \in {"cert", "key", "device"} /\ l[i].do \in {"open", "put"}
    <2>1. CASE \E j \in 1..Len(a) : l[i] = a[j]
      BY <1>4, <2>1
    <2>2. CASE \E j \in 1..Len(b) : l[i] = b[j]
      BY <1>3, <2>2
    <2>3. QED BY <1>6, <2>1, <2>2
  <1>8. CASE disk.cert # None /\ disk.key # None /\ a = <<>>
    <2>1. ~On(l, "cert") /\ ~On(l, "key")
      BY <1>3, <1>6, <1>8, EmptyProgram DEF On
    <2>2. QED BY <1>6, <1>7, <1>8, <2>1
  <1>9. CASE /\ Has(a, "put", "cert") /\ Has(a, "put", "key") /\ On(a, "key")
             /\ \E n \in 1..2 : \A i \in 1..Len(a) : a[i].do = "put" => a[i].val = n
    <2>1. PICK n \in 1..2 : \A i \in 1..Len(a) : a[i].do = "put" => a[i].val = n
      BY <1>9
    <2>2. \A i \in 1..Len(l) : l[i].do = "put" /\ l[i].what \in {"cert", "key"} => l[i].val = n
      <3> SUFFICES ASSUME NEW i \in 1..Len(l), l[i].do = "put", l[i].what \in {"cert", "key"}
                   PROVE  l[i].val = n
        OBVIOUS
      <3>1. CASE \E j \in 1..Len(a) : l[i] = a[j]
        BY <2>1, <3>1
      <3>2. CASE \E j \in 1..Len(b) : l[i] = b[j]
        BY <1>3, <3>2
      <3>3. QED BY <1>6, <3>1, <3>2
    <2>3. Has(l, "put", "cert") /\ Has(l, "put", "key") /\ On(l, "key")
      BY <1>6, <1>9
    <2>4. QED BY <1>6, <1>7, <2>2, <2>3
  <1>10. QED BY <1>4, <1>8, <1>9

LEMMA BootKeeps ==
  ASSUME IdentityInv, Identity!Boot
  PROVE  IdentityInv'
  <1> DEFINE ll == Identity!EnsureCertKey(disk) \o Identity!EnsureDevice(disk)
             yes == TRUE
  <1> SUFFICES ASSUME NEW l, l = ll PROVE IdentityInv'
    OBVIOUS
  <1>1. /\ ~up /\ up' = yes /\ mem' = Identity!Loaded(disk)
        /\ todo' = [todo EXCEPT !["main"] = l]
        /\ UNCHANGED <<disk, cfgHost, meant, spoiled>>
    BY DEF Identity!Boot
  <1>2. Joins(l, Identity!EnsureCertKey(disk), Identity!EnsureDevice(disk))
    BY DEF Joins
  <1>3. yes \in BOOLEAN /\ yes
    OBVIOUS
  <1> HIDE DEF ll, yes
  <1>4. /\ Program(l)
        /\ \A i \in 1..Len(l) : l[i].what \in {"cert", "key", "device"} /\ l[i].do \in {"open", "put"}
        /\ \/ /\ disk.cert # None /\ disk.key # None
              /\ ~On(l, "cert") /\ ~On(l, "key")
           \/ /\ Has(l, "put", "cert") /\ Has(l, "put", "key") /\ On(l, "key")
              /\ \E n \in 1..2 : \A i \in 1..Len(l) :
                    l[i].do = "put" /\ l[i].what \in {"cert", "key"} => l[i].val = n
    BY <1>2, BootProgram
  <1>5. IdentityShape /\ todo["main"] = <<>> /\ \A h \in Tasks \ {"main"} : todo[h] = <<>>
    BY <1>1 DEF IdentityInv, IdentityShape, Tasks
  <1>6. l \in Seq(Ops) /\ "main" \in Tasks
    BY <1>4 DEF Program, Tasks
  <1>7. /\ \A d, f : Left(d, f) <=> Has(todo["main"], d, f)
        /\ \A d, f : Left(d, f)' <=> Has(l, d, f)
        /\ todo'["main"] = l /\ \A h \in Tasks \ {"main"} : todo'[h] = <<>>
        /\ todo' = [h \in Tasks |-> todo'[h]]
    BY <1>1, <1>5, <1>6, LeftStep
  <1>8. todo'.main = l /\ todo'.reset = <<>>
    BY <1>7 DEF Tasks
  <1>9. \A h \in Tasks : todo'[h] \in Seq(Ops)
    BY <1>1, <1>5, <1>6, TodoKept
  <1>10. mem' = [f \in Fields |-> mem'[f]]
    BY <1>1, LoadedFields
  <1>11. IdentityShape'
    BY <1>1, <1>3, <1>5, <1>7, <1>8, <1>9, <1>10 DEF IdentityShape
  <1>12. ASSUME "overlap" \notin spoiled'
         PROVE  Programs' /\ PairAs' /\ \A f \in Fields : MemoryAs(f)' /\ DiskAs(f)'
    <2>1. Programs /\ PairAs /\ \A f \in Fields : DiskAs(f)
      BY <1>1, <1>12 DEF IdentityInv
    <2>2. \A i \in 1..Len(<<>>) : FALSE
      OBVIOUS
    <2>3. \A o : o.what \in {"cert", "key", "device"} /\ o.do \in {"open", "put"} => MainOp(o) /\ AsMeant(o)'
      BY DEF MainOp, AsMeant, Fields
    <2>4. \A i \in 1..Len(l) : MainOp(l[i]) /\ AsMeant(l[i])'
      BY <1>4, <2>3
    <2>5. Programs'
      BY <1>4, <1>8, <2>2, <2>4, EmptyProgram DEF Programs
    <2>6. ASSUME NEW f \in Fields
          PROVE  MemoryAs(f)' /\ DiskAs(f)'
      <3>1. f \notin {"cert", "key", "device"}
        BY DEF Fields
      <3>2. \A d : ~Left(d, f) /\ ~Left(d, f)'
        BY <1>4, <1>5, <1>7, <3>1, EmptyProgram DEF Has
      <3>3. ~FileLeft(f) /\ ~FileLeft(f)'
        BY <3>2 DEF FileLeft
      <3>4. Identity!Loaded(disk)' = Identity!Loaded(disk)
        BY <1>1 DEF Identity!Loaded, Identity!Holds
      <3>5. f \notin spoiled /\ (f = "host" => cfgHost = None) => Identity!Loaded(disk)[f] = meant[f]
        BY <2>1, <3>3 DEF DiskAs
      <3>6. DiskAs(f)'
        BY <1>1, <3>4, <3>5 DEF DiskAs
      <3>7. MemoryAs(f)'
        BY <1>1, <3>2, <3>5 DEF MemoryAs, Counts
      <3>8. QED BY <3>6, <3>7
    <2>7. PairAs'
      <3>1. (Torn' <=> Torn) /\ (Whole' <=> Whole)
        BY <1>1 DEF Torn, Whole
      <3>2. CASE /\ disk.cert # None /\ disk.key # None
                 /\ ~On(l, "cert") /\ ~On(l, "key")
        <4>1. \A i \in 1..Len(l) : l[i].what \notin {"cert", "key"}
          BY <3>2 DEF On
        <4>2. ~Has(l, "put", "key")
          BY <4>1 DEF Has
        <4>3. 1 \in 1..2
          OBVIOUS
        <4>4. ~On(todo.main, "key")
          BY <1>5, EmptyProgram
        <4>5. "pair" \notin spoiled => ~Torn
          BY <2>1, <4>4 DEF PairAs
        <4>6. ~Torn => Whole
          BY <3>2 DEF Torn
        <4>7. QED BY <1>1, <1>8, <3>1, <3>2, <4>1, <4>2, <4>3, <4>5, <4>6 DEF PairAs
      <3>3. CASE /\ Has(l, "put", "cert") /\ Has(l, "put", "key") /\ On(l, "key")
                 /\ \E n \in 1..2 : \A i \in 1..Len(l) :
                       l[i].do = "put" /\ l[i].what \in {"cert", "key"} => l[i].val = n
        BY <1>1, <1>8, <3>3 DEF PairAs
      <3>4. QED BY <1>4, <3>2, <3>3
    <2>8. QED BY <2>5, <2>6, <2>7
  <1>13. QED BY <1>11, <1>12 DEF IdentityInv

----------------------------------------------------------------------------
(* What the controllers say. *)

\* What is meant, after one of them has said it.
MeantShape(m) ==
    /\ m = [f \in Fields |-> m[f]]
    /\ m.adopted \in BOOLEAN /\ m.uuid \in Consoles \cup {Own} /\ m.host \in Hosts \cup {Default}
    /\ m.adopted => m.uuid # Own

\* A message is handled: its operations set what it changes.
LEMMA HandleKeeps ==
  ASSUME IdentityInv, NEW l, Identity!Handle(l), Program(l),
         \A i \in 1..Len(l) : l[i].what \in Fields /\ MainOp(l[i]) /\ AsMeant(l[i])',
         \A f \in Fields : \/ Has(l, "mem", f) /\ Has(l, "put", f)
                           \/ ~Has(l, "mem", f) /\ ~Has(l, "put", f) /\ meant'[f] = meant[f],
         MeantShape(meant')
  PROVE  IdentityInv'
  <1>1. /\ up /\ todo.main = <<>> /\ todo' = [todo EXCEPT !["main"] = l]
        /\ spoiled' = IF todo.reset = <<>> THEN spoiled ELSE spoiled \cup {"overlap"}
        /\ UNCHANGED <<up, mem, disk, cfgHost>>
    <2> DEFINE overlaps == IF todo.reset = <<>> THEN 0 ELSE 1
    <2>1. overlaps = 0 <=> todo.reset = <<>>
      OBVIOUS
    <2>2. QED BY <2>1 DEF Identity!Handle
  <1>2. IdentityShape /\ todo["main"] = <<>>
    BY <1>1, TodoOf DEF IdentityInv
  <1>3. l \in Seq(Ops) /\ "main" \in Tasks /\ "reset" \in Tasks
    BY DEF Program, Tasks
  <1>4. /\ todo' = [h \in Tasks |-> todo'[h]] /\ \A h \in Tasks : todo'[h] \in Seq(Ops)
    BY <1>1, <1>2, <1>3, TodoKept
  <1>5. IdentityShape'
    BY <1>1, <1>2, <1>4 DEF IdentityShape, MeantShape
  <1>6. ASSUME "overlap" \notin spoiled'
        PROVE  Programs' /\ PairAs' /\ \A f \in Fields : MemoryAs(f)' /\ DiskAs(f)'
    <2>1. todo.reset = <<>> /\ spoiled' = spoiled
      BY <1>1, <1>6
    <2>2. Programs /\ PairAs /\ \A f \in Fields : MemoryAs(f) /\ DiskAs(f)
      BY <1>6, <2>1 DEF IdentityInv
    <2>3. todo["main"] = <<>> /\ \A h \in Tasks \ {"main"} : todo[h] = <<>>
      BY <1>2, <2>1 DEF Tasks
    <2>4. /\ \A d, f : Left(d, f) <=> Has(todo["main"], d, f)
          /\ \A d, f : Left(d, f)' <=> Has(l, d, f)
          /\ todo'["main"] = l /\ \A h \in Tasks \ {"main"} : todo'[h] = <<>>
      BY <1>1, <1>2, <1>3, <2>3, LeftStep
    <2>5. todo'.main = l /\ todo'.reset = <<>>
      BY <2>4 DEF Tasks
    <2>6. \A d, f : ~Left(d, f)
      BY <2>3, <2>4, EmptyProgram
    <2>7. \A i \in 1..Len(<<>>) : FALSE
      OBVIOUS
    <2>8. Programs'
      BY <2>5, <2>7, EmptyProgram DEF Programs
    <2>9. ASSUME NEW f \in Fields
          PROVE  MemoryAs(f)' /\ DiskAs(f)'
      <3>1. CASE Has(l, "mem", f) /\ Has(l, "put", f)
        BY <2>4, <3>1 DEF MemoryAs, DiskAs, FileLeft
      <3>2. CASE ~Has(l, "mem", f) /\ ~Has(l, "put", f) /\ meant'[f] = meant[f]
        <4>1. ~Left("put", f)'
          BY <2>4, <3>2
        <4>2. Counts(f)' => Counts(f)
          BY <1>1, <3>2 DEF Counts
        <4>3. up /\ f \notin spoiled /\ Counts(f) => mem[f] = meant[f]
          BY <2>2, <2>6 DEF MemoryAs
        <4>4. MemoryAs(f)'
          BY <1>1, <2>1, <3>2, <4>1, <4>2, <4>3 DEF MemoryAs
        <4>5. ~FileLeft(f)
          BY <2>6 DEF FileLeft
        <4>6. Identity!Loaded(disk)' = Identity!Loaded(disk)
          BY <1>1 DEF Identity!Loaded, Identity!Holds
        <4>7. f \notin spoiled /\ (f = "host" => cfgHost = None) => Identity!Loaded(disk)[f] = meant[f]
          BY <2>2, <4>5 DEF DiskAs
        <4>8. DiskAs(f)'
          BY <1>1, <2>1, <3>2, <4>6, <4>7 DEF DiskAs
        <4>9. QED BY <4>4, <4>8
      <3>3. QED BY <3>1, <3>2
    <2>10. PairAs'
      <3>1. (Torn' <=> Torn) /\ (Whole' <=> Whole)
        BY <1>1 DEF Torn, Whole
      <3>2. \A i \in 1..Len(l) : l[i].what \notin {"cert", "key"}
        BY DEF Fields
      <3>3. /\ ~Has(l, "put", "key") /\ ~On(l, "cert") /\ ~On(l, "key")
        BY <3>2 DEF Has, On
      <3>4. 1 \in 1..2
        OBVIOUS
      <3>5. ~On(todo.main, "key")
        BY <1>1, EmptyProgram
      <3>6. "pair" \notin spoiled => ~Torn /\ Whole
        BY <1>1, <2>1, <2>2, <3>5 DEF PairAs
      <3>7. QED BY <1>1, <2>1, <2>5, <3>1, <3>2, <3>3, <3>4, <3>6 DEF PairAs
    <2>11. QED BY <2>8, <2>9, <2>10
  <1>7. QED BY <1>5, <1>6 DEF IdentityInv

\* The controller gives its id.
LEMMA HelloKeeps ==
  ASSUME IdentityInv, NEW c \in Consoles, Identity!Hello(c)
  PROVE  IdentityInv'
  <1> SUFFICES ASSUME NEW l, l = SetOps("uuid", c) PROVE IdentityInv'
    OBVIOUS
  <1>1. Identity!Handle(l) /\ meant' = [meant EXCEPT !.uuid = c]
    BY DEF Identity!Hello, Identity!SetUUID, SetOps
  <1>2. c \in Values /\ "uuid" \in Fields
    BY SomeValues DEF Fields
  <1>3. Program(l) /\ SetsTo(l, "uuid", c)
    BY <1>2, SetProgram
  <1>4. meant = [f \in Fields |-> meant[f]] /\ IdentityShape
    BY DEF IdentityInv, IdentityShape
  <1>5. meant'["uuid"] = c /\ \A f \in Fields \ {"uuid"} : meant'[f] = meant[f]
    BY <1>1, <1>2, <1>4
  <1>6. MeantShape(meant')
    <2>1. meant' = [f \in Fields |-> meant'[f]]
      BY <1>1, <1>4
    <2>2. meant'.adopted = meant.adopted /\ meant'.host = meant.host /\ meant'.uuid = c
      BY <1>5 DEF Fields
    <2>3. c # Own
      BY IdentityAssumption
    <2>4. QED BY <1>4, <2>1, <2>2, <2>3 DEF MeantShape, IdentityShape
  <1>7. ASSUME NEW i \in 1..Len(l)
        PROVE  l[i].what \in Fields /\ MainOp(l[i]) /\ AsMeant(l[i])'
    <2>1. /\ l[i].what = "uuid" /\ l[i].do \in {"mem", "open", "put"}
          /\ l[i].do # "open" => l[i].val = c
      BY <1>3 DEF SetsTo
    <2>2. QED BY <1>2, <1>5, <2>1 DEF MainOp, AsMeant
  <1>8. \A f \in Fields : \/ Has(l, "mem", f) /\ Has(l, "put", f)
                          \/ ~Has(l, "mem", f) /\ ~Has(l, "put", f) /\ meant'[f] = meant[f]
    BY <1>3, <1>5 DEF SetsTo, Has
  <1>9. QED BY <1>1, <1>3, <1>6, <1>7, <1>8, HandleKeeps

\* The controller agrees.
LEMMA ParamAgreementKeeps ==
  ASSUME IdentityInv, Identity!ParamAgreement
  PROVE  IdentityInv'
  <1> DEFINE yes == TRUE
  <1> SUFFICES ASSUME NEW l, l = SetOps("adopted", yes) PROVE IdentityInv'
    OBVIOUS
  <1>1. Identity!Handle(l) /\ meant' = [meant EXCEPT !.adopted = yes] /\ meant.uuid # Own
    BY DEF Identity!ParamAgreement, Identity!SetAdopted, SetOps
  <1>2. yes \in Values /\ "adopted" \in Fields /\ yes \in BOOLEAN
    BY SomeValues DEF Fields
  <1> HIDE DEF yes
  <1>3. Program(l) /\ SetsTo(l, "adopted", yes)
    BY <1>2, SetProgram
  <1>4. meant = [f \in Fields |-> meant[f]] /\ IdentityShape
    BY DEF IdentityInv, IdentityShape
  <1>5. meant'["adopted"] = yes /\ \A f \in Fields \ {"adopted"} : meant'[f] = meant[f]
    BY <1>1, <1>2, <1>4
  <1>6. MeantShape(meant')
    <2>1. meant' = [f \in Fields |-> meant'[f]]
      BY <1>1, <1>4
    <2>2. meant'.adopted = yes /\ meant'.host = meant.host /\ meant'.uuid = meant.uuid
      BY <1>5 DEF Fields
    <2>3. QED BY <1>1, <1>2, <1>4, <2>1, <2>2 DEF MeantShape, IdentityShape
  <1>7. ASSUME NEW i \in 1..Len(l)
        PROVE  l[i].what \in Fields /\ MainOp(l[i]) /\ AsMeant(l[i])'
    <2>1. /\ l[i].what = "adopted" /\ l[i].do \in {"mem", "open", "put"}
          /\ l[i].do # "open" => l[i].val = yes
      BY <1>3 DEF SetsTo
    <2>2. QED BY <1>2, <1>5, <2>1 DEF MainOp, AsMeant
  <1>8. \A f \in Fields : \/ Has(l, "mem", f) /\ Has(l, "put", f)
                          \/ ~Has(l, "mem", f) /\ ~Has(l, "put", f) /\ meant'[f] = meant[f]
    BY <1>3, <1>5 DEF SetsTo, Has
  <1>9. QED BY <1>1, <1>3, <1>6, <1>7, <1>8, HandleKeeps

\* A push names the host and the controller's id.
LEMMA ApplyManagePushKeeps ==
  ASSUME IdentityInv, NEW h \in Hosts, NEW c \in Consoles, Identity!ApplyManagePush(h, c)
  PROVE  IdentityInv'
  <1> SUFFICES ASSUME NEW l, Joins(l, SetOps("host", h), SetOps("uuid", c)) PROVE IdentityInv'
    BY DEF Joins
  <1>1. Identity!Handle(l) /\ meant' = [meant EXCEPT !.host = h, !.uuid = c]
    BY DEF Identity!ApplyManagePush, Identity!SetUUID, SetOps, Joins
  <1>2. c \in Values /\ h \in Values /\ "uuid" \in Fields /\ "host" \in Fields
    BY SomeValues DEF Fields
  <1>3. /\ Program(l)
        /\ \A i \in 1..Len(l) : /\ l[i].do \in {"mem", "open", "put"}
                                /\ \/ l[i].what = "host" /\ (l[i].do # "open" => l[i].val = h)
                                   \/ l[i].what = "uuid" /\ (l[i].do # "open" => l[i].val = c)
        /\ \A d \in {"mem", "open", "put"} : Has(l, d, "host") /\ Has(l, d, "uuid")
    BY <1>2, PushProgram
  <1>4. meant = [f \in Fields |-> meant[f]] /\ IdentityShape
    BY DEF IdentityInv, IdentityShape
  <1>5. meant'["uuid"] = c /\ meant'["host"] = h /\ meant'["adopted"] = meant["adopted"]
        /\ "adopted" \in Fields
    BY <1>1, <1>2, <1>4 DEF Fields
  <1>6. MeantShape(meant')
    <2>1. meant' = [f \in Fields |-> meant'[f]]
      BY <1>1, <1>4
    <2>2. meant'.adopted = meant.adopted /\ meant'.host = h /\ meant'.uuid = c
      BY <1>5
    <2>3. c # Own
      BY IdentityAssumption
    <2>4. QED BY <1>4, <2>1, <2>2, <2>3 DEF MeantShape, IdentityShape
  <1>7. ASSUME NEW i \in 1..Len(l)
        PROVE  l[i].what \in Fields /\ MainOp(l[i]) /\ AsMeant(l[i])'
    <2>1. /\ l[i].do \in {"mem", "open", "put"}
          /\ \/ l[i].what = "host" /\ (l[i].do # "open" => l[i].val = h)
             \/ l[i].what = "uuid" /\ (l[i].do # "open" => l[i].val = c)
      BY <1>3
    <2>2. QED BY <1>2, <1>5, <2>1 DEF MainOp, AsMeant
  <1>8. \A f \in Fields : \/ Has(l, "mem", f) /\ Has(l, "put", f)
                          \/ ~Has(l, "mem", f) /\ ~Has(l, "put", f) /\ meant'[f] = meant[f]
    BY <1>3, <1>5 DEF Fields, Has
  <1>9. QED BY <1>1, <1>3, <1>6, <1>7, <1>8, HandleKeeps

\* The LED has no file.
LEMMA SoundLedSettingsKeeps ==
  ASSUME IdentityInv, NEW b \in BOOLEAN, Identity!SoundLedSettings(b)
  PROVE  IdentityInv'
  <1> SUFFICES ASSUME NEW l, l = <<>> PROVE IdentityInv'
    OBVIOUS
  <1>1. Identity!Handle(l) /\ meant' = meant
    BY DEF Identity!SoundLedSettings
  <1>2. MeantShape(meant')
    BY <1>1 DEF MeantShape, IdentityInv, IdentityShape
  <1>3. \A i \in 1..Len(l) : l[i].what \in Fields /\ MainOp(l[i]) /\ AsMeant(l[i])'
    OBVIOUS
  <1>4. Program(l) /\ \A d, f : ~Has(l, d, f)
    BY EmptyProgram
  <1>5. QED BY <1>1, <1>2, <1>3, <1>4, HandleKeeps

\* The identity is deleted: every file of it goes, or says that it is gone.
LEMMA ResetToDefaultsKeeps ==
  ASSUME IdentityInv, Identity!ResetToDefaults
  PROVE  IdentityInv'
  <1> DEFINE no == FALSE
  <1> SUFFICES ASSUME NEW l, l = Identity!DeleteIdentity PROVE IdentityInv'
    OBVIOUS
  <1>1. /\ up /\ todo = [h \in Tasks |-> <<>>] /\ todo' = [todo EXCEPT !["reset"] = l]
        /\ meant' = [meant EXCEPT !.adopted = no, !.uuid = Own]
        /\ UNCHANGED <<up, mem, disk, cfgHost, spoiled>>
    BY DEF Identity!ResetToDefaults, Identity!Idle, Identity!Goroutines, Tasks
  <1>2. no \in BOOLEAN /\ ~no /\ no = FALSE
    OBVIOUS
  <1> HIDE DEF no
  <1>3. IdentityShape /\ "main" \in Tasks /\ "reset" \in Tasks
    BY DEF IdentityInv, Tasks
  <1>4. /\ Program(l) /\ l # <<>> /\ l[Len(l)].do = "reboot"
        /\ \A i \in 1..Len(l) :
              /\ l[i].do = "remove" => l[i].val = None
              /\ l[i].what \in {"cert", "key", "device"} => l[i].do = "remove"
              /\ l[i].what \in {"cert", "key", "device", "uuid", "adopted", "power"}
              /\ l[i].do = "remove" => l[i].what \in {"cert", "key", "device", "uuid"}
              /\ l[i].do = "mem" => \/ l[i].what = "uuid" /\ l[i].val = None
                                    \/ l[i].what = "adopted" /\ l[i].val = FALSE
              /\ l[i].do = "put" => l[i].what = "adopted" /\ l[i].val = FALSE
        /\ Has(l, "remove", "uuid") /\ Has(l, "mem", "adopted") /\ Has(l, "put", "adopted")
    <2>1. Deletes(l)
      BY DeleteProgram
    <2>2. QED BY <2>1 DEF Deletes
  <1>5. meant = [f \in Fields |-> meant[f]] /\ Fields = {"adopted", "uuid", "host"}
    BY <1>3 DEF IdentityShape, Fields
  <1>6. meant'["uuid"] = Own /\ meant'["adopted"] = no /\ meant'["host"] = meant["host"]
    BY <1>1, <1>5
  <1>7. meant' = [f \in Fields |-> meant'[f]]
    BY <1>1, <1>5
  <1>8. /\ \A h \in Tasks : todo[h] = <<>>
        /\ l \in Seq(Ops)
    BY <1>1, <1>4 DEF Program
  <1>9. /\ \A d, f : Left(d, f) <=> Has(todo["reset"], d, f)
        /\ \A d, f : Left(d, f)' <=> Has(l, d, f)
        /\ todo'["reset"] = l /\ \A h \in Tasks \ {"reset"} : todo'[h] = <<>>
        /\ todo' = [h \in Tasks |-> todo'[h]]
    BY <1>1, <1>3, <1>8, LeftStep
  <1>10. todo'.reset = l /\ todo'.main = <<>>
    BY <1>9 DEF Tasks
  <1>11. \A h \in Tasks : todo'[h] \in Seq(Ops)
    BY <1>1, <1>3, <1>8, TodoKept
  <1>12. IdentityShape'
    <2>1. meant'.adopted = no /\ meant'.uuid = Own /\ meant'.host = meant.host
      BY <1>6
    <2>2. QED BY <1>1, <1>2, <1>3, <1>7, <1>9, <1>11, <2>1 DEF IdentityShape
  <1>13. ASSUME "overlap" \notin spoiled'
         PROVE  Programs' /\ PairAs' /\ \A f \in Fields : MemoryAs(f)' /\ DiskAs(f)'
    <2>1. Programs /\ PairAs /\ \A f \in Fields : MemoryAs(f) /\ DiskAs(f)
      BY <1>1, <1>13 DEF IdentityInv
    <2>2. \A d, f : ~Left(d, f)
      BY <1>8, EmptyProgram DEF Left
    <2>3. \A i \in 1..Len(<<>>) : FALSE
      OBVIOUS
    <2>4. ASSUME NEW i \in 1..Len(l)
          PROVE  ResetOp(l[i]) /\ AsMeant(l[i])'
      <3> DEFINE o == l[i]
      <3>1. /\ o.do = "remove" => o.val = None /\ o.what \in {"cert", "key", "device", "uuid"}
            /\ o.what \in {"cert", "key", "device"} => o.do = "remove"
            /\ o.what \in {"cert", "key", "device", "uuid", "adopted", "power"}
        BY <1>4
      <3>2. /\ o.do = "mem" => \/ o.what = "uuid" /\ o.val = None
                               \/ o.what = "adopted" /\ o.val = no
            /\ o.do = "put" => o.what = "adopted" /\ o.val = no
        BY <1>2, <1>4
      <3> HIDE DEF o
      <3>3. ResetOp(o)
        BY <3>1 DEF ResetOp
      <3>4. meant'.uuid = Own /\ meant'["adopted"] = no
        BY <1>6
      <3>5. AsMeant(o)'
        BY <3>1, <3>2, <3>4 DEF AsMeant
      <3>6. QED BY <3>3, <3>5 DEF o
    <2>5. Programs'
      BY <1>4, <1>10, <2>3, <2>4, EmptyProgram DEF Programs
    <2>6. ASSUME NEW f \in Fields
          PROVE  MemoryAs(f)' /\ DiskAs(f)'
      <3>1. CASE f = "adopted"
        BY <1>4, <1>9, <3>1 DEF MemoryAs, DiskAs, FileLeft
      <3>2. CASE f = "uuid"
        <4>1. ~Counts(f)'
          BY <1>6, <3>2 DEF Counts
        <4>2. QED BY <1>4, <1>9, <3>2, <4>1 DEF MemoryAs, DiskAs, FileLeft
      <3>3. CASE f = "host"
        <4>1. \A d : ~Has(l, d, f)
          BY <1>4, <3>3 DEF Has
        <4>2. ~Left("put", f)' /\ ~Left("mem", f) /\ ~FileLeft(f)
          BY <1>9, <2>2, <4>1 DEF FileLeft
        <4>3. f \notin spoiled /\ cfgHost = None =>
                /\ mem[f] = meant[f]
                /\ Identity!Loaded(disk)[f] = meant[f]
          BY <1>1, <2>1, <3>3, <4>2 DEF MemoryAs, DiskAs, Counts
        <4>4. Identity!Loaded(disk)' = Identity!Loaded(disk)
          BY <1>1 DEF Identity!Loaded, Identity!Holds
        <4>5. meant'[f] = meant[f]
          BY <1>6, <3>3
        <4>6. QED BY <1>1, <3>3, <4>2, <4>3, <4>4, <4>5 DEF MemoryAs, DiskAs, Counts
      <3>4. QED BY <1>5, <3>1, <3>2, <3>3
    <2>7. PairAs'
      <3>1. (Torn' <=> Torn) /\ (Whole' <=> Whole)
        BY <1>1 DEF Torn, Whole
      <3>2. ~On(todo.main, "key")
        BY <1>3, <1>8, TodoOf, EmptyProgram
      <3>3. "pair" \notin spoiled => ~Torn
        BY <2>1, <3>2 DEF PairAs
      <3>4. 1 \in 1..2
        OBVIOUS
      <3>5. QED BY <1>1, <1>4, <1>10, <2>3, <3>1, <3>3, <3>4, EmptyProgram DEF PairAs
    <2>8. QED BY <2>5, <2>6, <2>7
  <1>14. QED BY <1>12, <1>13 DEF IdentityInv

\* What is shown disturbs nothing.
LEMMA ShowingKeeps ==
  ASSUME IdentityInv, UNCHANGED <<up, mem, disk, cfgHost, todo, meant, spoiled>>
  PROVE  IdentityInv'
  <1>1. IdentityShape' <=> IdentityShape
    BY DEF IdentityShape
  <1>2. \A o : AsMeant(o)' <=> AsMeant(o)
    BY DEF AsMeant
  <1>3. Programs' <=> Programs
    BY <1>2 DEF Programs
  <1>4. PairAs' <=> PairAs
    BY DEF PairAs, Torn, Whole
  <1>5. \A d, f : Left(d, f)' <=> Left(d, f)
    BY DEF Left
  <1>6. Identity!Loaded(disk)' = Identity!Loaded(disk)
    BY DEF Identity!Loaded, Identity!Holds
  <1>7. \A f \in Fields : (MemoryAs(f)' <=> MemoryAs(f)) /\ (DiskAs(f)' <=> DiskAs(f))
    BY <1>5, <1>6 DEF MemoryAs, DiskAs, FileLeft, Counts
  <1>8. QED BY <1>1, <1>3, <1>4, <1>7 DEF IdentityInv

LEMMA FieldsRecord ==
  ASSUME NEW x, NEW y, NEW z, NEW r, r = [adopted |-> x, uuid |-> y, host |-> z]
  PROVE  /\ r = [f \in Fields |-> r[f]]
         /\ r.adopted = x /\ r.uuid = y /\ r.host = z
         /\ r["adopted"] = x /\ r["uuid"] = y /\ r["host"] = z
  <1>1. r = [f \in {"adopted", "uuid", "host"} |-> r[f]] /\ r["adopted"] = x /\ r["uuid"] = y /\ r["host"] = z
    OBVIOUS
  <1>2. QED BY <1>1 DEF Fields

LEMMA IdentityInit ==
  ASSUME Identity!Init
  PROVE  IdentityInv
  <1> DEFINE no == FALSE
             yes == TRUE
  <1>1. PICK c \in Consoles :
            \/ disk = Identity!Factory /\ meant = [adopted |-> no, uuid |-> Own, host |-> Default]
            \/ disk = Identity!AdoptedBy(c) /\ meant = [adopted |-> yes, uuid |-> c, host |-> Default]
    BY DEF Identity!Init
  <1>2. /\ up = no /\ mem = [adopted |-> no, uuid |-> None, host |-> Default]
        /\ todo = [h \in Tasks |-> <<>>]
    BY DEF Identity!Init, Identity!Idle, Identity!Goroutines, Tasks
  <1>3. no \in BOOLEAN /\ yes \in BOOLEAN /\ ~no /\ yes /\ no = FALSE /\ yes = TRUE
    OBVIOUS
  <1> HIDE DEF no, yes
  <1>4. /\ mem = [f \in Fields |-> mem[f]] /\ meant = [f \in Fields |-> meant[f]]
        /\ meant["host"] = Default
        /\ \/ disk = Identity!Factory /\ meant["adopted"] = no /\ meant["uuid"] = Own
           \/ disk = Identity!AdoptedBy(c) /\ meant["adopted"] = yes /\ meant["uuid"] = c
    BY <1>1, <1>2, FieldsRecord
  <1>5. /\ \A h \in Tasks : todo[h] = <<>>
        /\ todo = [h \in Tasks |-> todo[h]] /\ \A h \in Tasks : todo[h] \in Seq(Ops)
        /\ todo.main = <<>> /\ todo.reset = <<>>
    BY <1>2 DEF Tasks
  <1>6. /\ None \notin Consoles /\ Empty \notin Consoles /\ c # Own
        /\ None # TRUE /\ None \notin 0..2 /\ Empty \notin 0..2
    BY IdentityAssumption
  <1>7. /\ disk = [f \in Paths |-> disk[f]]
        /\ \A f \in Fields : cfgHost = None \/ f # "host" => Identity!Loaded(disk)[f] = meant[f]
        /\ ~Torn
        /\ meant["adopted"] \in BOOLEAN /\ meant["uuid"] \in Consoles \cup {Own}
        /\ meant["adopted"] => meant["uuid"] # Own
    <2>1. \A x : /\ x.adopted = x["adopted"] /\ x.uuid = x["uuid"] /\ x.host = x["host"]
                 /\ x.cert = x["cert"] /\ x.key = x["key"]
      OBVIOUS
    <2>2. CASE disk = Identity!Factory /\ meant["adopted"] = no /\ meant["uuid"] = Own
      <3>1. disk = [f \in Paths |-> None]
        BY <2>2 DEF Identity!Factory, Identity!Files, Paths
      <3>2. disk["adopted"] = None /\ disk["uuid"] = None /\ disk["host"] = None /\ disk["cert"] = None
        BY <3>1 DEF Paths
      <3>3. Identity!Loaded(disk)["adopted"] = meant["adopted"]
        BY <1>3, <1>6, <2>2, <3>2, LoadedFields
      <3>4. Identity!Loaded(disk)["uuid"] = meant["uuid"]
        BY <2>2, <3>2, LoadedFields
      <3>5. cfgHost = None => Identity!Loaded(disk)["host"] = meant["host"]
        BY <1>4, <3>2, LoadedFields
      <3>6. ~Torn
        BY <3>2 DEF Torn
      <3>7. QED BY <1>3, <2>2, <3>1, <3>3, <3>4, <3>5, <3>6 DEF Fields
    <2>3. CASE disk = Identity!AdoptedBy(c) /\ meant["adopted"] = yes /\ meant["uuid"] = c
      <3>1. disk = [cert |-> 0, key |-> 0, device |-> Own, uuid |-> c, adopted |-> yes, host |-> None]
        BY <1>3, <2>3 DEF Identity!AdoptedBy
      <3>2. /\ disk["adopted"] = yes /\ disk["uuid"] = c /\ disk["host"] = None
            /\ disk["cert"] = 0 /\ disk["key"] = 0
            /\ disk = [f \in {"cert", "key", "device", "uuid", "adopted", "host"} |-> disk[f]]
        BY <3>1
      <3>3. Identity!Loaded(disk)["adopted"] = meant["adopted"]
        BY <1>3, <2>3, <3>2, LoadedFields
      <3>4. Identity!Loaded(disk)["uuid"] = meant["uuid"]
        BY <1>6, <2>3, <3>2, LoadedFields
      <3>5. cfgHost = None => Identity!Loaded(disk)["host"] = meant["host"]
        BY <1>4, <3>2, LoadedFields
      <3>6. 0 \in 0..2
        OBVIOUS
      <3>7. ~Torn
        BY <1>6, <3>2, <3>6 DEF Torn, Whole
      <3>8. disk = [f \in Paths |-> disk[f]]
        BY <3>2 DEF Paths
      <3>9. QED BY <1>3, <1>6, <2>3, <3>3, <3>4, <3>5, <3>7, <3>8 DEF Fields
    <2>4. QED BY <1>4, <2>2, <2>3
  <1>8. IdentityShape
    <2>1. meant.adopted = meant["adopted"] /\ meant.uuid = meant["uuid"] /\ meant.host = meant["host"]
      OBVIOUS
    <2>2. QED BY <1>2, <1>3, <1>4, <1>5, <1>7, <2>1 DEF IdentityShape
  <1>9. \A i \in 1..Len(<<>>) : FALSE
    OBVIOUS
  <1>10. Programs
    BY <1>5, <1>9, EmptyProgram DEF Programs
  <1>11. 1 \in 1..2
    OBVIOUS
  <1>12. PairAs
    BY <1>2, <1>3, <1>5, <1>7, <1>9, <1>11, EmptyProgram DEF PairAs
  <1>13. \A f \in Fields : MemoryAs(f) /\ DiskAs(f)
    BY <1>2, <1>3, <1>7 DEF MemoryAs, DiskAs
  <1>14. QED BY <1>8, <1>10, <1>12, <1>13 DEF IdentityInv

LEMMA IdentityNext ==
  ASSUME IdentityInv, [Identity!Next]_identityVars
  PROVE  IdentityInv'
  <1>1. CASE Identity!Boot
    BY <1>1, BootKeeps
  <1>2. CASE Identity!Crash
    BY <1>2, CrashKeeps
  <1>3. CASE Identity!Reboot
    BY <1>3, RebootKeeps
  <1>4. ASSUME NEW g \in Tasks,
               Identity!SetMemory(g) \/ Identity!TouchFile(g) \/ Identity!OperationFails(g)
        PROVE  IdentityInv'
    BY <1>4, SetMemoryKeeps, TouchFileKeeps, OperationFailsKeeps
  <1>5. ASSUME NEW c \in Consoles, Identity!Hello(c)
        PROVE  IdentityInv'
    BY <1>5, HelloKeeps
  <1>6. CASE Identity!ParamAgreement
    BY <1>6, ParamAgreementKeeps
  <1>7. ASSUME NEW h \in Hosts, NEW c \in Consoles, Identity!ApplyManagePush(h, c)
        PROVE  IdentityInv'
    BY <1>7, ApplyManagePushKeeps
  <1>8. CASE Identity!ResetToDefaults
    BY <1>8, ResetToDefaultsKeeps
  <1>9. ASSUME NEW b \in BOOLEAN, Identity!SoundLedSettings(b)
        PROVE  IdentityInv'
    BY <1>9, SoundLedSettingsKeeps
  <1>10. CASE Identity!Probe \/ Identity!Answer \/ Identity!Blink
    BY <1>10, ShowingKeeps DEF Identity!Probe, Identity!Answer, Identity!Blink
  <1>11. CASE UNCHANGED identityVars
    BY <1>11, ShowingKeeps DEF identityVars
  <1>12. Identity!Goroutines = Tasks
    BY DEF Identity!Goroutines, Tasks
  <1>13. QED
    BY <1>1, <1>2, <1>3, <1>4, <1>5, <1>6, <1>7, <1>8, <1>9, <1>10, <1>11, <1>12 DEF Identity!Next

\* Nothing is left to do, so memory and files are as meant.
LEMMA IdentityInvConsistent ==
  ASSUME IdentityInv
  PROVE  IdentityConsistent
  <1> SUFFICES ASSUME Identity!Quiet
               PROVE  /\ Identity!Sure({"adopted", "uuid"}) =>
                           /\ Identity!Announced(meant) = Identity!Announced(mem)
                           /\ Identity!Announced(mem) = Identity!Announced(Identity!Loaded(disk))
                      /\ Identity!Sure({"host"}) /\ cfgHost = None =>
                           mem.host = meant.host /\ Identity!Loaded(disk).host = meant.host
                      /\ Identity!Sure({"pair"}) /\ meant.adopted =>
                           Identity!Holds(disk, "cert") /\ disk.cert = disk.key
    BY DEF IdentityConsistent, Identity!IdentityConsistent
  <1>1. up /\ todo = [h \in Tasks |-> <<>>]
    BY DEF Identity!Quiet, Identity!Serving, Identity!Idle, Identity!Goroutines, Tasks
  <1>2. (\A h \in Tasks : todo[h] = <<>>) /\ todo.main = <<>> /\ todo.reset = <<>>
    BY <1>1 DEF Tasks
  <1>3. \A d, f : ~Left(d, f)
    BY <1>2, EmptyProgram DEF Left
  <1>4. \A what : Identity!Sure(what) => "overlap" \notin spoiled /\ \A f \in what : f \notin spoiled
    BY DEF Identity!Sure
  <1>5. IdentityShape
    BY DEF IdentityInv
  <1>6. ASSUME NEW f \in Fields, "overlap" \notin spoiled, f \notin spoiled
        PROVE  /\ Counts(f) => mem[f] = meant[f]
               /\ (f = "host" => cfgHost = None) => Identity!Loaded(disk)[f] = meant[f]
    BY <1>1, <1>3, <1>6 DEF IdentityInv, MemoryAs, DiskAs, FileLeft
  <1>7. "adopted" \in Fields /\ "uuid" \in Fields /\ "host" \in Fields
    BY DEF Fields
  <1>8. ASSUME Identity!Sure({"adopted", "uuid"})
        PROVE  /\ Identity!Announced(meant) = Identity!Announced(mem)
               /\ Identity!Announced(mem) = Identity!Announced(Identity!Loaded(disk))
    <2>1. /\ "overlap" \notin spoiled /\ "adopted" \notin spoiled /\ "uuid" \notin spoiled
      BY <1>4, <1>8
    <2>2. mem.adopted = meant.adopted /\ Identity!Loaded(disk).adopted = meant.adopted
      BY <1>6, <1>7, <2>1 DEF Counts
    <2>3. /\ meant.uuid # Own => mem.uuid = meant.uuid
          /\ Identity!Loaded(disk).uuid = meant.uuid
      BY <1>6, <1>7, <2>1 DEF Counts
    <2>4. meant.adopted => meant.uuid # Own
      BY <1>5 DEF IdentityShape
    <2>5. QED BY <2>2, <2>3, <2>4 DEF Identity!Announced
  <1>9. ASSUME Identity!Sure({"host"}), cfgHost = None
        PROVE  mem.host = meant.host /\ Identity!Loaded(disk).host = meant.host
    <2>1. "overlap" \notin spoiled /\ "host" \notin spoiled
      BY <1>4, <1>9
    <2>2. QED BY <1>6, <1>7, <1>9, <2>1 DEF Counts
  <1>10. ASSUME Identity!Sure({"pair"})
         PROVE  Identity!Holds(disk, "cert") /\ disk.cert = disk.key
    <2>1. "overlap" \notin spoiled /\ "pair" \notin spoiled
      BY <1>4, <1>10
    <2>2. PairAs /\ ~On(todo.main, "key")
      BY <1>2, <2>1, EmptyProgram DEF IdentityInv
    <2>3. Whole
      BY <1>1, <1>2, <2>1, <2>2 DEF PairAs
    <2>4. QED BY <2>3 DEF Whole, Identity!Holds
  <1>11. QED BY <1>8, <1>9, <1>10

----------------------------------------------------------------------------
(* Upkeep runs one of its parts at a time. *)

LEMMA PartInit ==
  UpkeepInit => Init /\ Supervisor!Init /\ Identity!Init /\ Credentials!Init
  BY DEF UpkeepInit

\* A step of Upkeep is, for each part, a step of it or leaves it alone.
LEMMA PartStep ==
  ASSUME [UpkeepNext]_upkeepVars
  PROVE  /\ [Next]_vars
         /\ [Supervisor!Next]_supervisorVars
         /\ [Identity!Next]_identityVars
         /\ [Credentials!Next]_credentialVars
  BY DEF UpkeepNext, upkeepVars, LockStep, SupervisorStep, LadderStep

\* watchdog.sh, lock_take: two shells never work on the services at once, for any
\* number of shells that take the lock any number of times, whichever of them are
\* killed and whichever writes fail, until one removes another file than it has
\* read, or one it read empty before its creator wrote to it.
THEOREM MutualExclusionHolds == UpkeepSpec => []MutualExclusion
  <1>1. UpkeepInit => LockInv
    BY PartInit, LockInit
  <1>2. LockInv /\ [UpkeepNext]_upkeepVars => LockInv'
    BY PartStep, LockNext
  <1>3. QED BY <1>1, <1>2, LockExclusive, PTL DEF UpkeepSpec

\* watchdog.sh, init.sh: one supervisor loop at most, for any number of shells
\* that start, stall, resume, die and replace one another, until a start by hand
\* meets another one over an old pid file.
THEOREM OneSupervisorHolds == UpkeepSpec => []OneSupervisor
  <1>1. UpkeepInit => SupInv
    BY PartInit, SupInit
  <1>2. SupInv /\ [UpkeepNext]_upkeepVars => SupInv'
    BY PartStep, SupNext
  <1>3. QED BY <1>1, <1>2, SupOne, PTL DEF UpkeepSpec

\* ssh_credential.go, ssh-accounts.sh: the card never holds part of a credential,
\* and once the script has run to its end the live one is the one on the card,
\* through killed clients and scripts, failed file operations and power cuts.
THEOREM CredentialWholeHolds == UpkeepSpec => []CredentialWhole
  <1>1. UpkeepInit => CredentialInv
    BY PartInit, CredentialInit
  <1>2. CredentialInv /\ [UpkeepNext]_upkeepVars => CredentialInv'
    BY PartStep, CredentialNext
  <1>3. CredentialInv => CredentialWhole
    BY DEF CredentialInv
  <1>4. QED BY <1>1, <1>2, <1>3, PTL DEF UpkeepSpec

\* main.go: once nothing is in hand the camera announces what the controllers last
\* told it, and would announce the same after a restart, and its certificate pair
\* is whole, for any consoles and hosts, through any sequence of hellos, agreements,
\* pushes, resets, restarts, failed writes and power cuts, but for what a fault or
\* two messages at once have put in doubt.
THEOREM IdentityConsistentHolds == UpkeepSpec => []IdentityConsistent
  <1>1. UpkeepInit => IdentityInv
    BY PartInit, IdentityInit
  <1>2. IdentityInv /\ [UpkeepNext]_upkeepVars => IdentityInv'
    BY PartStep, IdentityNext
  <1>3. QED BY <1>1, <1>2, IdentityInvConsistent, PTL DEF UpkeepSpec

----------------------------------------------------------------------------
(* Type correctness of all parts. *)

\* What is yet to be done to a variable or a file puts a value of its type there.
IdentityOps ==
    {o \in Ops :
        /\ o.do = "mem" /\ o.what = "adopted" => o.val \in BOOLEAN
        /\ o.do = "mem" /\ o.what = "uuid" => o.val \in Consoles \cup {None}
        /\ o.do = "mem" /\ o.what = "host" => o.val \in Hosts
        /\ o.do = "remove" => o.val = None
        /\ o.do = "put" /\ o.what = "uuid" => o.val \in Consoles
        /\ o.do = "put" /\ o.what = "device" => o.val = Own
        /\ o.do = "put" /\ o.what = "host" => o.val \in Hosts}

Memories == [adopted : BOOLEAN, uuid : Consoles \cup {Own, None}, host : Hosts \cup {Default}]

IdentityTypes ==
    /\ up \in BOOLEAN
    /\ mem \in Memories
    /\ disk = [f \in Paths |-> disk[f]]
    /\ disk["uuid"] \in Consoles \cup {Own, Empty, None} /\ disk["device"] \in {Own, Empty, None}
    /\ disk["host"] \in Hosts \cup {Empty, None}
    /\ cfgHost \in Hosts \cup {None}
    /\ reply \in {None, "adopted", "adoptable"}
    /\ todo = [g \in Tasks |-> todo[g]] /\ \A g \in Tasks : todo[g] \in Seq(IdentityOps)

\* The operations there are.
LEMMA TypedOps ==
  /\ \A w \in {"cert", "key", "device", "uuid", "adopted", "host"} :
        Identity!Op("open", w, None) \in IdentityOps /\ Identity!Op("remove", w, None) \in IdentityOps
  /\ \A b \in BOOLEAN : /\ Identity!Op("mem", "adopted", b) \in IdentityOps
                        /\ Identity!Op("put", "adopted", b) \in IdentityOps
  /\ \A c \in Consoles : /\ Identity!Op("mem", "uuid", c) \in IdentityOps
                         /\ Identity!Op("put", "uuid", c) \in IdentityOps
  /\ \A h \in Hosts : /\ Identity!Op("mem", "host", h) \in IdentityOps
                      /\ Identity!Op("put", "host", h) \in IdentityOps
  /\ \A n \in 1..2 : /\ Identity!Op("put", "cert", n) \in IdentityOps
                     /\ Identity!Op("put", "key", n) \in IdentityOps
  /\ Identity!Op("put", "device", Own) \in IdentityOps
  /\ Identity!Op("mem", "uuid", None) \in IdentityOps
  /\ Identity!Op("reboot", "power", None) \in IdentityOps
  BY DEF IdentityOps, Ops, Does, Paths, Values, Identity!Op

\* The programs there are.
LEMMA TypedPrograms ==
  /\ \A b \in BOOLEAN : Identity!SetAdopted(b) \in Seq(IdentityOps)
  /\ \A c \in Consoles : Identity!SetUUID(c) \in Seq(IdentityOps)
  /\ \A h \in Hosts, c \in Consoles :
        Identity!Mem("host", h) \o Identity!WriteFile("host", h) \o Identity!SetUUID(c) \in Seq(IdentityOps)
  /\ Identity!DeleteIdentity \in Seq(IdentityOps)
  /\ Identity!EnsureCertKey(disk) \o Identity!EnsureDevice(disk) \in Seq(IdentityOps)
  /\ <<>> \in Seq(IdentityOps)
  <1>1. \A a, b \in Seq(IdentityOps) : a \o b \in Seq(IdentityOps)
    BY ConcatProperties
  <1>2. \A o \in IdentityOps : <<o>> \in Seq(IdentityOps)
    OBVIOUS
  <1>3. \A o, p \in IdentityOps : <<o, p>> \in Seq(IdentityOps)
    OBVIOUS
  <1>4. <<>> \in Seq(IdentityOps)
    OBVIOUS
  <1>5. ASSUME NEW b \in BOOLEAN
        PROVE  Identity!SetAdopted(b) \in Seq(IdentityOps)
    BY <1>1, <1>2, <1>3, TypedOps DEF Identity!SetAdopted, Identity!Mem, Identity!WriteFile
  <1>6. ASSUME NEW c \in Consoles
        PROVE  Identity!SetUUID(c) \in Seq(IdentityOps)
    BY <1>1, <1>2, <1>3, TypedOps DEF Identity!SetUUID, Identity!Mem, Identity!WriteFile
  <1>7. ASSUME NEW h \in Hosts, NEW c \in Consoles
        PROVE  Identity!Mem("host", h) \o Identity!WriteFile("host", h) \o Identity!SetUUID(c) \in Seq(IdentityOps)
    <2>1. Identity!Mem("host", h) \in Seq(IdentityOps) /\ Identity!WriteFile("host", h) \in Seq(IdentityOps)
      BY <1>2, <1>3, TypedOps DEF Identity!Mem, Identity!WriteFile
    <2>2. QED BY <1>1, <1>6, <2>1
  <1>8. Identity!DeleteIdentity \in Seq(IdentityOps)
    <2>1. \A w \in {"cert", "key", "device", "uuid"} : Identity!Unlink(w) \in Seq(IdentityOps)
      BY <1>2, TypedOps DEF Identity!Unlink
    <2>2. /\ Identity!Mem("uuid", None) \in Seq(IdentityOps)
          /\ <<Identity!Op("reboot", "power", None)>> \in Seq(IdentityOps)
          /\ Identity!SetAdopted(FALSE) \in Seq(IdentityOps)
      BY <1>2, <1>5, TypedOps DEF Identity!Mem
    <2>3. QED BY <1>1, <2>1, <2>2 DEF Identity!DeleteIdentity
  <1>9. Identity!EnsureCertKey(disk) \in Seq(IdentityOps)
    <2> DEFINE n == CHOOSE k \in 1..2 : k \notin {disk.cert, disk.key}
    <2>1. CASE disk.cert # None /\ disk.key # None
      BY <1>4, <2>1 DEF Identity!EnsureCertKey
    <2>2. CASE ~(disk.cert # None /\ disk.key # None)
      <3>1. \E k \in 1..2 : k \notin {disk.cert, disk.key}
        <4>1. None \notin 1..2
          BY IdentityAssumption
        <4>2. 1 \in 1..2 /\ 2 \in 1..2 /\ 1 # 2
          OBVIOUS
        <4>3. QED BY <2>2, <4>1, <4>2
      <3>2. n \in 1..2
        BY <3>1
      <3>3. Identity!EnsureCertKey(disk) = Identity!WriteFile("cert", n) \o Identity!WriteFile("key", n)
        BY <2>2 DEF Identity!EnsureCertKey
      <3> HIDE DEF n
      <3>4. Identity!WriteFile("cert", n) \in Seq(IdentityOps) /\ Identity!WriteFile("key", n) \in Seq(IdentityOps)
        BY <1>3, <3>2, TypedOps DEF Identity!WriteFile
      <3>5. QED BY <1>1, <3>3, <3>4
    <2>3. QED BY <2>1, <2>2
  <1>10. Identity!EnsureDevice(disk) \in Seq(IdentityOps)
    BY <1>3, <1>4, TypedOps DEF Identity!EnsureDevice, Identity!WriteFile
  <1>11. Identity!EnsureCertKey(disk) \o Identity!EnsureDevice(disk) \in Seq(IdentityOps)
    BY <1>1, <1>9, <1>10
  <1>12. QED BY <1>4, <1>5, <1>6, <1>7, <1>8, <1>11

\* The first operation of a goroutine, and those after it.
LEMMA TypedFirst ==
  ASSUME NEW l \in Seq(IdentityOps), l # <<>>
  PROVE  /\ Head(l) \in IdentityOps /\ Tail(l) \in Seq(IdentityOps)
         /\ <<Identity!Last(l)>> \in Seq(IdentityOps)
         /\ \A n \in {2, 3} : SubSeq(l, n, Len(l)) \in Seq(IdentityOps)
  <1>1. Head(l) \in IdentityOps /\ Tail(l) \in Seq(IdentityOps)
    OBVIOUS
  <1>2. Len(l) \in Nat /\ Len(l) \in 1..Len(l)
    OBVIOUS
  <1>3. Identity!Last(l) \in IdentityOps
    BY <1>2 DEF Identity!Last
  <1>4. \A n \in {2, 3} : SubSeq(l, n, Len(l)) \in Seq(IdentityOps)
    BY <1>2, SubSeqProperties
  <1>5. QED BY <1>1, <1>3, <1>4

\* What a goroutine has left to do is replaced.
LEMMA TypedTodo ==
  ASSUME IdentityTypes, NEW g \in Tasks, NEW k \in Seq(IdentityOps), todo' = [todo EXCEPT ![g] = k]
  PROVE  todo' = [h \in Tasks |-> todo'[h]] /\ \A h \in Tasks : todo'[h] \in Seq(IdentityOps)
  BY DEF IdentityTypes

\* What main() loads is of its type.
LEMMA TypedLoad ==
  ASSUME IdentityTypes
  PROVE  Identity!Loaded(disk) \in Memories
  <1> DEFINE a == disk.adopted = TRUE
             u == IF disk.uuid \notin {None, Empty} THEN disk.uuid ELSE Own
             h == CASE cfgHost # None -> cfgHost
                    [] cfgHost = None /\ disk.host \notin {None, Empty} -> disk.host
                    [] OTHER -> Default
  <1>1. Identity!Loaded(disk) = [adopted |-> a, uuid |-> u, host |-> h]
    BY DEF Identity!Loaded, Identity!Holds
  <1>2. a \in BOOLEAN
    OBVIOUS
  <1>3. u \in Consoles \cup {Own, None}
    BY DEF IdentityTypes
  <1>4. h \in Hosts \cup {Default}
    <2>1. cfgHost # None => h = cfgHost
      BY Zenon
    <2>2. cfgHost = None /\ disk.host \notin {None, Empty} => h = disk.host
      BY Zenon
    <2>3. cfgHost = None /\ disk.host \in {None, Empty} => h = Default
      BY Zenon
    <2>4. disk.host \in Hosts \cup {None, Empty} /\ cfgHost \in Hosts \cup {None}
      BY DEF IdentityTypes
    <2> HIDE DEF h
    <2>5. QED BY <2>1, <2>2, <2>3, <2>4
  <1> HIDE DEF a, u, h
  <1>5. QED BY <1>1, <1>2, <1>3, <1>4 DEF Memories

LEMMA IdentityTypesInit ==
  ASSUME Identity!Init
  PROVE  IdentityTypes
  <1>1. /\ up = FALSE /\ cfgHost \in Hosts \cup {None} /\ reply = None
        /\ mem = [adopted |-> FALSE, uuid |-> None, host |-> Default]
    BY DEF Identity!Init
  <1>2. todo = [g \in Tasks |-> <<>>]
    BY DEF Identity!Init, Identity!Idle, Identity!Goroutines, Tasks
  <1>3. todo = [g \in Tasks |-> todo[g]] /\ \A g \in Tasks : todo[g] \in Seq(IdentityOps)
    BY <1>2
  <1>4. PICK c \in Consoles : disk = Identity!Factory \/ disk = Identity!AdoptedBy(c)
    BY DEF Identity!Init
  <1>5. /\ disk = [f \in Paths |-> disk[f]]
        /\ disk["uuid"] \in {c, None} /\ disk["device"] \in {Own, None} /\ disk["host"] = None
    <2>1. CASE disk = Identity!Factory
      BY <2>1 DEF Identity!Factory, Identity!Files, Paths
    <2>2. CASE disk = Identity!AdoptedBy(c)
      <3>1. disk = [cert |-> 0, key |-> 0, device |-> Own, uuid |-> c, adopted |-> TRUE, host |-> None]
        BY <2>2 DEF Identity!AdoptedBy
      <3>2. /\ disk["uuid"] = c /\ disk["host"] = None /\ disk["device"] = Own
            /\ disk = [f \in {"cert", "key", "device", "uuid", "adopted", "host"} |-> disk[f]]
        BY <3>1
      <3>3. QED BY <3>2 DEF Paths
    <2>3. QED BY <1>4, <2>1, <2>2
  <1>6. mem \in Memories
    BY <1>1 DEF Memories
  <1>7. QED BY <1>1, <1>3, <1>5, <1>6 DEF IdentityTypes

\* A message's program, or nothing, is what the main goroutine does next.
LEMMA TypedHandle ==
  ASSUME IdentityTypes, NEW ops \in Seq(IdentityOps), Identity!Handle(ops)
  PROVE  IdentityTypes'
  <1>1. todo' = [todo EXCEPT !["main"] = ops] /\ UNCHANGED <<up, mem, disk, cfgHost, reply>>
    BY DEF Identity!Handle
  <1>2. "main" \in Tasks
    BY DEF Tasks
  <1>3. QED BY <1>1, <1>2, TypedTodo DEF IdentityTypes

\* The process stops and has nothing left to do.
LEMMA TypedStop ==
  ASSUME IdentityTypes, Identity!Stop, UNCHANGED <<mem, disk, cfgHost, reply>>
  PROVE  IdentityTypes'
  <1>1. up' = FALSE /\ todo' = [g \in Tasks |-> <<>>]
    BY DEF Identity!Stop, Identity!Goroutines, Tasks
  <1>2. todo' = [g \in Tasks |-> todo'[g]] /\ \A g \in Tasks : todo'[g] \in Seq(IdentityOps)
    BY <1>1
  <1>3. QED BY <1>1, <1>2 DEF IdentityTypes

LEMMA TypedOperation ==
  ASSUME IdentityTypes, NEW g \in Tasks,
         Identity!SetMemory(g) \/ Identity!TouchFile(g) \/ Identity!OperationFails(g)
  PROVE  IdentityTypes'
  <1> DEFINE oo == Head(todo[g])
  <1>1. todo[g] # <<>> /\ todo[g] \in Seq(IdentityOps)
    BY DEF Identity!SetMemory, Identity!TouchFile, Identity!OperationFails, Identity!Next1, IdentityTypes
  <1>2. /\ oo \in IdentityOps /\ Tail(todo[g]) \in Seq(IdentityOps)
        /\ <<Identity!Last(todo[g])>> \in Seq(IdentityOps)
        /\ SubSeq(todo[g], 2, Len(todo[g])) \in Seq(IdentityOps)
        /\ SubSeq(todo[g], 3, Len(todo[g])) \in Seq(IdentityOps)
    BY <1>1, TypedFirst
  <1>3. CASE Identity!SetMemory(g)
    <2>1. /\ oo.do = "mem" /\ mem' = [mem EXCEPT ![oo.what] = oo.val]
          /\ todo' = [todo EXCEPT ![g] = Tail(todo[g])]
          /\ UNCHANGED <<up, disk, cfgHost, reply>>
      BY <1>3 DEF Identity!SetMemory, Identity!First, Identity!Pop
    <2>2. todo' = [h \in Tasks |-> todo'[h]] /\ \A h \in Tasks : todo'[h] \in Seq(IdentityOps)
      BY <1>2, <2>1, TypedTodo
    <2> HIDE DEF oo
    <2>3. /\ oo.what = "adopted" => oo.val \in BOOLEAN
          /\ oo.what = "uuid" => oo.val \in Consoles \cup {None}
          /\ oo.what = "host" => oo.val \in Hosts
      BY <1>2, <2>1 DEF IdentityOps
    <2>4. mem' \in Memories
      BY <2>1, <2>3 DEF IdentityTypes, Memories
    <2>5. QED BY <2>1, <2>2, <2>4 DEF IdentityTypes
  <1>4. CASE Identity!TouchFile(g)
    <2> DEFINE val == IF oo.do = "open" THEN Empty ELSE oo.val
    <2>1. /\ oo.do \in {"open", "put", "remove"} /\ disk' = [disk EXCEPT ![oo.what] = val]
          /\ todo' = [todo EXCEPT ![g] = Tail(todo[g])]
          /\ UNCHANGED <<up, mem, cfgHost, reply>>
      BY <1>4 DEF Identity!TouchFile, Identity!First, Identity!Pop
    <2>2. todo' = [h \in Tasks |-> todo'[h]] /\ \A h \in Tasks : todo'[h] \in Seq(IdentityOps)
      BY <1>2, <2>1, TypedTodo
    <2> HIDE DEF oo
    <2>3. /\ oo.what = "uuid" => val \in Consoles \cup {Own, Empty, None}
          /\ oo.what = "device" => val \in {Own, Empty, None}
          /\ oo.what = "host" => val \in Hosts \cup {Empty, None}
      BY <1>2, <2>1 DEF IdentityOps
    <2> HIDE DEF val
    <2>4. /\ disk' = [f \in Paths |-> disk'[f]]
          /\ \A f \in Paths : disk'[f] = IF f = oo.what THEN val ELSE disk[f]
      BY <2>1 DEF IdentityTypes
    <2>5. "uuid" \in Paths /\ "device" \in Paths /\ "host" \in Paths
      BY DEF Paths
    <2>6. /\ disk'["uuid"] \in Consoles \cup {Own, Empty, None} /\ disk'["device"] \in {Own, Empty, None}
          /\ disk'["host"] \in Hosts \cup {Empty, None}
      BY <2>3, <2>4, <2>5 DEF IdentityTypes
    <2>7. QED BY <2>1, <2>2, <2>4, <2>6 DEF IdentityTypes
  <1>5. CASE Identity!OperationFails(g) /\ Identity!Stop
    BY <1>5, TypedStop DEF Identity!OperationFails
  <1>6. CASE Identity!OperationFails(g) /\ ~Identity!Stop
    <2>1. /\ UNCHANGED <<up, mem, disk, cfgHost, reply>>
          /\ \/ todo' = [todo EXCEPT ![g] = <<Identity!Last(todo[g])>>]
             \/ todo' = [todo EXCEPT ![g] = SubSeq(todo[g], 2, Len(todo[g]))]
             \/ todo' = [todo EXCEPT ![g] = SubSeq(todo[g], 3, Len(todo[g]))]
      BY <1>6 DEF Identity!OperationFails
    <2>2. todo' = [h \in Tasks |-> todo'[h]] /\ \A h \in Tasks : todo'[h] \in Seq(IdentityOps)
      BY <1>2, <2>1, TypedTodo
    <2>3. QED BY <2>1, <2>2 DEF IdentityTypes
  <1>7. QED BY <1>3, <1>4, <1>5, <1>6

LEMMA IdentityTypesNext ==
  ASSUME IdentityTypes, [Identity!Next]_identityVars
  PROVE  IdentityTypes'
  <1>1. "main" \in Tasks /\ "reset" \in Tasks /\ Identity!Goroutines = Tasks
    BY DEF Tasks, Identity!Goroutines
  <1>2. CASE Identity!Boot
    <2>1. /\ up' = TRUE /\ mem' = Identity!Loaded(disk) /\ reply' = None /\ UNCHANGED <<disk, cfgHost>>
          /\ todo' = [todo EXCEPT !["main"] = Identity!EnsureCertKey(disk) \o Identity!EnsureDevice(disk)]
      BY <1>2 DEF Identity!Boot
    <2>2. todo' = [h \in Tasks |-> todo'[h]] /\ \A h \in Tasks : todo'[h] \in Seq(IdentityOps)
      BY <1>1, <2>1, TypedPrograms, TypedTodo
    <2>3. mem' \in Memories
      BY <2>1, TypedLoad
    <2>4. QED BY <2>1, <2>2, <2>3 DEF IdentityTypes
  <1>3. CASE Identity!Crash
    BY <1>3, TypedStop DEF Identity!Crash
  <1>4. CASE Identity!Reboot
    <2>1. UNCHANGED <<mem, disk, cfgHost, reply>> /\ todo["reset"] # <<>>
          /\ (Identity!Stop \/ (up' = up /\ todo' = [todo EXCEPT !["reset"] = Tail(todo["reset"])]))
      BY <1>4 DEF Identity!Reboot, Identity!Next1, Identity!Pop
    <2>2. CASE Identity!Stop
      BY <2>1, <2>2, TypedStop
    <2>3. CASE up' = up /\ todo' = [todo EXCEPT !["reset"] = Tail(todo["reset"])]
      <3>1. Tail(todo["reset"]) \in Seq(IdentityOps)
        BY <1>1, <2>1, TypedFirst DEF IdentityTypes
      <3>2. todo' = [h \in Tasks |-> todo'[h]] /\ \A h \in Tasks : todo'[h] \in Seq(IdentityOps)
        BY <1>1, <2>3, <3>1, TypedTodo
      <3>3. QED BY <2>1, <2>3, <3>2 DEF IdentityTypes
    <2>4. QED BY <2>1, <2>2, <2>3
  <1>5. ASSUME NEW c \in Consoles, Identity!Hello(c)
        PROVE  IdentityTypes'
    BY <1>5, TypedHandle, TypedPrograms DEF Identity!Hello
  <1>6. CASE Identity!ParamAgreement
    BY <1>6, TypedHandle, TypedPrograms DEF Identity!ParamAgreement
  <1>7. ASSUME NEW h \in Hosts, NEW c \in Consoles, Identity!ApplyManagePush(h, c)
        PROVE  IdentityTypes'
    BY <1>7, TypedHandle, TypedPrograms DEF Identity!ApplyManagePush
  <1>8. ASSUME NEW b \in BOOLEAN, Identity!SoundLedSettings(b)
        PROVE  IdentityTypes'
    BY <1>8, TypedHandle, TypedPrograms DEF Identity!SoundLedSettings
  <1>9. CASE Identity!ResetToDefaults
    <2>1. /\ todo' = [todo EXCEPT !["reset"] = Identity!DeleteIdentity]
          /\ UNCHANGED <<up, mem, disk, cfgHost, reply>>
      BY <1>9 DEF Identity!ResetToDefaults
    <2>2. todo' = [h \in Tasks |-> todo'[h]] /\ \A h \in Tasks : todo'[h] \in Seq(IdentityOps)
      BY <1>1, <2>1, TypedPrograms, TypedTodo
    <2>3. QED BY <2>1, <2>2 DEF IdentityTypes
  <1>10. CASE Identity!Probe \/ Identity!Answer \/ Identity!Blink \/ UNCHANGED identityVars
    <2>1. UNCHANGED <<up, mem, disk, cfgHost, todo>> /\ reply' \in {None, "adopted", "adoptable", reply}
      BY <1>10 DEF Identity!Probe, Identity!Answer, Identity!Blink, identityVars
    <2>2. QED BY <2>1 DEF IdentityTypes
  <1>11. QED
    BY <1>1, <1>2, <1>3, <1>4, <1>5, <1>6, <1>7, <1>8, <1>9, <1>10, TypedOperation DEF Identity!Next

LEMMA IdentityTypesHold ==
  ASSUME IdentityTypes
  PROVE  Identity!TypeOK
  <1>1. disk.uuid = disk["uuid"] /\ disk.device = disk["device"] /\ DOMAIN disk = Identity!Files
    BY DEF IdentityTypes, Paths, Identity!Files
  <1>2. \A f \in {"uuid", "device"} : disk[f] \in Consoles \cup {Own, Empty, None}
    BY DEF IdentityTypes
  <1>3. ASSUME NEW g \in Identity!Goroutines, NEW i \in DOMAIN todo[g]
        PROVE  todo[g][i].do \in Does
    <2>1. todo[g] \in Seq(IdentityOps)
      BY DEF IdentityTypes, Identity!Goroutines, Tasks
    <2>2. todo[g][i] \in IdentityOps
      BY <2>1
    <2>3. QED BY <2>2 DEF IdentityOps, Ops
  <1>4. QED BY <1>1, <1>2, <1>3 DEF Identity!TypeOK, IdentityTypes, Memories, Does

\* The ladder's counters.
LadderTypes == Ladder!TypeOK

LEMMA LadderLonger ==
  ASSUME LadderTypes
  PROVE  Ladder!Longer(since) \in 0..Ladder!NotSeen /\ Ladder!Longer(ran) \in 0..Ladder!NotSeen
  <1>1. ASSUME NEW n \in 0..Ladder!NotSeen
        PROVE  Ladder!Longer(n) \in 0..Ladder!NotSeen
    <2>1. Ladder!NotSeen # ClearAfter
      BY LadderAssumption DEF Ladder!NotSeen
    <2>2. Ladder!Longer(n) = IF n = Ladder!NotSeen THEN 0 ELSE IF n = ClearAfter THEN n ELSE n + 1
      <3>1. CASE n = Ladder!NotSeen
        BY <2>1, <3>1, Zenon DEF Ladder!Longer
      <3>2. CASE n # Ladder!NotSeen /\ n = ClearAfter
        BY <3>2, Zenon DEF Ladder!Longer
      <3>3. CASE n # Ladder!NotSeen /\ n # ClearAfter
        BY <3>3, Zenon DEF Ladder!Longer
      <3>4. QED BY <3>1, <3>2, <3>3
    <2>3. QED BY <2>2, LadderAssumption DEF Ladder!NotSeen
  <1>2. QED BY <1>1 DEF LadderTypes, Ladder!TypeOK

LEMMA LadderNext ==
  ASSUME LadderTypes, [Ladder!Next]_ladderVars
  PROVE  LadderTypes'
  <1> USE LadderAssumption DEF LadderTypes, Ladder!TypeOK
  <1>1. Ladder!NotSeen \in 0..Ladder!NotSeen /\ 0 \in 0..(Strikes - 1) /\ 0 \in 0..Tries
    BY DEF Ladder!NotSeen
  <1>2. CASE Ladder!Found
    BY <1>1, <1>2, LadderLonger DEF Ladder!Found
  <1>3. CASE Ladder!Strike
    BY <1>1, <1>3 DEF Ladder!Strike
  <1>4. CASE Ladder!RestartMediad
    BY <1>1, <1>4 DEF Ladder!RestartMediad
  <1>5. CASE Ladder!Reboot \/ UNCHANGED ladderVars
    BY <1>5 DEF Ladder!Reboot, ladderVars
  <1>6. CASE Ladder!EncoderDies \/ Ladder!EncoderComes \/ Ladder!Relaunch
    BY <1>1, <1>6 DEF Ladder!EncoderDies, Ladder!EncoderComes, Ladder!Relaunch
  <1>7. QED BY <1>2, <1>3, <1>4, <1>5, <1>6 DEF Ladder!Next, Ladder!Pass

LEMMA LadderInit ==
  Ladder!Init => LadderTypes
  BY LadderAssumption DEF Ladder!Init, LadderTypes, Ladder!TypeOK, Ladder!NotSeen

\* Every variable of the lock, the supervisor, the ladder, the identity and the
\* credential holds a value the code can put there, for any shells, consoles, hosts
\* and credentials and any length of the ladder; a message that is handled while the
\* identity is being deleted makes no difference to that.
THEOREM UpkeepTypeCorrect == UpkeepSpec => []UpkeepTypeOK
  <1> DEFINE Inv == LockInv /\ SupInv /\ CredentialInv /\ IdentityTypes /\ LadderTypes
  <1>1. UpkeepInit => Inv
    BY PartInit, LockInit, SupInit, CredentialInit, IdentityTypesInit, LadderInit DEF UpkeepInit
  <1>2. Inv /\ [UpkeepNext]_upkeepVars => Inv'
    <2>1. [UpkeepNext]_upkeepVars => [Ladder!Next]_ladderVars
      BY DEF UpkeepNext, upkeepVars, LockStep, SupervisorStep, LadderStep
    <2>2. QED BY <2>1, PartStep, LockNext, SupNext, CredentialNext, IdentityTypesNext, LadderNext
  <1>3. Inv => UpkeepTypeOK
    <2>1. LockInv => TypeOK
      BY DEF LockInv
    <2>2. SupInv => Supervisor!TypeOK
      BY DEF SupInv, SupType, Supervisor!TypeOK, Supervisor!Alive
    <2>3. CredentialInv => Credentials!TypeOK
      BY DEF CredentialInv
    <2>4. QED BY <2>1, <2>2, <2>3, IdentityTypesHold DEF UpkeepTypeOK, LadderTypes
  <1> HIDE DEF Inv
  <1>4. QED BY <1>1, <1>2, <1>3, PTL DEF UpkeepSpec
=============================================================================
