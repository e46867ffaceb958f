------------------------------- MODULE Ladder -------------------------------
(***************************************************************************)
(* How the supervisor deals with an encoder that is missing: strikes,      *)
(* restarts of mediad, and the reboot (src/sd_root/yi-protect/script/      *)
(* watchdog.sh).  The unit of time is a pass.  mediad.sh is not in the     *)
(* repository: its restart either brings mediad up or does not.            *)
(***************************************************************************)
EXTENDS Naturals

CONSTANTS
    Strikes,        \* passes without the encoder before something is done, 5
    Tries,          \* restarts of mediad before the reboot, 3
    ClearAfter,     \* passes in ten minutes
    MaxRelaunches,  \* bound: supervisors that die and are replaced
    MaxRevivals     \* bound: encoders that are started by something else

VARIABLES
    kind,           \* $ENCODER: "mediad", "rmm"
    running,        \* the encoder runs
    ran,            \* passes this run of it has been seen for, up to ClearAfter
    fails,          \* RMM_FAILS
    restarts,       \* MEDIAD_RESTARTS
    since,          \* passes since MEDIAD_ALIVE_SINCE, up to ClearAfter; NotSeen if that is 0
    rebooting,      \* /sbin/reboot has been run
    ladLeft         \* what remains of the bounds

ladderVars == <<kind, running, ran, fails, restarts, since, rebooting, ladLeft>>

NotSeen == ClearAfter + 1
Longer(n) == CASE n = NotSeen -> 0 [] n = ClearAfter -> n [] OTHER -> n + 1

Init ==
    /\ kind \in {"mediad", "rmm"}
    /\ running \in BOOLEAN /\ ran = NotSeen
    /\ fails = 0 /\ restarts = 0 /\ since = NotSeen
    /\ rebooting = FALSE
    /\ ladLeft = [relaunches |-> MaxRelaunches, revivals |-> MaxRevivals]

\* Wrong on purpose: an encoder that is up at this pass is taken to be healthy.
MutClears(seen) == TRUE

\* Ten minutes have passed since mediad was first seen up.
Clears(seen) == seen = ClearAfter

\* A pass that finds the encoder.
Found ==
    /\ running
    /\ ran' = Longer(ran)
    /\ fails' = 0
    /\ IF kind = "mediad"
       THEN /\ since' = Longer(since)
            /\ restarts' = IF Clears(Longer(since)) THEN 0 ELSE restarts
       ELSE UNCHANGED <<since, restarts>>
    /\ UNCHANGED <<kind, running, rebooting, ladLeft>>

\* A pass that misses it, before the last strike.
Strike ==
    /\ ~running /\ fails + 1 < Strikes
    /\ fails' = fails + 1
    /\ since' = NotSeen
    /\ UNCHANGED <<kind, running, ran, restarts, rebooting, ladLeft>>

\* The last strike restarts mediad, and whether it came up is seen at later passes.
RestartMediad ==
    /\ ~running /\ fails + 1 >= Strikes
    /\ kind = "mediad" /\ restarts < Tries
    /\ restarts' = restarts + 1
    /\ fails' = 0
    /\ since' = NotSeen
    /\ running' \in BOOLEAN /\ ran' = NotSeen
    /\ UNCHANGED <<kind, rebooting, ladLeft>>

\* Nothing is left but the reboot.
Reboot ==
    /\ ~running /\ fails + 1 >= Strikes
    /\ kind = "rmm" \/ restarts >= Tries
    /\ rebooting' = TRUE
    /\ UNCHANGED <<kind, running, ran, fails, restarts, since, ladLeft>>

Pass == ~rebooting /\ (Found \/ Strike \/ RestartMediad \/ Reboot)

\* The encoder exits, after 15 s without frames for instance.
EncoderDies ==
    /\ running /\ ~rebooting
    /\ running' = FALSE /\ ran' = NotSeen
    /\ UNCHANGED <<kind, fails, restarts, since, rebooting, ladLeft>>

\* Something else starts it: init.sh, which is still at it, or a person.
EncoderComes ==
    /\ ~running /\ ~rebooting
    /\ ladLeft.revivals > 0
    /\ ladLeft' = [ladLeft EXCEPT !.revivals = @ - 1]
    /\ running' = TRUE /\ ran' = NotSeen
    /\ UNCHANGED <<kind, fails, restarts, since, rebooting>>

\* A new supervisor counts from nothing.
Relaunch ==
    /\ ~rebooting
    /\ ladLeft.relaunches > 0
    /\ ladLeft' = [ladLeft EXCEPT !.relaunches = @ - 1]
    /\ fails' = 0 /\ restarts' = 0 /\ since' = NotSeen
    /\ UNCHANGED <<kind, running, ran, rebooting>>

Next == Pass \/ EncoderDies \/ EncoderComes \/ Relaunch
Spec == Init /\ [][Next]_ladderVars
FairSpec == Spec /\ WF_ladderVars(Pass)

----------------------------------------------------------------------------
(* Properties. *)

\* The counters stay within the ladder.
TypeOK ==
    /\ fails \in 0..(Strikes - 1) /\ restarts \in 0..Tries
    /\ since \in 0..NotSeen /\ ran \in 0..NotSeen

\* watchdog.sh:320: an encoder that is missing ends in ten minutes of one run, or in
\* a reboot, however often mediad comes up for a while and exits again: "alive at
\* this pass" does not start the ladder anew.
LadderEnds == ~running ~> (ran = ClearAfter \/ rebooting)

----------------------------------------------------------------------------
(* What the comments promise and the code does not keep. *)

\* watchdog.sh:320, "only a run that lasted 10 min clears the ladder": two runs do
\* as well if no pass falls between them.
ClearedByLongRun == [][restarts' = 0 /\ restarts # 0 /\ Found => ran' = ClearAfter]_ladderVars
=============================================================================
