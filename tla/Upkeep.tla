------------------------------- MODULE Upkeep -------------------------------
(***************************************************************************)
(* What keeps the camera running and itself from one start to the next:    *)
(* the start/stop lock (WatchLock, which this module extends), the         *)
(* supervisor's singleton and its ladder for a missing encoder, the        *)
(* camera's identity and its SSH credential.                               *)
(* They share no state, so a behaviour of this module is a behaviour of    *)
(* one of them, chosen at the start, with the others at rest.              *)
(***************************************************************************)
EXTENDS WatchLock

CONSTANTS
    Shells, MaxHand, MaxTrouble,
    Strikes, Tries, ClearAfter, MaxRelaunches, MaxRevivals,
    Consoles, Hosts, Own, Default, Empty, MaxEvents, MaxCrashes, MaxFaults, MaxOverlaps,
    Creds, MaxUpdates, MaxDeaths, MaxOutages

\* A pid is not nothing, and a credential is neither nothing nor an empty line.
ASSUME ShellAssumption == None \notin Shells
ASSUME CredentialAssumption == None \notin Creds /\ Empty \notin Creds /\ None # Empty
\* There is a strike before the reboot, and a run can be long enough.
ASSUME LadderAssumption == Strikes \in Nat \ {0} /\ Tries \in Nat /\ ClearAfter \in Nat

VARIABLES
    component,                                                      \* the one that runs
    pidf, age, shell, stuck, raced, supLeft,                        \* Supervisor
    kind, running, ran, fails, restarts, since, rebooting, ladLeft,           \* Ladder
    up, mem, disk, cfgHost, todo, shows, reply, led, meant, spoiled, budget,  \* Identity
    protect, card, liveCred, client, script, doubt, handled, credLeft         \* Credentials

Supervisor == INSTANCE Supervisor
Ladder == INSTANCE Ladder
Identity == INSTANCE Identity
Credentials == INSTANCE Credentials

\* Files that are absent or empty hold no console's id, host, flag or key, and the
\* camera's own id is no console's.
ASSUME IdentityAssumption ==
    /\ Own \notin Consoles
    /\ \A nothing \in {None, Empty} :
           /\ nothing \notin Consoles /\ nothing \notin Hosts /\ nothing # Own
           /\ nothing \notin 0..2 /\ nothing # TRUE

Components == {"lock", "supervisor", "ladder", "identity", "credentials"}
supervisorVars == <<pidf, age, shell, stuck, raced, supLeft>>
ladderVars == <<kind, running, ran, fails, restarts, since, rebooting, ladLeft>>
identityVars == <<up, mem, disk, cfgHost, todo, shows, reply, led, meant, spoiled, budget>>
credentialVars == <<protect, card, liveCred, client, script, doubt, handled, credLeft>>
upkeepVars == <<component, vars, supervisorVars, ladderVars, identityVars, credentialVars>>

\* One initial state for the components that do not run.
UpkeepInit ==
    /\ component \in Components
    /\ Init /\ Supervisor!Init
    /\ Ladder!Init /\ (component # "ladder" => kind = "rmm" /\ running)
    /\ Identity!Init
    /\ component # "identity" =>
           ~mem.adopted /\ disk.cert = None /\ cfgHost = None /\ shows = "led"
    /\ Credentials!Init /\ (component # "credentials" => ~protect)

LockStep(A) ==
    component = "lock" /\ A
        /\ UNCHANGED <<component, supervisorVars, ladderVars, identityVars, credentialVars>>
SupervisorStep(A) ==
    component = "supervisor" /\ A
        /\ UNCHANGED <<component, vars, ladderVars, identityVars, credentialVars>>
LadderStep(A) ==
    component = "ladder" /\ A
        /\ UNCHANGED <<component, vars, supervisorVars, identityVars, credentialVars>>

UpkeepNext ==
    \/ LockStep(Next)
    \/ SupervisorStep(Supervisor!Next)
    \/ LadderStep(Ladder!Next)
    \/ /\ component = "identity" /\ Identity!Next
       /\ UNCHANGED <<component, vars, supervisorVars, ladderVars, credentialVars>>
    \/ /\ component = "credentials" /\ Credentials!Next
       /\ UNCHANGED <<component, vars, supervisorVars, ladderVars, identityVars>>

UpkeepSpec == UpkeepInit /\ [][UpkeepNext]_upkeepVars

\* Shells that live and do not hang go on, init.sh's guard looks, time passes,
\* and the supervisor's loop makes its passes.
UpkeepFairness ==
    /\ \A p \in Procs : WF_upkeepVars(LockStep(Step(p)))
    /\ \A p \in Shells : WF_upkeepVars(SupervisorStep(Supervisor!Step(p)))
    /\ WF_upkeepVars(SupervisorStep(\E p \in Shells : Supervisor!GuardStarts(p)))
    /\ WF_upkeepVars(SupervisorStep(Supervisor!Tick))
    /\ WF_upkeepVars(LadderStep(Ladder!Pass))

FairUpkeepSpec == UpkeepSpec /\ UpkeepFairness

----------------------------------------------------------------------------
(* The components' properties; their modules say what they mean. *)

\* Every variable of every component holds a value the code can put there.
UpkeepTypeOK ==
    TypeOK /\ Supervisor!TypeOK /\ Ladder!TypeOK /\ Identity!TypeOK /\ Credentials!TypeOK

\* watchdog.sh: one supervisor loop at most.
OneSupervisor == Supervisor!OneSupervisor
\* init.sh, watchdog.sh: a supervisor that dies or stalls is replaced.
Supervised == component = "supervisor" => Supervisor!Supervised
\* watchdog.sh: a missing encoder ends in a long run or a reboot.
LadderEnds == component = "ladder" => Ladder!LadderEnds
\* main.go: what the controllers said is what is announced, now and after a restart.
IdentityConsistent == Identity!IdentityConsistent
\* ssh_credential.go: the card's credential is whole, and the one that is honoured.
CredentialWhole == Credentials!CredentialWhole

\* watchdog.sh: two starts at once make one supervisor.
OneStarterWins == Supervisor!OneStarterWins
\* watchdog.sh: only ten minutes of one run start the ladder anew.
ClearedByLongRun == Ladder!ClearedByLongRun
\* main.go: the camera never takes its own id for its console's.
NeverOwnConsole == Identity!NeverOwnConsole
\* discovery.go: one reply does not say adoptable and name a console.
ReplyWhole == Identity!ReplyWhole
\* main.go: a start ends with a certificate and key that belong together.
PairLoads == Identity!PairLoads
\* main.go: the host a person set outranks a push.
ControllerOutranks == Identity!ControllerOutranks
\* main.go: the LED is what was last asked for.
LedAsAsked == Identity!LedAsAsked
\* main.go: a restart reports the adoption state the camera had.
AdoptionKept == Identity!AdoptionKept
\* ssh_credential.go: a credential that is sent again is installed.
ResendInstalls == Credentials!ResendInstalls
=============================================================================
