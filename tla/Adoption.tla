------------------------------ MODULE Adoption ------------------------------
(***************************************************************************)
(* How the Go client is adopted, reset and adopted again                   *)
(* (src/goclient/manage.go, main.go, discovery.go).  Four kinds of process *)
(* share the state: the dial loop of main(), the HTTP handlers of the      *)
(* manage API on :443, the performReset goroutine, and the controller.     *)
(* Files survive the reboot that ends a reset and a crash; nothing else.   *)
(***************************************************************************)
EXTENDS Naturals, Sequences

CONSTANTS
    Hosts,          \* controllers
    OffSubnet,      \* those for which controllerOnLink is false
    FirstHost,      \* cfg.Host before any adopt push
    Handlers,       \* HTTP handler goroutines
    MaxPushes,      \* bound: adopt pushes
    MaxResets,      \* bound: ResetToDefaults messages
    MaxRestarts,    \* bound: crashes of the process
    MaxStuck        \* bound: /sbin/reboot commands that fail

ASSUME HostAssumption == FirstHost \in Hosts /\ OffSubnet \subseteq Hosts
ASSUME AdoptionBounds ==
    /\ MaxPushes \in Nat /\ MaxResets \in Nat
    /\ MaxRestarts \in Nat /\ MaxStuck \in Nat

VARIABLES
    disk,           \* files: client certificate, adopted flag, awaiting flag, inform-host
    isAdopted,      \* the atomic of the same name
    awaitingManage, \* the atomic of the same name
    cfg,            \* cfg.Host and cfg.Token (0 is "")
    manageCh,       \* the buffered channel, capacity 1
    main,           \* program counter of main()'s loop and of run()
    reset,          \* program counter of performReset
    handler,        \* program counter and push of each HTTP handler
    dialled,        \* token of the last connection, 0 before the first
    newest,         \* token of the push that was accepted last, 0 if none since boot
    gate,           \* a reset has closed the dial loop and no push has reopened it
    left            \* what remains of the bounds

memory == <<isAdopted, awaitingManage, cfg, manageCh>>
ghosts == <<dialled, newest, gate>>
vars == <<disk, memory, main, reset, handler, ghosts, left>>

Push == [host : Hosts, token : 1..MaxPushes]
Free == [pc |-> "idle", push |-> [host |-> FirstHost, token |-> 0]]

Init ==
    /\ disk = [cert |-> TRUE, adopted |-> FALSE, await |-> FALSE, host |-> FirstHost]
    /\ isAdopted = FALSE
    /\ awaitingManage = FALSE
    /\ cfg = [host |-> FirstHost, token |-> 0]
    /\ manageCh = <<>>
    /\ main = "boot" /\ reset = "idle"
    /\ handler = [w \in Handlers |-> Free]
    /\ dialled = 0 /\ newest = 0 /\ gate = FALSE
    /\ left = [pushes |-> MaxPushes, resets |-> MaxResets,
               restarts |-> MaxRestarts, stuck |-> MaxStuck]

\* The process starts anew; ensureCertKey mints a certificate if none is there.
\* From here on the manage API answers.
Boot ==
    /\ disk' = [disk EXCEPT !.cert = TRUE]
    /\ isAdopted' = disk.adopted
    /\ awaitingManage' = FALSE
    /\ cfg' = [host |-> disk.host, token |-> 0]
    /\ manageCh' = <<>>
    /\ main' = "boot" /\ reset' = "idle"
    /\ handler' = [w \in Handlers |-> Free]
    /\ newest' = 0
    /\ UNCHANGED <<dialled, gate>>

\* Wrong on purpose: a camera that is not adopted dials at once.
MutAwaits == isAdopted /\ disk.await

\* Whether the files and the network say to wait for a push.
Awaits == IF ~isAdopted THEN cfg.host \notin OffSubnet ELSE disk.await

\* ... and main() gets to its loop.
BootGate ==
    /\ main = "boot"
    /\ main' = "top"
    /\ awaitingManage' = (Awaits \/ awaitingManage)
    /\ UNCHANGED <<disk, isAdopted, cfg, manageCh, reset, handler, ghosts, left>>

----------------------------------------------------------------------------
(* The dial loop. *)

\* One look at awaitingManage per round.
MainTop ==
    /\ main = "top"
    /\ main' = IF awaitingManage THEN "poll" ELSE "pick"
    /\ UNCHANGED <<disk, memory, reset, handler, ghosts, left>>

\* applyManagePush of the push in the channel.
ApplyPush ==
    /\ manageCh # <<>>
    /\ LET res == Head(manageCh)
       IN  /\ cfg' = res
           /\ disk' = [disk EXCEPT !.host = res.host]
    /\ manageCh' = Tail(manageCh)
    /\ UNCHANGED <<isAdopted, awaitingManage, reset, handler, ghosts, left>>

\* Awaiting: take a push, or look again after five seconds.
PollPush == main = "poll" /\ ApplyPush /\ main' = "top"
PollTimeout ==
    /\ main = "poll"
    /\ main' = "top"
    /\ UNCHANGED <<disk, memory, reset, handler, ghosts, left>>

\* Wrong on purpose: the push is left in the channel when about to dial.
MutPick ==
    /\ main = "pick"
    /\ main' = "dial"
    /\ UNCHANGED <<disk, memory, reset, handler, ghosts, left>>

\* About to dial: take a push that is there already.
Pick ==
    /\ main = "pick"
    /\ main' = "dial"
    /\ IF manageCh # <<>> THEN ApplyPush
       ELSE UNCHANGED <<disk, memory, reset, handler, ghosts, left>>

\* run(): without a certificate, or without an answer, the dial fails.
DialFails ==
    /\ main = "dial"
    /\ main' = "backoff"
    /\ UNCHANGED <<disk, memory, reset, handler, ghosts, left>>

\* The controller accepts the connection and gets the hello.
DialSucceeds ==
    /\ main = "dial"
    /\ disk.cert
    /\ main' = "online"
    /\ dialled' = cfg.token
    /\ UNCHANGED <<disk, memory, reset, handler, newest, gate, left>>

\* paramAgreement: the controller has accepted the hello.
ParamAgreement ==
    /\ main = "online"
    /\ main' = "agreed"
    /\ isAdopted' = TRUE
    /\ disk' = [disk EXCEPT !.adopted = TRUE]
    /\ UNCHANGED <<awaitingManage, cfg, manageCh, reset, handler, ghosts, left>>

\* ResetToDefaults from the controller that adopted the camera.
ResetToDefaults ==
    /\ main = "agreed"
    /\ reset = "idle"
    /\ left.resets > 0
    /\ left' = [left EXCEPT !.resets = @ - 1]
    /\ reset' = "delete"
    /\ UNCHANGED <<disk, memory, main, handler, ghosts>>

\* The connection ends, or the controller asks for a reconnect ("Reboot").
ConnectionEnds ==
    /\ main \in {"online", "agreed"}
    /\ main' = "backoff"
    /\ UNCHANGED <<disk, memory, reset, handler, ghosts, left>>

BackoffOver ==
    /\ main = "backoff"
    /\ main' = "top"
    /\ UNCHANGED <<disk, memory, reset, handler, ghosts, left>>

----------------------------------------------------------------------------
(* performReset, beside the read loop. *)

DeleteIdentity ==
    /\ reset = "delete"
    /\ disk' = [disk EXCEPT !.cert = FALSE, !.adopted = FALSE]
    /\ isAdopted' = FALSE
    /\ reset' = "await"
    /\ UNCHANGED <<awaitingManage, cfg, manageCh, main, handler, ghosts, left>>

\* A file cannot be removed: the certificate may be gone, the camera still
\* counts as adopted, and the reset goes on.
DeleteIdentityFails ==
    /\ reset = "delete"
    /\ \E cert \in {disk.cert, FALSE} : disk' = [disk EXCEPT !.cert = cert]
    /\ reset' = "await"
    /\ UNCHANGED <<memory, main, handler, ghosts, left>>

\* enterAwaitingManage: the flag, then the file.
EnterAwaiting ==
    /\ reset = "await"
    /\ awaitingManage' = TRUE
    /\ reset' = "persist"
    /\ UNCHANGED <<disk, isAdopted, cfg, manageCh, main, handler, ghosts, left>>

PersistAwaiting ==
    /\ reset = "persist"
    /\ disk' = [disk EXCEPT !.await = TRUE]
    /\ gate' = awaitingManage
    /\ reset' = "token"
    /\ UNCHANGED <<memory, main, handler, dialled, newest, left>>

ClearToken ==
    /\ reset = "token"
    /\ cfg' = [cfg EXCEPT !.token = 0]
    /\ reset' = "reboot"
    /\ UNCHANGED <<disk, isAdopted, awaitingManage, manageCh, main, handler, ghosts, left>>

Reboot ==
    /\ reset = "reboot"
    /\ Boot
    /\ UNCHANGED left

\* /sbin/reboot failed: close the connection and go on.
RebootFails ==
    /\ reset = "reboot"
    /\ left.stuck > 0
    /\ left' = [left EXCEPT !.stuck = @ - 1]
    /\ main' = IF main \in {"online", "agreed"} THEN "backoff" ELSE main
    /\ reset' = "idle"
    /\ UNCHANGED <<disk, memory, handler, ghosts>>

\* The process dies at any point and watchdog.sh starts it again.
Crash ==
    /\ left.restarts > 0
    /\ left' = [left EXCEPT !.restarts = @ - 1]
    /\ Boot

----------------------------------------------------------------------------
(* deliverManagePush, in an HTTP handler. *)

\* A well-formed push from controller h.
Accept(w, h) ==
    /\ handler[w].pc = "idle"
    /\ left.pushes > 0
    /\ left' = [left EXCEPT !.pushes = @ - 1]
    /\ LET token == MaxPushes - left.pushes + 1
       IN  /\ handler' = [handler EXCEPT ![w] =
                            [pc |-> "leave", push |-> [host |-> h, token |-> token]]]
           /\ newest' = token
    /\ UNCHANGED <<disk, memory, main, reset, dialled, gate>>

\* leaveAwaitingManage: the flag, then the file.
LeaveAwaiting(w) ==
    /\ handler[w].pc = "leave"
    /\ awaitingManage' = FALSE
    /\ gate' = FALSE
    /\ handler' = [handler EXCEPT ![w].pc = "remove"]
    /\ UNCHANGED <<disk, isAdopted, cfg, manageCh, main, reset, dialled, newest, left>>

RemoveAwaiting(w) ==
    /\ handler[w].pc = "remove"
    /\ disk' = [disk EXCEPT !.await = FALSE]
    /\ gate' = FALSE
    /\ handler' = [handler EXCEPT ![w].pc = "drain"]
    /\ UNCHANGED <<memory, main, reset, dialled, newest, left>>

\* Drop a push nobody took.
Drain(w) ==
    /\ handler[w].pc = "drain"
    /\ manageCh' = <<>>
    /\ handler' = [handler EXCEPT ![w].pc = "send"]
    /\ UNCHANGED <<disk, isAdopted, awaitingManage, cfg, main, reset, ghosts, left>>

\* The send blocks while the channel is full.
Send(w) ==
    /\ handler[w].pc = "send"
    /\ manageCh = <<>>
    /\ manageCh' = <<handler[w].push>>
    /\ handler' = [handler EXCEPT ![w] = Free]
    /\ UNCHANGED <<disk, isAdopted, awaitingManage, cfg, main, reset, ghosts, left>>

----------------------------------------------------------------------------

MainStep ==
    \/ BootGate \/ MainTop \/ PollPush \/ PollTimeout \/ Pick
    \/ DialFails \/ DialSucceeds \/ BackoffOver

ResetStep ==
    \/ DeleteIdentity \/ DeleteIdentityFails \/ EnterAwaiting \/ PersistAwaiting \/ ClearToken
    \/ Reboot \/ RebootFails

HandlerStep(w) == LeaveAwaiting(w) \/ RemoveAwaiting(w) \/ Drain(w) \/ Send(w)

Next ==
    \/ MainStep
    \/ ParamAgreement \/ ResetToDefaults \/ ConnectionEnds
    \/ ResetStep
    \/ Crash
    \/ \E w \in Handlers : HandlerStep(w) \/ \E h \in Hosts : Accept(w, h)

Spec == Init /\ [][Next]_vars

\* Goroutines run, and a controller that is dialled again and again answers.
\* No connection has to end and no controller has to push.
Fairness ==
    /\ WF_vars(MainStep) /\ WF_vars(ResetStep)
    /\ SF_vars(PollPush) /\ SF_vars(DialSucceeds)
    /\ \A w \in Handlers : WF_vars(HandlerStep(w))

FairSpec == Spec /\ Fairness

----------------------------------------------------------------------------
(* Properties. *)

\* Every variable holds a value the code can put there; the channel holds at
\* most one push.
TypeOK ==
    /\ disk \in [cert : BOOLEAN, adopted : BOOLEAN, await : BOOLEAN, host : Hosts]
    /\ isAdopted \in BOOLEAN /\ awaitingManage \in BOOLEAN
    /\ cfg \in [host : Hosts, token : 0..MaxPushes]
    /\ manageCh \in Seq(Push) /\ Len(manageCh) <= 1
    /\ main \in {"boot", "top", "poll", "pick", "dial", "online", "agreed", "backoff"}
    /\ reset \in {"idle", "delete", "await", "persist", "token", "reboot"}
    /\ handler \in [Handlers -> [pc : {"idle", "leave", "remove", "drain", "send"},
                                 push : [host : Hosts, token : 0..MaxPushes]]]
    /\ dialled \in 0..MaxPushes /\ newest \in 0..MaxPushes /\ gate \in BOOLEAN
    /\ left \in [pushes : 0..MaxPushes, resets : 0..MaxResets,
                 restarts : 0..MaxRestarts, stuck : 0..MaxStuck]

\* main.go:515 and manage.go:40: once a reset has put the camera into the
\* awaiting state only an adopt push takes it out again, whatever crashes and
\* reboots happen in between ("the gate that stops instant re-adoption by MAC").
GateHolds == gate /\ main # "boot" => awaitingManage

\* manage.go:33, "only the most recent push matters": the credentials in use
\* are never replaced by those of an older push.
NewestPushWins == [][cfg'.token > 0 => cfg'.token >= cfg.token]_vars

\* A handler that reached its send finds room: manage.go:198, "drop a stale
\* buffered one, don't block".
SendFindsRoom == \A w \in Handlers : handler[w].pc = "send" => manageCh = <<>>

\* manage.go:195, a push is handed to the dial loop and the camera dials right
\* away: the next connection after it was accepted uses it.
DialUsesNewestPush == [][main = "dial" /\ main' = "online" => dialled' = newest]_vars

Connected == main \in {"online", "agreed"}

Delivers(w, k) == handler[w].pc = "leave" /\ handler[w].push.token = k
Dialled(k) == dialled = k \/ newest # k \/ []Connected

\* The push that was accepted last is used for a connection, unless the camera
\* restarts first, or the connection it has when the push arrives never ends, or
\* the reboot that ends a reset has failed (see PushAfterResetDials).
PushLeadsToDial ==
    \A k \in 1..MaxPushes, w \in Handlers :
        (Delivers(w, k) /\ main # "boot") ~> (Dialled(k) \/ left.stuck < MaxStuck)

\* manage.go:194, a push is handed to the dial loop "and immediately clears
\* awaitingManage": a push that arrives while main() starts does so too.
EarlyPushLeadsToDial ==
    \A k \in 1..MaxPushes, w \in Handlers :
        (Delivers(w, k) /\ main = "boot") ~> Dialled(k)

\* main.go:529, "/sbin/reboot failed ..., falling back to reconnect only": when
\* the reset is over and its reboot has failed, a push that arrives afterwards
\* is still followed by a connection.
PushAfterResetDials ==
    \A w \in Handlers :
        (handler[w].pc = "leave" /\ reset = "idle" /\ left.resets = 0)
            ~> Connected
============================================================================
