------------------------------ MODULE Identity ------------------------------
(***************************************************************************)
(* Who the camera says it is: the adopted flag, the console's id, the      *)
(* controller's host and the certificate pair, each held in memory and in  *)
(* a file of its own, and the discovery replies and the status LED that    *)
(* show them (src/goclient/main.go, discovery.go).  The main goroutine     *)
(* handles messages and pushes, a goroutine of its own deletes the         *)
(* identity; both work through a list of small operations, and the power   *)
(* may go between any two.  os.WriteFile empties a file and then fills it. *)
(***************************************************************************)
EXTENDS Naturals, SequencesExt

CONSTANTS
    Consoles,       \* ids a controller may give itself
    Hosts,          \* hosts a push may name
    Own,            \* this camera's device id
    Default,        \* the DHCP or compiled-in controller host
    None,           \* nil; an absent file
    Empty,          \* what a file holds that was emptied and not filled
    MaxEvents,      \* bound: messages and pushes
    MaxCrashes,     \* bound: power cuts
    MaxFaults,      \* bound: file operations, and reboots, that fail
    MaxOverlaps     \* bound: messages handled while an identity is deleted

VARIABLES
    up,             \* the process runs
    mem,            \* isAdopted, adoptionUUID, cfg.Host
    disk,           \* the files: None, Empty or their content
    cfgHost,        \* yi-protect.cfg CONTROLLER, or None
    todo,           \* per goroutine: the operations it has yet to do
    shows,          \* what is watched: the discovery replies or the LED
    reply,          \* what the discovery reply being built says of adoption
    led,            \* the LED, what the controller asked of it, the blinker
    meant,          \* what the controllers have told this camera
    spoiled,        \* what a fault or an overlap has put in doubt
    budget          \* what remains of the bounds

vars == <<up, mem, disk, cfgHost, todo, shows, reply, led, meant, spoiled, budget>>

Goroutines == {"main", "reset"}
Idle == todo = [g \in Goroutines |-> <<>>]
Files == {"cert", "key", "device", "uuid", "adopted", "host"}

\* One operation: on a variable, or on a file.
Op(do, what, val) == [do |-> do, what |-> what, val |-> val]
Mem(what, val) == <<Op("mem", what, val)>>
Unlink(what) == <<Op("remove", what, None)>>

\* os.WriteFile.
WriteFile(what, val) == <<Op("open", what, None), Op("put", what, val)>>

\* Wrong on purpose: the flag is kept in memory only.
MutSetAdopted(b) == Mem("adopted", b)

SetAdopted(b) == Mem("adopted", b) \o WriteFile("adopted", b)

\* Wrong on purpose: the id that is read at the next start is not written.
MutSetUUID(c) == Mem("uuid", c)

\* adoptionUUID = raw[:]; saveAdoptionUUID.
SetUUID(c) == Mem("uuid", c) \o WriteFile("uuid", c)

\* deleteIdentity, then the reboot of performReset.
DeleteIdentity ==
    Unlink("cert") \o Unlink("key") \o Unlink("device") \o Unlink("uuid")
        \o Mem("uuid", None) \o SetAdopted(FALSE) \o <<Op("reboot", "power", None)>>

----------------------------------------------------------------------------
(* Start. *)

Holds(d, f) == d[f] \notin {None, Empty}

\* What main() loads: loadAdoptedState, loadAdoptionUUID over the device id, and
\* the controller host by CONTROLLER, then the pin, then the default.
Loaded(d) ==
    [adopted |-> d.adopted = TRUE,
     uuid |-> IF Holds(d, "uuid") THEN d.uuid ELSE Own,
     host |-> CASE cfgHost # None   -> cfgHost
                [] cfgHost = None /\ Holds(d, "host") -> d.host
                [] OTHER -> Default]

\* Wrong on purpose: a pair of which only the key is left is not made anew.
MutEnsureCertKey(d) ==
    IF d.key # None THEN <<>> ELSE WriteFile("cert", 1) \o WriteFile("key", 1)

\* ensureCertKey: a pair with a file missing is made anew.
EnsureCertKey(d) ==
    LET fresh == CHOOSE n \in 1..2 : n \notin {d.cert, d.key}
    IN  IF d.cert # None /\ d.key # None THEN <<>>
        ELSE WriteFile("cert", fresh) \o WriteFile("key", fresh)

\* loadOrCreateAdoptionUUID, from the hardware's serial.
EnsureDevice(d) == IF d.device = Own THEN <<>> ELSE WriteFile("device", Own)

Boot ==
    /\ ~up
    /\ up' = TRUE
    /\ mem' = Loaded(disk)
    /\ todo' = [todo EXCEPT !.main = EnsureCertKey(disk) \o EnsureDevice(disk)]
    /\ reply' = None
    /\ led' = [on |-> TRUE, asked |-> None, blinks |-> TRUE]
    /\ UNCHANGED <<disk, cfgHost, shows, meant, spoiled, budget>>

\* A camera as installed, or one adopted by console c.
Factory == [f \in Files |-> None]
AdoptedBy(c) == [cert |-> 0, key |-> 0, device |-> Own, uuid |-> c,
                 adopted |-> TRUE, host |-> None]

Init ==
    /\ \E c \in Consoles :
         \/ disk = Factory /\ meant = [adopted |-> FALSE, uuid |-> Own, host |-> Default]
         \/ disk = AdoptedBy(c) /\ meant = [adopted |-> TRUE, uuid |-> c, host |-> Default]
    /\ cfgHost \in Hosts \cup {None}
    /\ up = FALSE
    /\ mem = [adopted |-> FALSE, uuid |-> None, host |-> Default]
    /\ Idle
    /\ reply = None
    /\ shows \in {"replies", "led"}
    /\ led = [on |-> FALSE, asked |-> None, blinks |-> FALSE]
    /\ spoiled = {}
    /\ budget = [events |-> MaxEvents, crashes |-> MaxCrashes, faults |-> MaxFaults,
                  overlaps |-> MaxOverlaps]

----------------------------------------------------------------------------
(* The goroutines' operations. *)

Next1(g) == up /\ todo[g] # <<>>
First(g) == Head(todo[g])
Pop(g) == todo' = [todo EXCEPT ![g] = Tail(@)]

\* The start is over: everything but the certificate and the device id runs.
Serving == up /\ \A i \in DOMAIN todo.main : todo.main[i].what \notin {"cert", "key", "device"}

SetMemory(g) ==
    /\ Next1(g) /\ First(g).do = "mem"
    /\ mem' = [mem EXCEPT ![First(g).what] = First(g).val]
    /\ Pop(g)
    /\ UNCHANGED <<up, disk, cfgHost, shows, reply, led, meant, spoiled, budget>>

\* A file is emptied, filled or removed; a filled one is no longer in doubt.
TouchFile(g) ==
    /\ Next1(g) /\ First(g).do \in {"open", "put", "remove"}
    /\ LET o == First(g)
           settles == IF o.what = "key" THEN {"pair"} ELSE {o.what}
       IN  /\ disk' = [disk EXCEPT ![o.what] = IF o.do = "open" THEN Empty ELSE o.val]
           /\ spoiled' = IF o.do = "put" THEN spoiled \ settles ELSE spoiled
    /\ Pop(g)
    /\ UNCHANGED <<up, mem, cfgHost, shows, reply, led, meant, budget>>

\* What the operations that are still to be done would have settled.
Unsettled == {f \in {"adopted", "uuid", "host"} :
                 \E g \in Goroutines : \E i \in DOMAIN todo[g] : todo[g][i].what = f}
\* A key that is there while the pair is being written stays, whatever is in it.
PairTorn == disk.key # None /\ \E i \in DOMAIN todo.main : todo.main[i].what = "key"

Stop ==
    /\ up' = FALSE
    /\ todo' = [g \in Goroutines |-> <<>>]
    /\ spoiled' = spoiled \cup Unsettled \cup (IF PairTorn THEN {"pair"} ELSE {})

\* An operation fails: a write is given up with a line in the log, the pair's is
\* fatal, and a file that cannot be removed ends deleteIdentity before the flag.
OperationFails(g) ==
    /\ Next1(g) /\ First(g).do \in {"open", "put", "remove"}
    /\ budget.faults > 0
    /\ budget' = [budget EXCEPT !.faults = @ - 1]
    /\ IF First(g).what \in {"cert", "key"} /\ First(g).do # "remove" THEN Stop
       ELSE /\ UNCHANGED up
            /\ IF First(g).do = "remove"
               THEN /\ todo' = [todo EXCEPT ![g] = <<Last(@)>>]
                    /\ spoiled' = spoiled \cup {"adopted", "uuid"}
               ELSE /\ todo' = [todo EXCEPT ![g] =
                                    SubSeq(@, IF First(g).do = "open" THEN 3 ELSE 2, Len(@))]
                    /\ spoiled' = spoiled \cup {First(g).what}
    /\ UNCHANGED <<mem, disk, cfgHost, shows, reply, led, meant>>

\* The power goes, at any point.
Crash ==
    /\ up /\ budget.crashes > 0
    /\ budget' = [budget EXCEPT !.crashes = @ - 1]
    /\ Stop
    /\ UNCHANGED <<mem, disk, cfgHost, shows, reply, led, meant>>

\* exec /sbin/reboot, which may fail: the process goes on without its pair.
Reboot ==
    /\ Next1("reset") /\ First("reset").do = "reboot"
    /\ \/ Stop
          /\ UNCHANGED budget
       \/ /\ budget.faults > 0
          /\ budget' = [budget EXCEPT !.faults = @ - 1]
          /\ Pop("reset") /\ spoiled' = spoiled \cup {"pair"} /\ UNCHANGED up
    /\ UNCHANGED <<mem, disk, cfgHost, shows, reply, led, meant>>

----------------------------------------------------------------------------
(* What the controllers say. *)

\* The main goroutine takes the next message; one it takes while an identity is
\* being deleted leaves open which of the two prevails.
Handle(ops) ==
    /\ up /\ todo.main = <<>> /\ budget.events > 0
    /\ LET overlaps == IF todo.reset = <<>> THEN 0 ELSE 1
       IN  /\ budget.overlaps >= overlaps
           /\ budget' = [budget EXCEPT !.events = @ - 1, !.overlaps = @ - overlaps]
           /\ spoiled' = IF overlaps = 0 THEN spoiled ELSE spoiled \cup {"overlap"}
    /\ todo' = [todo EXCEPT !.main = ops]
    /\ UNCHANGED <<up, mem, disk, cfgHost, shows, reply>>

\* ubnt_avclient_hello with a controllerUuid.
Hello(c) ==
    /\ Handle(SetUUID(c))
    /\ meant' = [meant EXCEPT !.uuid = c]
    /\ UNCHANGED led

\* ubnt_avclient_paramAgreement, which follows the hello.
ParamAgreement ==
    /\ meant.uuid # Own
    /\ Handle(SetAdopted(TRUE))
    /\ meant' = [meant EXCEPT !.adopted = TRUE]
    /\ UNCHANGED led

\* Wrong on purpose: the push is not remembered.
MutApplyManagePush(h, c) ==
    /\ Handle(Mem("host", h) \o SetUUID(c))
    /\ meant' = [meant EXCEPT !.host = h, !.uuid = c]
    /\ UNCHANGED led

\* applyManagePush, with a host and a console id.
ApplyManagePush(h, c) ==
    /\ Handle(Mem("host", h) \o WriteFile("host", h) \o SetUUID(c))
    /\ meant' = [meant EXCEPT !.host = h, !.uuid = c]
    /\ UNCHANGED led

\* ResetToDefaults: performReset, in a goroutine of its own.
ResetToDefaults ==
    /\ up /\ Idle /\ budget.events > 0
    /\ budget' = [budget EXCEPT !.events = @ - 1]
    /\ todo' = [todo EXCEPT !.reset = DeleteIdentity]
    /\ meant' = [meant EXCEPT !.adopted = FALSE, !.uuid = Own]
    /\ UNCHANGED <<up, mem, disk, cfgHost, shows, reply, led, spoiled>>

\* handleSoundLedSettings: ledFaceEnabled.
SoundLedSettings(b) ==
    /\ shows = "led" /\ Handle(<<>>)
    /\ led' = [led EXCEPT !.on = b, !.asked = b]
    /\ UNCHANGED meant

----------------------------------------------------------------------------
(* What the camera shows. *)

\* buildDiscoveryResponse reads the flag for 0x17, and reads it again for 0x26.
Probe ==
    /\ Serving /\ reply = None /\ shows = "replies"
    /\ reply' = IF mem.adopted THEN "adopted" ELSE "adoptable"
    /\ UNCHANGED <<up, mem, disk, cfgHost, shows, todo, led, meant, spoiled, budget>>

Announced(m) == IF m.adopted THEN m.uuid ELSE None

Answer ==
    /\ Serving /\ reply # None
    /\ reply' = None
    /\ UNCHANGED <<up, mem, disk, cfgHost, shows, todo, led, meant, spoiled, budget>>

\* runStatusLedBlinker, once a second.
Blink ==
    /\ Serving /\ led.blinks /\ shows = "led"
    /\ led' = IF mem.adopted THEN [led EXCEPT !.on = TRUE, !.blinks = FALSE]
              ELSE [led EXCEPT !.on = ~@]
    /\ UNCHANGED <<up, mem, disk, cfgHost, shows, todo, reply, meant, spoiled, budget>>

Next ==
    \/ Boot \/ Crash \/ Reboot
    \/ \E g \in Goroutines : SetMemory(g) \/ TouchFile(g) \/ OperationFails(g)
    \/ \E c \in Consoles : Hello(c)
    \/ ParamAgreement
    \/ \E h \in Hosts, c \in Consoles : ApplyManagePush(h, c)
    \/ ResetToDefaults
    \/ \E b \in BOOLEAN : SoundLedSettings(b)
    \/ Probe \/ Answer \/ Blink

----------------------------------------------------------------------------
(* Properties. *)

\* Variables and files hold what the code can put there.
TypeOK ==
    /\ up \in BOOLEAN
    /\ mem \in [adopted : BOOLEAN, uuid : Consoles \cup {Own, None}, host : Hosts \cup {Default}]
    /\ DOMAIN disk = Files
    /\ \A f \in {"uuid", "device"} : disk[f] \in Consoles \cup {Own, Empty, None}
    /\ reply \in {None, "adopted", "adoptable"}
    /\ \A g \in Goroutines : \A i \in DOMAIN todo[g] :
           todo[g][i].do \in {"mem", "open", "put", "remove", "reboot"}

Quiet == Serving /\ Idle
Sure(what) == spoiled \cap (what \cup {"overlap"}) = {}

\* Once nothing is in hand, the camera announces what the controllers last told
\* it, and would announce the same after a restart: no sequence of hellos,
\* agreements, pushes, resets, power cuts and failed writes leaves memory, files
\* and the controllers' view apart, but for what a fault itself tore and nothing
\* has rewritten since.  The certificate pair is complete and matches.
IdentityConsistent ==
    Quiet =>
        /\ Sure({"adopted", "uuid"}) =>
               Announced(meant) = Announced(mem) /\ Announced(mem) = Announced(Loaded(disk))
        /\ Sure({"host"}) /\ cfgHost = None =>
               mem.host = meant.host /\ Loaded(disk).host = meant.host
        /\ Sure({"pair"}) /\ meant.adopted =>
               Holds(disk, "cert") /\ disk.cert = disk.key

----------------------------------------------------------------------------
(* What the comments promise and the code does not keep. *)

\* main.go:129: "a restart while adopted doesn't look adopted to another
\* console": the camera never announces its own id as its console's.
NeverOwnConsole == Serving => Announced(mem) # Own

\* discovery.go:158: the console's id is "present only once adopted", so one
\* reply does not say adoptable and name a console.
ReplyWhole ==
    [][Serving /\ reply = "adoptable" /\ reply' = None /\ up' => Announced(mem) = None]_vars

\* main.go:493, a pair is generated "if either file is missing": a start ends
\* with a pair that loads.
PairLoads == Quiet /\ meant.adopted => Holds(disk, "cert") /\ disk.cert = disk.key

\* main.go:2455: "a human-set yi-protect.cfg CONTROLLER still outranks" a push.
ControllerOutranks == Serving /\ cfgHost # None => mem.host = cfgHost

\* main.go:1085: the LED is what ledFaceEnabled last asked for.
LedAsAsked == Serving /\ led.asked # None => led.on = led.asked

\* discovery.go:21, "persisted so a restart reports correctly at once": a restart
\* reports the adoption state the camera had.
AdoptionKept == Quiet /\ "adopted" \notin spoiled => mem.adopted = (disk.adopted = TRUE)
=============================================================================
