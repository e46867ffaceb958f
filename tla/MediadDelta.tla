----------------------------- MODULE MediadDelta -----------------------------
(***************************************************************************)
(* How the Go client forwards the controller's settings to mediad, the     *)
(* encoder daemon (src/goclient/mediad_ctl.go), for one category of        *)
(* settings.  Every settings message is handled by goroutines of its own,  *)
(* a watcher looks for a restarted daemon, and a daemon that becomes ready *)
(* gets the values the client knows.  The mutexes protect the delta and    *)
(* the cached availability, not the commands sent to the daemon.           *)
(***************************************************************************)
EXTENDS Naturals, FiniteSets

CONSTANTS
    Keys,           \* mediad controls, in the order they are sent
    Values,         \* what a control can be set to
    Default,        \* what a fresh daemon holds
    Parts,          \* the objects one complete message is split into, as sets of keys
    PartialKeys,    \* the keys of a message that is not complete
    Workers,        \* slots for goroutines of settings messages
    Reappliers,     \* slots for mediadReapplyKnown goroutines
    Starting,       \* states the daemon may be in when the client starts
    Outlives,       \* background goroutines may outlive a (re)connect
    MaxMessages,    \* bound: settings messages
    MaxResets,      \* bound: ResetIspSettings messages
    MaxConnects,    \* bound: connections
    MaxStarts,      \* bound: (re)starts of the daemon
    MaxTimeouts     \* bound: commands a running daemon does not answer in time

ASSUME KeysAssumption ==
    /\ Keys \subseteq Nat /\ IsFiniteSet(Keys)
    /\ Parts \subseteq SUBSET Keys /\ PartialKeys \subseteq Keys
    /\ {} \notin Parts
ASSUME ValuesAssumption == Default \in Values
ASSUME MediadBounds ==
    /\ Starting \subseteq {"down", "booting", "up"} /\ Outlives \in BOOLEAN
    /\ MaxMessages \in Nat /\ MaxResets \in Nat /\ MaxConnects \in Nat
    /\ MaxStarts \in Nat /\ MaxTimeouts \in Nat

VARIABLES
    daemon,         \* mediad: its state, its pid and the values it holds
    ready,          \* mediadReady
    fresh,          \* mediadCheckedAt is less than 30 s ago
    watch,          \* mediadWatch: program counter and lastPid
    delta,          \* mediadDelta: last, seed, pending
    worker,         \* settings goroutines
    reapply,        \* mediadReapplyKnown goroutines
    seeded,         \* keys whose last value was recorded unsent
    doubt,          \* keys that two goroutines had in hand at once, or that timed out
    greeted,        \* the connection has had a complete message
    left            \* what remains of the bounds

vars == <<daemon, ready, fresh, watch, delta, worker, reapply, seeded, doubt, greeted, left>>

Controls == UNION {[K -> Values] : K \in SUBSET Keys}
NoControls == [k \in {} |-> Default]
IdleWorker == [pc |-> "idle", todo |-> NoControls, complete |-> FALSE, first |-> FALSE]
IdleReapply == [pc |-> "idle", todo |-> NoControls]

\* logMediadStatus has found the daemon's pid and is about to prime the cache.
Init ==
    /\ \E s \in Starting :
        /\ daemon = [state |-> s, pid |-> IF s = "down" THEN 0 ELSE 1,
                     val |-> [k \in Keys |-> Default]]
        /\ watch = [pc |-> "start", lastPid |-> IF s = "down" THEN 0 ELSE 1]
    /\ ready = FALSE /\ fresh = FALSE
    /\ delta = [last |-> NoControls, seed |-> TRUE, pending |-> FALSE]
    /\ worker = [w \in Workers |-> IdleWorker]
    /\ reapply = [r \in Reappliers |-> IdleReapply]
    /\ seeded = {} /\ doubt = {} /\ greeted = TRUE
    /\ left = [messages |-> MaxMessages, resets |-> MaxResets, connects |-> MaxConnects,
               starts |-> MaxStarts, timeouts |-> MaxTimeouts]

Responsive == daemon.state = "up"

\* mediadEnabled under mediadMu: what is cached, or a new look at the daemon;
\* the not-ready to ready transition starts a mediadReapplyKnown goroutine.
Detect(cached) ==
    IF cached THEN UNCHANGED <<ready, fresh, reapply>>
    ELSE /\ fresh' = TRUE
         /\ ready' = Responsive
         /\ IF ~ready /\ Responsive
            THEN \E r \in Reappliers :
                    /\ reapply[r].pc = "idle"
                    /\ reapply' = [reapply EXCEPT ![r].pc = "snapshot"]
            ELSE UNCHANGED reapply

FirstKey(todo) == CHOOSE k \in DOMAIN todo : \A j \in DOMAIN todo : k <= j
Without(todo, key) == [k \in DOMAIN todo \ {key} |-> todo[k]]

\* record, of each of these values.
Recorded(vals) ==
    [k \in DOMAIN vals \cup DOMAIN delta.last |->
        IF k \in DOMAIN vals THEN vals[k] ELSE delta.last[k]]

\* mediadSet of one control: done; lost with a daemon that does not run; or not
\* answered in time by one that may or may not have obeyed.  An error
\* invalidates the cached availability.
SetDone(k, v) ==
    /\ Responsive
    /\ daemon' = [daemon EXCEPT !.val[k] = v]
    /\ UNCHANGED <<fresh, left>>

SetLost ==
    /\ ~Responsive
    /\ fresh' = FALSE
    /\ UNCHANGED <<daemon, left>>

SetTimesOut(k, v) ==
    /\ Responsive
    /\ left.timeouts > 0
    /\ left' = [left EXCEPT !.timeouts = @ - 1]
    /\ fresh' = FALSE
    /\ \/ daemon' = [daemon EXCEPT !.val[k] = v]
       \/ UNCHANGED daemon

\* The goroutines that have set a control and not recorded it yet, and those that
\* have its known value in hand to send it again.
Unrecorded(k) == {w \in Workers : worker[w].pc = "record" /\ FirstKey(worker[w].todo) = k}
Resending(k) == {r \in Reappliers : reapply[r].pc = "send" /\ k \in DOMAIN reapply[r].todo}

\* A goroutine that has a control to itself settles it, another one's hold on it
\* puts it in doubt.
DoubtAfterSet(k) ==
    IF Unrecorded(k) = {} /\ Resending(k) = {} THEN doubt \ {k} ELSE doubt \cup {k}

----------------------------------------------------------------------------
(* The connection and its messages. *)

\* A dial comes after logMediadStatus, a reconnect at least a second after the
\* connection ended.
MayConnect ==
    /\ watch.pc # "start"
    /\ left.connects > 0
    /\ \/ Outlives
       \/ /\ \A w \in Workers : worker[w].pc = "idle"
          /\ \A r \in Reappliers : reapply[r].pc = "idle"

\* Wrong on purpose: a new connection does not seed the delta.
MutConnect ==
    /\ MayConnect
    /\ left' = [left EXCEPT !.connects = @ - 1]
    /\ delta' = [delta EXCEPT !.last = NoControls]
    /\ greeted' = FALSE
    /\ seeded' = {}
    /\ UNCHANGED <<daemon, ready, fresh, watch, worker, reapply, doubt>>

\* run(): resetMediadDelta, reset(true), leaves pending as it is.
Connect ==
    /\ MayConnect
    /\ left' = [left EXCEPT !.connects = @ - 1]
    /\ delta' = [delta EXCEPT !.last = NoControls, !.seed = TRUE]
    /\ greeted' = FALSE
    /\ seeded' = {}
    /\ UNCHANGED <<daemon, ready, fresh, watch, worker, reapply, doubt>>

\* Part of the first complete message of a connection, or older, and no full
\* apply is due.
FirstHere == ~greeted /\ ~delta.pending

\* A complete message: one goroutine for each of its parts.
Receive(vals) ==
    /\ left.connects < MaxConnects
    /\ left.messages > 0
    /\ left' = [left EXCEPT !.messages = @ - 1]
    /\ \E by \in [Parts -> {w \in Workers : worker[w].pc = "idle"}] :
        /\ \A p, q \in Parts : by[p] = by[q] => p = q
        /\ worker' = [w \in Workers |->
              IF \E p \in Parts : by[p] = w
              THEN [pc |-> "gate", complete |-> TRUE, first |-> FirstHere,
                    todo |-> [k \in CHOOSE p \in Parts : by[p] = w |-> vals[k]]]
              ELSE worker[w]]
    /\ greeted' = TRUE
    /\ UNCHANGED <<daemon, ready, fresh, watch, delta, reapply, seeded, doubt>>

\* ChangeBrightnessSettings, which is not complete.
ReceivePartial(w, vals) ==
    /\ left.connects < MaxConnects
    /\ left.messages > 0
    /\ PartialKeys # {}
    /\ worker[w].pc = "idle"
    /\ left' = [left EXCEPT !.messages = @ - 1]
    /\ worker' = [worker EXCEPT ![w] =
                    [pc |-> "gate", complete |-> FALSE, first |-> FirstHere,
                     todo |-> [k \in PartialKeys |-> vals[k]]]]
    /\ UNCHANGED <<daemon, ready, fresh, watch, delta, reapply, seeded, greeted, doubt>>

\* ResetIspSettings.
ReceiveReset(w) ==
    /\ left.connects < MaxConnects
    /\ left.resets > 0
    /\ worker[w].pc = "idle"
    /\ left' = [left EXCEPT !.resets = @ - 1]
    /\ worker' = [worker EXCEPT ![w].pc = "resetgate"]
    /\ UNCHANGED <<daemon, ready, fresh, watch, delta, reapply, seeded, greeted, doubt>>

----------------------------------------------------------------------------
(* mediadApplyControls. *)

ApplyGate(w) ==
    /\ worker[w].pc = "gate"
    /\ Detect(fresh)
    /\ worker' = [worker EXCEPT ![w].pc = IF ready' THEN "filter" ELSE "stash"]
    /\ UNCHANGED <<daemon, watch, delta, seeded, greeted, left, doubt>>

\* The daemon is not there: keep the values for its ready transition.
ApplyStash(w) ==
    /\ worker[w].pc = "stash"
    /\ delta' = [last |-> Recorded(worker[w].todo),
                 seed |-> delta.seed /\ ~worker[w].complete,
                 pending |-> delta.pending /\ ~worker[w].complete]
    /\ seeded' = seeded \cup DOMAIN worker[w].todo
    /\ worker' = [worker EXCEPT ![w] = IdleWorker]
    /\ UNCHANGED <<daemon, ready, fresh, watch, reapply, greeted, left, doubt>>

Changed(todo) ==
    {k \in DOMAIN todo : k \notin DOMAIN delta.last \/ delta.last[k] # todo[k]}

\* filter: a pending full apply forwards a complete object whole and keeps an
\* incomplete one; a seed keeps everything; otherwise what changed is forwarded.
ApplyFilter(w) ==
    /\ worker[w].pc = "filter"
    /\ LET todo == worker[w].todo
           complete == worker[w].complete
           keeps == IF delta.pending THEN ~complete ELSE delta.seed
           out == IF keeps THEN {} ELSE IF delta.pending THEN DOMAIN todo ELSE Changed(todo)
       IN  /\ delta' = [last |-> IF keeps THEN Recorded(todo) ELSE delta.last,
                        seed |-> delta.seed /\ ~complete,
                        pending |-> delta.pending /\ ~complete]
           /\ seeded' = IF keeps THEN seeded \cup DOMAIN todo ELSE seeded
           /\ worker' = [worker EXCEPT ![w] =
                            IF out = {} THEN IdleWorker
                            ELSE [@ EXCEPT !.pc = "send", !.todo = [k \in out |-> todo[k]]]]
    /\ UNCHANGED <<daemon, ready, fresh, watch, reapply, greeted, left, doubt>>

\* On to the next control.
Skip(w, k) ==
    LET rest == Without(worker[w].todo, k)
    IN  worker' = [worker EXCEPT ![w] =
                      IF DOMAIN rest = {} THEN IdleWorker
                      ELSE [worker[w] EXCEPT !.pc = "send", !.todo = rest]]

\* One control is sent; if the daemon said ok it is to be recorded, else it is
\* left to the next object.
ApplySend(w) ==
    /\ worker[w].pc = "send"
    /\ LET k == FirstKey(worker[w].todo)
           v == worker[w].todo[k]
       IN  \/ /\ SetDone(k, v)
              /\ worker' = [worker EXCEPT ![w].pc = "record"]
              /\ doubt' = DoubtAfterSet(k)
           \/ SetLost /\ Skip(w, k) /\ UNCHANGED doubt
           \/ SetTimesOut(k, v) /\ Skip(w, k) /\ doubt' = doubt \cup {k}
    /\ UNCHANGED <<ready, watch, delta, reapply, seeded, greeted>>

ApplyRecord(w) ==
    /\ worker[w].pc = "record"
    /\ LET k == FirstKey(worker[w].todo)
       IN  /\ delta' = [delta EXCEPT !.last = Recorded([j \in {k} |-> worker[w].todo[j]])]
           /\ seeded' = seeded \ {k}
           /\ Skip(w, k)
    /\ UNCHANGED <<daemon, ready, fresh, watch, reapply, greeted, left, doubt>>

----------------------------------------------------------------------------
(* ResetIspSettings: mediad goes back to its defaults, then mediadDeltaReapply. *)

ResetGate(w) ==
    /\ worker[w].pc = "resetgate"
    /\ Detect(fresh)
    /\ worker' = [worker EXCEPT ![w].pc = IF ready' THEN "reset" ELSE "idle"]
    /\ UNCHANGED <<daemon, watch, delta, seeded, greeted, left, doubt>>

\* mediadCommand("reset"); its errors are logged and change nothing.
ResetCommand(w) ==
    /\ worker[w].pc = "reset"
    /\ IF Responsive
       THEN /\ daemon' = [daemon EXCEPT !.val = [k \in Keys |-> Default]]
            /\ doubt' = doubt \cup {k \in Keys : Unrecorded(k) # {}}
       ELSE UNCHANGED <<daemon, doubt>>
    /\ worker' = [worker EXCEPT ![w].pc = "rearm"]
    /\ UNCHANGED <<ready, fresh, watch, delta, reapply, seeded, greeted, left>>

\* Wrong on purpose: the values from before the reset stay known.
MutResetRearm(w) ==
    /\ worker[w].pc = "rearm"
    /\ delta' = [delta EXCEPT !.seed = FALSE]
    /\ worker' = [worker EXCEPT ![w] = IdleWorker]
    /\ UNCHANGED <<daemon, ready, fresh, watch, reapply, seeded, greeted, left, doubt>>

Rearmed == [last |-> NoControls, seed |-> FALSE, pending |-> TRUE]

ResetRearm(w) ==
    /\ worker[w].pc = "rearm"
    /\ delta' = Rearmed
    /\ seeded' = {}
    /\ worker' = [worker EXCEPT ![w] = IdleWorker]
    /\ UNCHANGED <<daemon, ready, fresh, watch, reapply, greeted, left, doubt>>

----------------------------------------------------------------------------
(* mediadReapplyKnown. *)

ReapplySnapshot(r) ==
    /\ reapply[r].pc = "snapshot"
    /\ IF DOMAIN delta.last = {}
       THEN /\ delta' = Rearmed
            /\ reapply' = [reapply EXCEPT ![r] = IdleReapply]
            /\ UNCHANGED doubt
       ELSE /\ UNCHANGED delta
            /\ reapply' = [reapply EXCEPT ![r] = [pc |-> "send", todo |-> delta.last]]
            /\ doubt' = doubt \cup {k \in DOMAIN delta.last : Unrecorded(k) # {}}
    /\ UNCHANGED <<daemon, ready, fresh, watch, worker, seeded, greeted, left>>

\* One control, whatever its outcome.
ReapplySend(r) ==
    /\ reapply[r].pc = "send"
    /\ LET k == FirstKey(reapply[r].todo)
           v == reapply[r].todo[k]
           rest == Without(reapply[r].todo, k)
       IN  /\ \/ (SetDone(k, v) \/ SetLost) /\ UNCHANGED doubt
              \/ SetTimesOut(k, v) /\ doubt' = doubt \cup {k}
           /\ reapply' = [reapply EXCEPT ![r] = IF DOMAIN rest = {} THEN IdleReapply
                                               ELSE [pc |-> "send", todo |-> rest]]
    /\ UNCHANGED <<ready, watch, delta, worker, seeded, greeted>>

----------------------------------------------------------------------------
(* mediadWatch, and the cache. *)

\* A look every five seconds: nothing to do without a daemon, a new look at the
\* availability of one that is not ready, and a closer look at a new pid.
WatchSame ==
    /\ watch.pc = "sleep"
    /\ daemon.state # "down" /\ daemon.pid = watch.lastPid
    /\ ~ready
    /\ Detect(FALSE)
    /\ UNCHANGED <<daemon, watch, delta, worker, seeded, greeted, left, doubt>>

WatchNew ==
    /\ watch.pc = "sleep"
    /\ daemon.state # "down" /\ daemon.pid # watch.lastPid
    /\ watch' = [pc |-> "force", lastPid |-> daemon.pid]
    /\ UNCHANGED <<daemon, ready, fresh, delta, worker, reapply, seeded, greeted, left, doubt>>

\* Wrong on purpose: only the cache is dropped, a ready daemon stays ready.
MutWatchForce ==
    /\ watch.pc = "force"
    /\ fresh' = FALSE
    /\ watch' = [watch EXCEPT !.pc = "detect"]
    /\ UNCHANGED <<daemon, ready, delta, worker, reapply, seeded, greeted, left, doubt>>

\* It was pinged for up to ten seconds: force the ready transition.
WatchForce ==
    /\ watch.pc = "force"
    /\ ready' = FALSE /\ fresh' = FALSE
    /\ watch' = [watch EXCEPT !.pc = "detect"]
    /\ UNCHANGED <<daemon, delta, worker, reapply, seeded, greeted, left, doubt>>

\* Also the look of logMediadStatus, which waits for it.
WatchDetect ==
    /\ watch.pc \in {"start", "detect"}
    /\ Detect(fresh)
    /\ watch' = [watch EXCEPT !.pc = "sleep"]
    /\ UNCHANGED <<daemon, delta, worker, seeded, greeted, left, doubt>>

\* mediadRecheckInterval has passed.
CacheExpires ==
    /\ fresh
    /\ fresh' = FALSE
    /\ UNCHANGED <<daemon, ready, watch, delta, worker, reapply, seeded, greeted, left, doubt>>

----------------------------------------------------------------------------
(* The daemon. *)

DaemonDies ==
    /\ daemon.state # "down"
    /\ left.starts > 0
    /\ daemon' = [daemon EXCEPT !.state = "down"]
    /\ UNCHANGED <<ready, fresh, watch, delta, worker, reapply, seeded, greeted, left, doubt>>

DaemonStarts ==
    /\ daemon.state = "down"
    /\ left.starts > 0
    /\ left' = [left EXCEPT !.starts = @ - 1]
    /\ daemon' = [state |-> "booting", pid |-> daemon.pid + 1,
                  val |-> [k \in Keys |-> Default]]
    /\ UNCHANGED <<ready, fresh, watch, delta, worker, reapply, seeded, greeted, doubt>>

\* Its socket answers; a start takes longer than recording a reply does.
DaemonReady ==
    /\ daemon.state = "booting"
    /\ \A w \in Workers : worker[w].pc # "record"
    /\ daemon' = [daemon EXCEPT !.state = "up"]
    /\ UNCHANGED <<ready, fresh, watch, delta, worker, reapply, seeded, greeted, left, doubt>>

----------------------------------------------------------------------------

ApplyStep(w) ==
    \/ ApplyGate(w) \/ ApplyStash(w) \/ ApplyFilter(w) \/ ApplySend(w) \/ ApplyRecord(w)
    \/ ResetGate(w) \/ ResetCommand(w) \/ ResetRearm(w)

ReapplyStep(r) == ReapplySnapshot(r) \/ ReapplySend(r)

WatchStep == WatchSame \/ WatchNew \/ WatchForce \/ WatchDetect

Next ==
    \/ Connect
    \/ \E vals \in [Keys -> Values] :
            Receive(vals) \/ \E w \in Workers : ReceivePartial(w, vals)
    \/ \E w \in Workers : ReceiveReset(w) \/ ApplyStep(w)
    \/ \E r \in Reappliers : ReapplyStep(r)
    \/ WatchStep \/ CacheExpires
    \/ DaemonDies \/ DaemonStarts \/ DaemonReady

Spec == Init /\ [][Next]_vars

\* Goroutines run, the cache expires, and a daemon that is down is started and
\* gets its socket.  Nothing makes the daemon die or the controller send.
Fairness ==
    /\ \A w \in Workers : WF_vars(ApplyStep(w))
    /\ \A r \in Reappliers : WF_vars(ReapplyStep(r))
    /\ WF_vars(WatchStep) /\ WF_vars(CacheExpires)
    /\ WF_vars(DaemonStarts) /\ WF_vars(DaemonReady)

FairSpec == Spec /\ Fairness

----------------------------------------------------------------------------
(* Properties. *)

\* Every variable holds a value the code can put there; a goroutine that sends
\* has something to send.
TypeOK ==
    /\ daemon \in [state : {"down", "booting", "up"}, pid : Nat, val : [Keys -> Values]]
    /\ ready \in BOOLEAN /\ fresh \in BOOLEAN
    /\ watch \in [pc : {"start", "sleep", "force", "detect"}, lastPid : 0..daemon.pid]
    /\ delta \in [last : Controls, seed : BOOLEAN, pending : BOOLEAN]
    /\ \A w \in Workers :
        /\ worker[w].pc \in {"idle", "gate", "stash", "filter", "send", "record",
                             "resetgate", "reset", "rearm"}
        /\ worker[w].todo \in Controls
        /\ worker[w].pc \in {"send", "record"} => DOMAIN worker[w].todo # {}
    /\ \A r \in Reappliers :
        /\ reapply[r].pc \in {"idle", "snapshot", "send"}
        /\ reapply[r].todo \in Controls
        /\ reapply[r].pc = "send" => DOMAIN reapply[r].todo # {}
    /\ seeded \subseteq Keys /\ doubt \subseteq Keys /\ greeted \in BOOLEAN

\* Nothing is on its way, and the client knows the daemon that runs.
Quiet ==
    /\ \A w \in Workers : worker[w].pc = "idle"
    /\ \A r \in Reappliers : reapply[r].pc = "idle"
    /\ watch = [pc |-> "sleep", lastPid |-> daemon.pid]
    /\ ready /\ Responsive

\* mediad_ctl.go:388, "record notes a successfully applied value": when nothing is
\* on its way, the daemon holds every value the client has recorded as applied,
\* whatever goroutines, connections, resets and restarts of the daemon were under
\* way at once, but for a control that two goroutines had in hand at the same time
\* or whose set timed out, until one sets it alone.  An equal value is never sent
\* again, so a difference would stay.
RecordedIsApplied ==
    Quiet => \A k \in DOMAIN delta.last \ (seeded \cup doubt) : daemon.val[k] = delta.last[k]

\* main.go:1904, "the controller's first settings object is full and must be
\* recorded, not re-applied": no part of it is forwarded, unless the daemon is at
\* its defaults and a full apply is due.
FirstObjectRecorded ==
    [][\A w \in Workers :
            worker[w].first /\ worker[w].pc = "filter" /\ worker'[w].pc = "send"
                => delta.pending]_vars

\* mediad_ctl.go:297, "re-sends last-known values to a daemon at its defaults
\* (Protect won't)": a value known while the daemon is down is in force again
\* once it is back, or is no longer the last known one.
KnownRestored ==
    \A k \in Keys, v \in Values :
        (k \in DOMAIN delta.last /\ delta.last[k] = v /\ ~Responsive)
            ~> (\/ Responsive /\ daemon.val[k] = v
                \/ k \notin DOMAIN delta.last
                \/ delta.last[k] # v)

----------------------------------------------------------------------------
(* What the comments promise and the code does not keep. *)

\* mediad_ctl.go:388, without the exemption: two goroutines can send in one order
\* and record in the other, and a set that timed out may have been obeyed.
EveryRecordedApplied ==
    Quiet => \A k \in DOMAIN delta.last \ seeded : daemon.val[k] = delta.last[k]
============================================================================
