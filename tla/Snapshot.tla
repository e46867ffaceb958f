------------------------------ MODULE Snapshot ------------------------------
(***************************************************************************)
(* Snapshot requests (handleGetRequest in src/goclient/main.go): each runs *)
(* in a goroutine of its own, grabs a picture under a mutex and with a     *)
(* deadline, falls back on the last picture of its resolution if that      *)
(* fails, and uploads it.  Time is a clock with a coarse tick.             *)
(***************************************************************************)
EXTENDS Naturals, FiniteSets

CONSTANTS
    Requests,       \* GetRequest messages
    Nobody,         \* none of them
    Resolutions,    \* "high" and "low"
    MinTimeout,     \* minSnapshotTimeout, in ticks
    MaxTimeout,     \* maxSnapshotTimeout
    Granted,        \* how long the controller waits: 60 s
    CacheTTL,       \* snapshotCacheTTL
    MaxTime         \* bound: ticks

VARIABLES
    now,            \* the clock
    grab,           \* holder of snapshotGrabMu, if any
    request,        \* per request: program counter, resolution, times, its picture
    cache           \* per resolution: snapshotAt and when the picture was taken

vars == <<now, grab, request, cache>>

\* No time.
Never == MaxTime + 1

Init ==
    /\ now = 0 /\ grab = Nobody
    /\ request = [r \in Requests |-> [pc |-> "none", res |-> "none", timeout |-> 0,
                                      asked |-> 0, from |-> 0, picture |-> Never]]
    /\ cache = [res \in Resolutions |-> [at |-> Never, picture |-> Never]]

Goes(r, pc) == request' = [request EXCEPT ![r].pc = pc]

\* Wrong on purpose: no upper limit.
MutSnapshotTimeout(ms) == IF ms < MinTimeout THEN MinTimeout ELSE ms
\* snapshotTimeout: what the controller asks for, within limits.
SnapshotTimeout(ms) ==
    IF ms < MinTimeout THEN MinTimeout ELSE IF ms > MaxTimeout THEN MaxTimeout ELSE ms

\* The deadline is fixed when the request arrives, but counts from the grab.
Ask(r, res, ms) ==
    /\ request[r].pc = "none"
    /\ request' = [request EXCEPT ![r] = [@ EXCEPT !.pc = "lock", !.res = res, !.asked = now,
                                                   !.timeout = SnapshotTimeout(ms)]]
    /\ UNCHANGED <<now, grab, cache>>

BeginGrab(r) ==
    /\ request[r].pc = "lock" /\ grab = Nobody
    /\ grab' = r
    /\ request' = [request EXCEPT ![r].pc = "grab", ![r].from = now]
    /\ UNCHANGED <<now, cache>>

\* yi_protect_snapshot returns a picture; the mutex is released before it is stored.
GrabDone(r) ==
    /\ request[r].pc = "grab"
    /\ grab' = Nobody
    /\ request' = [request EXCEPT ![r].pc = "store", ![r].picture = now]
    /\ UNCHANGED <<now, cache>>

\* It fails, or the deadline kills it.
GrabFails(r) ==
    /\ request[r].pc = "grab"
    /\ grab' = Nobody
    /\ Goes(r, "fallback")
    /\ UNCHANGED <<now, cache>>

StoreSnapshot(r) ==
    /\ request[r].pc = "store"
    /\ cache' = [cache EXCEPT ![request[r].res] = [at |-> now, picture |-> request[r].picture]]
    /\ Goes(r, "upload")
    /\ UNCHANGED <<now, grab>>

\* cachedSnapshot: the last picture of this resolution, unless it is too old.
Usable(res) == cache[res].at # Never /\ now - cache[res].at <= CacheTTL

Fallback(r) ==
    /\ request[r].pc = "fallback"
    /\ LET res == request[r].res
       IN  request' = IF Usable(res)
                      THEN [request EXCEPT ![r].pc = "upload", ![r].picture = cache[res].picture]
                      ELSE [request EXCEPT ![r].pc = "done"]
    /\ UNCHANGED <<now, grab, cache>>

\* The upload succeeds or fails, within 30 s.
Upload(r) ==
    /\ request[r].pc = "upload"
    /\ Goes(r, "done")
    /\ UNCHANGED <<now, grab, cache>>

\* Time passes while the camera or the network is awaited, never past a deadline;
\* everything else takes no time.
Tick ==
    /\ now < MaxTime
    /\ \A r \in Requests :
        /\ request[r].pc \in {"none", "lock", "grab", "upload", "done"}
        /\ request[r].pc = "lock" => grab # Nobody
        /\ request[r].pc = "grab" => now < request[r].from + request[r].timeout
    /\ now' = now + 1
    /\ UNCHANGED <<grab, request, cache>>

RequestStep(r) ==
    \/ BeginGrab(r) \/ GrabDone(r) \/ GrabFails(r) \/ StoreSnapshot(r)
    \/ Fallback(r) \/ Upload(r)

Next ==
    \/ \E r \in Requests : RequestStep(r) \/ \E res \in Resolutions, ms \in 0..Granted : Ask(r, res, ms)
    \/ Tick

----------------------------------------------------------------------------
(* Properties. *)

\* Every variable holds a value the code can put there; a request that grabs holds
\* the mutex.
TypeOK ==
    /\ now \in 0..MaxTime /\ grab \in Requests \cup {Nobody}
    /\ request \in [Requests -> [pc : {"none", "lock", "grab", "store", "fallback", "upload",
                                       "done"},
                                 res : Resolutions \cup {"none"}, timeout : 0..MaxTimeout,
                                 asked : 0..MaxTime, from : 0..MaxTime, picture : 0..Never]]
    /\ cache \in [Resolutions -> [at : 0..Never, picture : 0..Never]]
    /\ \A r \in Requests : request[r].pc = "grab" => grab = r

\* Requests queue for the camera, and each costs those behind it at most the longest
\* deadline: the outcome of the last is known after as many deadlines as there are
\* requests, whatever the controller asked for.
AnsweredInTurn ==
    \A r \in Requests : request[r].pc \in {"lock", "grab"} =>
        now - request[r].asked <= MaxTimeout * Cardinality(Requests)

\* main.go:1586, "headroom below the controller's granted deadline (60s observed) so
\* we always log the outcome before it gives up".
AnsweredBeforeDeadline ==
    \A r \in Requests : request[r].pc \in {"lock", "grab"} => now - request[r].asked <= Granted
==============================================================================
