----------------------------- MODULE Starvation -----------------------------
(***************************************************************************)
(* The self-healing exit of flv_bridge's push threads (FlvPush.cpp): a     *)
(* channel whose queue has been empty for 20 s ends the whole process, and *)
(* watchdog.sh starts it again.  Time is a clock with a coarse tick, within *)
(* which every connected channel is polled (the code polls every 5 ms).    *)
(***************************************************************************)
EXTENDS Naturals

CONSTANTS
    Channels,       \* FLV_CH_HIGH, FLV_CH_LOW, FLV_CH_MED
    Limit,          \* the 20 s, in ticks
    MaxTime         \* bound: ticks

ASSUME TimeAssumption == Limit \in Nat \ {0} /\ MaxTime \in Nat

VARIABLES
    now,            \* CLOCK_MONOTONIC; starts after the process, never 0
    running,        \* the process is up
    up,             \* channels with a connection
    queued,         \* channels with a frame in their queue
    polled,         \* channels polled since the last tick
    lastFrameSec,   \* the static of the same name, 0 until it is first set
    fed             \* when the connection came up or last got a frame

vars == <<now, running, up, queued, polled, lastFrameSec, fed>>

Init ==
    /\ now = 1 /\ running = TRUE
    /\ up = {} /\ queued = {} /\ polled = {}
    /\ lastFrameSec = [c \in Channels |-> 0]
    /\ fed = [c \in Channels |-> 0]

Connect(c) ==
    /\ running
    /\ up' = up \cup {c}
    /\ fed' = [fed EXCEPT ![c] = now]
    /\ polled' = polled \ {c}
    /\ UNCHANGED <<now, running, queued, lastFrameSec>>

Disconnect(c) ==
    /\ c \in up
    /\ up' = up \ {c}
    /\ UNCHANGED <<now, running, queued, polled, lastFrameSec, fed>>

\* flvPushEnqueue, a no-op on a channel without a connection.
FrameArrives(c) ==
    /\ c \in up
    /\ queued' = queued \cup {c}
    /\ UNCHANGED <<now, running, up, polled, lastFrameSec, fed>>

\* The push thread finds a frame.
PollFrame(c) ==
    /\ c \in up /\ c \in queued
    /\ queued' = queued \ {c}
    /\ polled' = polled \cup {c}
    /\ lastFrameSec' = [lastFrameSec EXCEPT ![c] = now]
    /\ fed' = [fed EXCEPT ![c] = now]
    /\ UNCHANGED <<now, running, up>>

since(c) == IF lastFrameSec[c] = 0 THEN now ELSE lastFrameSec[c]

\* Wrong on purpose: an empty poll counts as a sign of life.
MutPollEmpty(c) ==
    /\ c \in up /\ c \notin queued
    /\ polled' = polled \cup {c}
    /\ lastFrameSec' = [lastFrameSec EXCEPT ![c] = now]
    /\ UNCHANGED <<now, running, up, queued, fed>>

\* It finds none: the process goes on within the limit and exits beyond it,
\* taking every channel's connection and all its memory along.
PollEmpty(c) ==
    /\ c \in up /\ c \notin queued
    /\ IF now - since(c) > Limit
       THEN /\ running' = FALSE /\ up' = {} /\ queued' = {} /\ polled' = {}
            /\ lastFrameSec' = [d \in Channels |-> 0]
       ELSE /\ polled' = polled \cup {c}
            /\ lastFrameSec' = [lastFrameSec EXCEPT ![c] = since(c)]
            /\ UNCHANGED <<running, up, queued>>
    /\ UNCHANGED <<now, fed>>

\* watchdog.sh starts the bridge again.
Restart ==
    /\ ~running
    /\ running' = TRUE
    /\ UNCHANGED <<now, up, queued, polled, lastFrameSec, fed>>

Tick ==
    /\ now < MaxTime
    /\ up \subseteq polled
    /\ now' = now + 1
    /\ polled' = {}
    /\ UNCHANGED <<running, up, queued, lastFrameSec, fed>>

Next ==
    \/ \E c \in Channels :
            Connect(c) \/ Disconnect(c) \/ FrameArrives(c) \/ PollFrame(c) \/ PollEmpty(c)
    \/ Restart \/ Tick

Spec == Init /\ [][Next]_vars

----------------------------------------------------------------------------

\* No connected channel stays without video for longer than the limit and the
\* tick in which the next poll notices: the bridge is restarted by then.
StarvedChannelExits ==
    \A c \in up : now - fed[c] <= Limit + 1

\* The variables' types; the clock of a connected channel is never younger than
\* its last frame.
TypeOK ==
    /\ now \in 1..(MaxTime + 1) /\ running \in BOOLEAN
    /\ up \subseteq Channels /\ queued \subseteq Channels /\ polled \subseteq Channels
    /\ lastFrameSec \in [Channels -> 0..now]
    /\ fed \in [Channels -> 0..now]
    /\ \A c \in up : lastFrameSec[c] <= fed[c]

\* FlvPush.cpp:915, "a connected channel with no video for 20 s": the process
\* exits only on a channel that was connected for that long without video.
ExitOnlyWhenStarved ==
    [][running /\ ~running' => \E c \in up : now - fed[c] > Limit]_vars
============================================================================
