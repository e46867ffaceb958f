----------------------------- MODULE StreamSlot -----------------------------
(***************************************************************************)
(* What the bridge's connection manager promises, without its threads,     *)
(* mutexes and retries: per channel at most one connection, only while the *)
(* channel is wanted, each with one writer of its own, which alone gives   *)
(* it up.  FlvConn implements this (FlvPush.cpp: doConnect, doDisconnect,  *)
(* pushThreadMain).                                                        *)
(***************************************************************************)
EXTENDS Naturals

CONSTANTS Channels, Fds, None

VARIABLES
    wanted,     \* the channels that are to have a connection
    dialled,    \* a socket that is connected and no channel's yet
    link,       \* per channel: the socket of its connection
    session,    \* per channel: how many connections were made or torn down by command
    writer      \* per channel: "none", "due" for a new connection, "runs"

slotVars == <<wanted, dialled, link, session, writer>>

Init ==
    /\ wanted = [c \in Channels |-> FALSE]
    /\ dialled = None
    /\ link = [c \in Channels |-> None]
    /\ session = [c \in Channels |-> 0]
    /\ writer = [c \in Channels |-> "none"]

\* A CONNECT, or a retry that takes the channel to be wanted still.
Want(c) ==
    /\ wanted' = [wanted EXCEPT ![c] = TRUE]
    /\ UNCHANGED <<dialled, link, session, writer>>

\* A socket nobody uses.
Dial(fd) ==
    /\ dialled = None
    /\ \A c \in Channels : link[c] # fd
    /\ dialled' = fd
    /\ UNCHANGED <<wanted, link, session, writer>>

\* The new connection replaces the one before it, and its writer is still to come.
Establish(c) ==
    /\ wanted[c] /\ dialled # None
    /\ link' = [link EXCEPT ![c] = dialled]
    /\ dialled' = None
    /\ session' = [session EXCEPT ![c] = @ + 1]
    /\ writer' = [writer EXCEPT ![c] = "due"]
    /\ UNCHANGED wanted

Serve(c) ==
    /\ writer[c] = "due"
    /\ writer' = [writer EXCEPT ![c] = "runs"]
    /\ UNCHANGED <<wanted, dialled, link, session>>

\* The writer gives up its own connection, never one whose writer is still to come.
Lose(c) ==
    /\ writer[c] = "runs"
    /\ link' = [link EXCEPT ![c] = None]
    /\ writer' = [writer EXCEPT ![c] = "none"]
    /\ UNCHANGED <<wanted, dialled, session>>

\* A DISCONNECT.
Unwant(c) ==
    /\ wanted' = [wanted EXCEPT ![c] = FALSE]
    /\ link' = [link EXCEPT ![c] = None]
    /\ writer' = [writer EXCEPT ![c] = "none"]
    /\ session' = IF link[c] = None THEN session ELSE [session EXCEPT ![c] = @ + 1]
    /\ UNCHANGED dialled

Next ==
    \/ \E fd \in Fds : Dial(fd)
    \/ \E c \in Channels : Want(c) \/ Establish(c) \/ Serve(c) \/ Lose(c) \/ Unwant(c)

Spec == Init /\ [][Next]_slotVars
=============================================================================
