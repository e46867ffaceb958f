------------------------------ MODULE FlvConn ------------------------------
(***************************************************************************)
(* The connection manager of flv_bridge (src/flv_bridge/FlvPush.cpp): one  *)
(* control thread that reads CONNECT and DISCONNECT commands from a FIFO,  *)
(* detached retry threads that re-dial a vanished peer, and one push       *)
(* thread per established connection.  A critical section of a channel's   *)
(* stateMutex is one step; everything outside it interleaves.              *)
(*                                                                         *)
(* Sockets are kernel file descriptors, so a number closed by one thread   *)
(* may be handed out again while another thread still holds it.            *)
(***************************************************************************)
EXTENDS Naturals, FiniteSets

CONSTANTS
    Channels,       \* FLV_CH_HIGH, FLV_CH_LOW, FLV_CH_MED
    Hosts,          \* host:port a CONNECT may name
    Streams,        \* stream names a CONNECT may name
    Fds,            \* file descriptor numbers
    RetryThreads,   \* slots for retryThreadMain threads
    PushThreads,    \* slots for pushThreadMain threads
    Ctl,            \* the control thread
    None,           \* no channel, host, stream, descriptor or thread
    MaxCommands,    \* bound: CONNECT and DISCONNECT commands read
    MaxFails,       \* bound: connect(2) calls that fail
    MaxDrops        \* bound: peers that close or stop reading

ASSUME NoneAssumption ==
    /\ None \notin Channels \cup Hosts \cup Streams \cup Fds
    /\ None \notin RetryThreads \cup PushThreads \cup {Ctl}
    /\ Ctl \notin RetryThreads

ASSUME BoundsAssumption ==
    MaxCommands \in Nat /\ MaxFails \in Nat /\ MaxDrops \in Nat

\* The threads that may run doConnect.
SetupThreads == RetryThreads \cup {Ctl}

VARIABLES
    generation,     \* ChannelState.generation
    activeFd,       \* ChannelState.activeFd (None is -1)
    host,           \* ChannelState.host, .port
    streamName,     \* ChannelState.streamName
    wanted,         \* ChannelState.wantConnected
    connectMutex,   \* holder of g_connectMutex
    setup,          \* program counter and locals of the control and retry threads
    push,           \* program counter and locals of the push threads
    peer,           \* per descriptor: closed, or open with what its far end does
    wrote,          \* per open descriptor: the connections whose bytes it carried
    requested,      \* every <<channel, host, stream>> a CONNECT has named
    left            \* what remains of the bounds on the environment

chanVars == <<generation, activeFd, host, streamName, wanted>>
sockVars == <<peer, wrote>>
vars == <<chanVars, connectMutex, setup, push, sockVars, requested, left>>

----------------------------------------------------------------------------
(* Threads and sockets at rest. *)

IdleSetup == [pc |-> "idle", ch |-> None, host |-> None, stream |-> None,
              gen |-> 0, fd |-> None]
IdlePush == [pc |-> "idle", ch |-> None, host |-> None, stream |-> None,
             gen |-> 0, fd |-> None]

open == {fd \in Fds : peer[fd] # "none"}

Init ==
    /\ generation = [c \in Channels |-> 0]
    /\ activeFd = [c \in Channels |-> None]
    /\ host = [c \in Channels |-> None]
    /\ streamName = [c \in Channels |-> None]
    /\ wanted = [c \in Channels |-> FALSE]
    /\ connectMutex = None
    /\ setup = [t \in SetupThreads |-> IdleSetup]
    /\ push = [p \in PushThreads |-> IdlePush]
    /\ peer = [fd \in Fds |-> "none"]
    /\ wrote = [fd \in Fds |-> {}]
    /\ requested = {}
    /\ left = [commands |-> MaxCommands, fails |-> MaxFails, drops |-> MaxDrops]

\* close(fd): a no-op (EBADF) on a number that is not open.
CloseFd(fd) ==
    /\ peer' = [f \in Fds |-> IF f = fd THEN "none" ELSE peer[f]]
    /\ wrote' = [f \in Fds |-> IF f = fd THEN {} ELSE wrote[f]]

\* scheduleReconnect, called by thread t: the new retry thread sleeps before it
\* looks at the channel.  A retry thread that re-arms ends there, so its
\* successor takes its slot.
ScheduleFrom(t, r, c, gen, h, s) ==
    /\ r \in RetryThreads
    /\ r = t \/ setup[r].pc = "idle"
    /\ setup' = [setup EXCEPT
                    ![t] = IdleSetup,
                    ![r] = [pc |-> "sleep", ch |-> c, host |-> h, stream |-> s,
                            gen |-> gen, fd |-> None]]

----------------------------------------------------------------------------
(* ctlThreadMain: one command at a time, each run to its end. *)

\* "CONNECT host stream channel" has been read; doConnect is about to be called.
CtlConnect(c, h, s) ==
    /\ setup[Ctl].pc = "idle"
    /\ left.commands > 0
    /\ setup' = [setup EXCEPT ![Ctl] = [pc |-> "ready", ch |-> c, host |-> h,
                                        stream |-> s, gen |-> 0, fd |-> None]]
    /\ requested' = requested \cup {<<c, h, s>>}
    /\ left' = [left EXCEPT !.commands = @ - 1]
    /\ UNCHANGED <<chanVars, connectMutex, push, sockVars>>

\* Wrong on purpose: DISCONNECT takes the generation back instead of forward.
MutDisconnectRollback(c) ==
    /\ setup[Ctl].pc = "idle"
    /\ left.commands > 0
    /\ connectMutex = None
    /\ left' = [left EXCEPT !.commands = @ - 1]
    /\ wanted' = [wanted EXCEPT ![c] = FALSE]
    /\ CloseFd(activeFd[c])
    /\ generation' = [generation EXCEPT ![c] = @ - 1]
    /\ activeFd' = [activeFd EXCEPT ![c] = None]
    /\ streamName' = [streamName EXCEPT ![c] = None]
    /\ UNCHANGED <<host, connectMutex, setup, push, requested>>

\* "DISCONNECT channel": doDisconnect holds both mutexes throughout.
CtlDisconnect(c) ==
    /\ setup[Ctl].pc = "idle"
    /\ left.commands > 0
    /\ connectMutex = None
    /\ left' = [left EXCEPT !.commands = @ - 1]
    /\ wanted' = [wanted EXCEPT ![c] = FALSE]
    /\ IF activeFd[c] # None
       THEN /\ CloseFd(activeFd[c])
            /\ generation' = [generation EXCEPT ![c] = @ + 1]
            /\ activeFd' = [activeFd EXCEPT ![c] = None]
            /\ streamName' = [streamName EXCEPT ![c] = None]
       ELSE UNCHANGED <<generation, activeFd, streamName, sockVars>>
    /\ UNCHANGED <<host, connectMutex, setup, push, requested>>

----------------------------------------------------------------------------
(* retryThreadMain. *)

\* After FLV_RETRY_INTERVAL_MS: give up unless the channel is still wanted and
\* no connection was installed or torn down meanwhile.
RetryWake(r) ==
    /\ setup[r].pc = "sleep"
    /\ LET c == setup[r].ch
           still == generation[c] = setup[r].gen /\ wanted[c]
       IN  setup' = [setup EXCEPT ![r] = IF still THEN [@ EXCEPT !.pc = "ready"]
                                                  ELSE IdleSetup]
    /\ UNCHANGED <<chanVars, connectMutex, push, sockVars, requested, left>>

----------------------------------------------------------------------------
(* doConnect, run by the control thread or by a retry thread. *)

\* Take g_connectMutex and record the target and the desired state.
ConnectBegin(t) ==
    /\ setup[t].pc = "ready"
    /\ connectMutex = None
    /\ connectMutex' = t
    /\ LET a == setup[t]
       IN  /\ host' = [host EXCEPT ![a.ch] = a.host]
           /\ streamName' = [streamName EXCEPT ![a.ch] = a.stream]
           /\ wanted' = [wanted EXCEPT ![a.ch] = TRUE]
    /\ setup' = [setup EXCEPT ![t].pc = "dialling"]
    /\ UNCHANGED <<generation, activeFd, push, sockVars, requested, left>>

\* connectTo returned -1: refused, unreachable, or no descriptor left.
DialFails(t) ==
    /\ setup[t].pc = "dialling"
    /\ left.fails > 0
    /\ left' = [left EXCEPT !.fails = @ - 1]
    /\ setup' = [setup EXCEPT ![t].pc = "failed"]
    /\ connectMutex' = None
    /\ UNCHANGED <<chanVars, push, sockVars, requested>>

\* connectTo returned a socket.
DialSucceeds(t, fd) ==
    /\ setup[t].pc = "dialling"
    /\ fd \notin open
    /\ peer' = [peer EXCEPT ![fd] = "reading"]
    /\ setup' = [setup EXCEPT ![t].pc = "dialled", ![t].fd = fd]
    /\ UNCHANGED <<chanVars, connectMutex, push, wrote, requested, left>>

\* Wrong on purpose: a failed CONNECT is not re-armed.
MutConnectRearm(t, r) ==
    /\ setup[t].pc = "failed"
    /\ setup' = [setup EXCEPT ![t] = IdleSetup]
    /\ r = r
    /\ UNCHANGED <<chanVars, connectMutex, push, sockVars, requested, left>>

\* The failed dial re-arms a retry, under the generation it reads by now.
ConnectRearm(t, r) ==
    /\ setup[t].pc = "failed"
    /\ LET a == setup[t]
       IN  ScheduleFrom(t, r, a.ch, generation[a.ch], a.host, a.stream)
    /\ UNCHANGED <<chanVars, connectMutex, push, sockVars, requested, left>>

\* Wrong on purpose: the new connection keeps the old generation.
MutConnectInstall(t) ==
    /\ setup[t].pc = "dialled"
    /\ LET c == setup[t].ch
       IN  /\ CloseFd(activeFd[c])
           /\ activeFd' = [activeFd EXCEPT ![c] = setup[t].fd]
           /\ streamName' = [streamName EXCEPT ![c] = setup[t].stream]
           /\ setup' = [setup EXCEPT ![t].pc = "spawn", ![t].gen = generation[c]]
    /\ connectMutex' = None
    /\ UNCHANGED <<generation, host, wanted, push, requested, left>>

\* Wrong on purpose: the superseded socket is not closed.
MutInstallNoClose(t) ==
    /\ setup[t].pc = "dialled"
    /\ LET c == setup[t].ch
       IN  /\ generation' = [generation EXCEPT ![c] = @ + 1]
           /\ activeFd' = [activeFd EXCEPT ![c] = setup[t].fd]
           /\ streamName' = [streamName EXCEPT ![c] = setup[t].stream]
           /\ setup' = [setup EXCEPT ![t].pc = "spawn", ![t].gen = generation[c] + 1]
    /\ connectMutex' = None
    /\ UNCHANGED <<host, wanted, push, sockVars, requested, left>>

\* The socket becomes the channel's connection; the one it replaces is closed
\* here, and its push thread is orphaned by the new generation.
ConnectInstall(t) ==
    /\ setup[t].pc = "dialled"
    /\ LET c == setup[t].ch
       IN  /\ CloseFd(activeFd[c])
           /\ generation' = [generation EXCEPT ![c] = @ + 1]
           /\ activeFd' = [activeFd EXCEPT ![c] = setup[t].fd]
           /\ streamName' = [streamName EXCEPT ![c] = setup[t].stream]
           /\ setup' = [setup EXCEPT ![t].pc = "spawn", ![t].gen = generation[c] + 1]
    /\ connectMutex' = None
    /\ UNCHANGED <<host, wanted, push, requested, left>>

\* pthread_create of the push thread, after both mutexes are released.
ConnectSpawn(t, p) ==
    /\ setup[t].pc = "spawn"
    /\ push[p].pc = "idle"
    /\ push' = [push EXCEPT ![p] = [IdlePush EXCEPT !.pc = "starting",
                                                    !.ch = setup[t].ch,
                                                    !.gen = setup[t].gen]]
    /\ setup' = [setup EXCEPT ![t] = IdleSetup]
    /\ UNCHANGED <<chanVars, connectMutex, sockVars, requested, left>>

----------------------------------------------------------------------------
(* pushThreadMain. *)

\* What the thread finds in the channel when it starts; no mutex is held.
PushStart(p) ==
    /\ push[p].pc = "starting"
    /\ push' = [push EXCEPT ![p].pc = "header",
                            ![p].fd = activeFd[push[p].ch],
                            ![p].stream = streamName[push[p].ch]]
    /\ UNCHANGED <<chanVars, connectMutex, setup, sockVars, requested, left>>

\* peerStillAlive: recv() sees an orderly close or a closed descriptor, and
\* cannot see a peer that merely stopped reading.
MutPeerStillAlive(fd) == TRUE
PeerStillAlive(fd) == fd \in open /\ peer[fd] # "closed"

\* The outcomes of writeAll: a descriptor that is not open fails, a stalled
\* peer fails once SO_SNDTIMEO expires, a closed one is noticed sooner or later.
WriteOutcomes(fd) ==
    IF fd \notin open THEN {FALSE}
    ELSE CASE peer[fd] = "reading" -> {TRUE}
           [] peer[fd] = "closed"  -> {TRUE, FALSE}
           [] peer[fd] = "stalled" -> {FALSE}

\* One writeAll to the descriptor the thread holds, then on to pc.
PushWrites(p, next) ==
    \E ok \in WriteOutcomes(push[p].fd) :
        /\ push' = [push EXCEPT ![p].pc = IF ok THEN next ELSE "ending"]
        /\ IF ok
           THEN wrote' = [wrote EXCEPT ![push[p].fd] =
                                @ \cup {<<push[p].ch, push[p].gen>>}]
           ELSE UNCHANGED wrote

\* The initial write: FLV header, onMetaData and the sequence headers.
PushHeader(p) ==
    /\ push[p].pc = "header"
    /\ PushWrites(p, "loop")
    /\ UNCHANGED <<chanVars, connectMutex, setup, peer, requested, left>>

\* Top of the loop: leave when superseded or when the peer is gone.
PushCheck(p) ==
    /\ push[p].pc = "loop"
    /\ push' = [push EXCEPT ![p].pc =
                    IF generation[push[p].ch] = push[p].gen /\ PeerStillAlive(push[p].fd)
                    THEN "body" ELSE "ending"]
    /\ UNCHANGED <<chanVars, connectMutex, setup, sockVars, requested, left>>

\* The body drains the queues into the descriptor without a second look at the
\* generation.
PushBody(p) ==
    /\ push[p].pc = "body"
    /\ PushWrites(p, "loop")
    /\ UNCHANGED <<chanVars, connectMutex, setup, peer, requested, left>>

\* Wrong on purpose: the exit section does not compare generations.
MutPushEnd(p) ==
    /\ push[p].pc = "ending"
    /\ LET c == push[p].ch
       IN  /\ CloseFd(activeFd[c])
           /\ activeFd' = [activeFd EXCEPT ![c] = None]
           /\ streamName' = [streamName EXCEPT ![c] = None]
           /\ push' = [push EXCEPT ![p] =
                          IF wanted[c] /\ host[c] # None
                          THEN [@ EXCEPT !.pc = "redial", !.host = host[c]]
                          ELSE IdlePush]
    /\ UNCHANGED <<generation, host, wanted, connectMutex, setup, requested, left>>

\* Wrong on purpose: a thread that lost its peer does not ask for a re-dial.
MutPushEndNoRetry(p) ==
    /\ push[p].pc = "ending"
    /\ LET c == push[p].ch
       IN  /\ IF generation[c] = push[p].gen
              THEN /\ CloseFd(activeFd[c])
                   /\ activeFd' = [activeFd EXCEPT ![c] = None]
                   /\ streamName' = [streamName EXCEPT ![c] = None]
              ELSE UNCHANGED <<activeFd, streamName, sockVars>>
           /\ push' = [push EXCEPT ![p] = IdlePush]
    /\ UNCHANGED <<generation, host, wanted, connectMutex, setup, requested, left>>

\* The exit section, under stateMutex: only the thread of the current
\* generation closes the connection, and it re-dials if the channel is wanted.
PushEnd(p) ==
    /\ push[p].pc = "ending"
    /\ LET c == push[p].ch
           current == generation[c] = push[p].gen
       IN  /\ IF current
              THEN /\ CloseFd(activeFd[c])
                   /\ activeFd' = [activeFd EXCEPT ![c] = None]
                   /\ streamName' = [streamName EXCEPT ![c] = None]
              ELSE UNCHANGED <<activeFd, streamName, sockVars>>
           /\ push' = [push EXCEPT ![p] =
                          IF current /\ wanted[c] /\ host[c] # None
                          THEN [@ EXCEPT !.pc = "redial", !.host = host[c]]
                          ELSE IdlePush]
    /\ UNCHANGED <<generation, host, wanted, connectMutex, setup, requested, left>>

\* scheduleReconnect with the channel's host and the thread's own stream name.
PushRedial(p, r) ==
    /\ push[p].pc = "redial"
    /\ setup[r].pc = "idle"
    /\ ScheduleFrom(r, r, push[p].ch, push[p].gen, push[p].host, push[p].stream)
    /\ push' = [push EXCEPT ![p] = IdlePush]
    /\ UNCHANGED <<chanVars, connectMutex, sockVars, requested, left>>

----------------------------------------------------------------------------
(* The far end. *)

\* A peer closes the connection, or stops reading it.
PeerLeaves(fd, how) ==
    /\ peer[fd] = "reading"
    /\ left.drops > 0
    /\ how \in {"closed", "stalled"}
    /\ peer' = [peer EXCEPT ![fd] = how]
    /\ left' = [left EXCEPT !.drops = @ - 1]
    /\ UNCHANGED <<chanVars, connectMutex, setup, push, wrote, requested>>

----------------------------------------------------------------------------

SetupStep(t) ==
    \/ ConnectBegin(t)
    \/ DialFails(t)
    \/ \E fd \in Fds : DialSucceeds(t, fd)
    \/ \E r \in RetryThreads : ConnectRearm(t, r)
    \/ ConnectInstall(t)
    \/ \E p \in PushThreads : ConnectSpawn(t, p)

PushStep(p) ==
    \/ PushStart(p)
    \/ PushHeader(p)
    \/ PushCheck(p)
    \/ PushBody(p)
    \/ PushEnd(p)
    \/ \E r \in RetryThreads : PushRedial(p, r)

\* The bridge waits for commands that the bound no longer sends; any other state
\* without a step is a deadlock.
AtRest ==
    /\ left.commands = 0
    /\ \A t \in SetupThreads : setup[t].pc = "idle"
    /\ \A p \in PushThreads : push[p].pc = "idle"
    /\ UNCHANGED vars

Next ==
    \/ \E c \in Channels, h \in Hosts, s \in Streams : CtlConnect(c, h, s)
    \/ \E c \in Channels : CtlDisconnect(c)
    \/ \E r \in RetryThreads : RetryWake(r)
    \/ \E t \in SetupThreads : SetupStep(t)
    \/ \E p \in PushThreads : PushStep(p)
    \/ \E fd \in Fds, how \in {"closed", "stalled"} : PeerLeaves(fd, how)
    \/ AtRest

Spec == Init /\ [][Next]_vars

\* Threads are scheduled; commands, failures and departing peers owe nothing.
\* DialFails needs no fairness of its own: a dial that returns at all is one
\* of its two outcomes.
Fairness ==
    /\ \A r \in RetryThreads : WF_vars(RetryWake(r))
    /\ \A t \in SetupThreads : WF_vars(SetupStep(t))
    /\ \A p \in PushThreads : WF_vars(PushStep(p))

FairSpec == Spec /\ Fairness

----------------------------------------------------------------------------
(* Types. *)

SetupPcs == {"idle", "ready", "sleep", "dialling", "dialled", "failed", "spawn"}
PushPcs == {"idle", "starting", "header", "loop", "body", "ending", "redial"}
PeerStates == {"none", "reading", "closed", "stalled"}

Locals(pcs) == [pc : pcs, ch : Channels \cup {None}, host : Hosts \cup {None},
                stream : Streams \cup {None}, gen : Nat, fd : Fds \cup {None}]

ChannelTypeOK ==
    /\ generation \in [Channels -> Nat]
    /\ activeFd \in [Channels -> Fds \cup {None}]
    /\ host \in [Channels -> Hosts \cup {None}]
    /\ streamName \in [Channels -> Streams \cup {None}]
    /\ wanted \in [Channels -> BOOLEAN]
    /\ connectMutex \in SetupThreads \cup {None}

ThreadTypeOK ==
    /\ setup \in [SetupThreads -> Locals(SetupPcs)]
    /\ push \in [PushThreads -> Locals(PushPcs)]

\* A thread that is not idle works for a channel.
EmployedOK ==
    /\ \A t \in SetupThreads : setup[t].pc # "idle" => setup[t].ch \in Channels
    /\ \A p \in PushThreads : push[p].pc # "idle" => push[p].ch \in Channels

WorldTypeOK ==
    /\ peer \in [Fds -> PeerStates]
    /\ wrote \in [Fds -> SUBSET (Channels \X Nat)]
    /\ requested \in SUBSET (Channels \X Hosts \X Streams)
    /\ left \in [commands : 0..MaxCommands, fails : 0..MaxFails, drops : 0..MaxDrops]

\* The shared channel state, the threads' locals and the descriptors hold values
\* the code can put there, and a thread that is not idle works for a channel.
TypeOK == ChannelTypeOK /\ ThreadTypeOK /\ EmployedOK /\ WorldTypeOK

----------------------------------------------------------------------------
(* Safety. *)

\* The sockets of the process are exactly the channels' connections and the
\* one a thread has just dialled: no superseded, disconnected or lost
\* connection leaks its descriptor, and no channel holds a closed one
\* (FlvPush.cpp closes in doConnect, doDisconnect and the push thread's exit).
NoFdLeak ==
    open = {activeFd[c] : c \in {d \in Channels : activeFd[d] # None}}
           \cup {setup[t].fd : t \in {u \in SetupThreads : setup[u].pc = "dialled"}}

\* Two channels never share a connection, and a socket still being set up
\* belongs to none: closing one channel cannot cut another's stream.
NoSharedFd ==
    /\ \A c, d \in Channels : activeFd[c] # None /\ activeFd[c] = activeFd[d] => c = d
    /\ \A c \in Channels, t \in SetupThreads :
            setup[t].pc = "dialled" => activeFd[c] # setup[t].fd

Serves(p, c) == push[p].pc # "idle" /\ push[p].ch = c /\ push[p].gen = generation[c]
AboutToServe(t, c) ==
    setup[t].pc = "spawn" /\ setup[t].ch = c /\ setup[t].gen = generation[c]

\* A live connection is pumped by exactly one thread of its generation, already
\* running or about to be created: never none (a silent stream) and never two
\* (the generation hand-off of doConnect).
OneWriterPerConnection ==
    \A c \in Channels : activeFd[c] # None =>
        Cardinality({p \in PushThreads : Serves(p, c)})
            + Cardinality({t \in SetupThreads : AboutToServe(t, c)}) = 1

\* The thread that still matches its channel's generation holds the channel's
\* own socket, so its exit section closes the socket it wrote to.
CurrentThreadHoldsActiveFd ==
    \A p \in PushThreads :
        push[p].pc \in {"header", "loop", "body", "ending"}
            /\ push[p].gen = generation[push[p].ch]
        => push[p].fd = activeFd[push[p].ch] /\ push[p].fd # None

\* A thread that will bring the channel's connection up, or keep it up.
Tends(t, c) ==
    /\ setup[t].ch = c
    /\ \/ setup[t].pc \in {"ready", "dialling", "dialled", "failed"}
       \/ setup[t].pc \in {"sleep", "spawn"} /\ setup[t].gen = generation[c]

\* A channel the controller wants is never abandoned: as long as wantConnected
\* holds, some retry, set-up or push thread is still at work for it.  The Go
\* client does not repeat a CONNECT, so nobody else would re-dial.
NeverAbandoned ==
    \A c \in Channels : wanted[c] =>
        \/ \E t \in SetupThreads : Tends(t, c)
        \/ \E p \in PushThreads : Serves(p, c)

----------------------------------------------------------------------------
(* Liveness. *)

\* A wanted channel gets a connection, or stops being wanted, once dials stop
\* failing: the retry chain never dies out (FLV_RETRY_INTERVAL_MS loop).
WantedGetsConnected ==
    \A c \in Channels : wanted[c] ~> (activeFd[c] # None \/ ~wanted[c])

\* A connection whose far end is gone, or no longer reads, is given up: the
\* bridge does not push into a void (peerStillAlive, SO_SNDTIMEO).
DeadPeerReleased ==
    \A fd \in Fds : peer[fd] \in {"closed", "stalled"} ~> peer[fd] \notin {"closed", "stalled"}

----------------------------------------------------------------------------
(* Refinement. *)

\* The socket that is dialled and no channel's yet; g_connectMutex admits one.
Dialled == {setup[t].fd : t \in {u \in SetupThreads : setup[u].pc = "dialled"}}
SlotDialled == IF Dialled = {} THEN None ELSE CHOOSE fd \in Fds : fd \in Dialled

\* What has become of the writer of the channel's connection.
SlotWriter(c) ==
    IF activeFd[c] = None THEN "none"
    ELSE IF \E t \in SetupThreads : AboutToServe(t, c) THEN "due" ELSE "runs"

Slot == INSTANCE StreamSlot WITH
            dialled <- SlotDialled,
            link <- activeFd,
            session <- generation,
            writer <- [c \in Channels |-> SlotWriter(c)]

\* Threads, mutexes and generations together amount to one slot per channel: a
\* connection is made on a wanted channel only, from a socket no channel uses, takes
\* the place of the one before it as a whole, and is given up by its own writer or a
\* DISCONNECT, by nothing else (doConnect, doDisconnect, pushThreadMain).
Implements == Slot!Spec

----------------------------------------------------------------------------
(* What the comments promise and the code does not keep. *)

\* FlvPush.cpp:1178, "an explicit DISCONNECT must not be undone by retry": only
\* a CONNECT command makes an unwanted channel wanted.
DisconnectNotUndone ==
    [][\A c \in Channels : ~wanted[c] /\ wanted'[c] => connectMutex' = Ctl]_vars

\* FlvPush.cpp:574, "a newer CONNECT ... always wins over the retry": a retry
\* never changes the destination the last CONNECT asked for.
NewerConnectWins ==
    [][\A c \in Channels : host'[c] # host[c] => connectMutex' = Ctl]_vars

\* FlvPush.cpp:1128, "retry the exact same destination": a retry dials a host
\* and a stream name that some CONNECT named together.
RetriesRequestedTarget ==
    \A r \in RetryThreads : setup[r].pc # "idle" =>
        <<setup[r].ch, setup[r].host, setup[r].stream>> \in requested

\* FlvPush.cpp:646, "each reconnect is a new stream": the bytes on a channel's
\* socket come from the one connection the socket was opened for.
OneStreamPerSocket ==
    \A c \in Channels : activeFd[c] # None =>
        wrote[activeFd[c]] \subseteq {<<c, generation[c]>>}
============================================================================
