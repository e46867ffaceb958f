---------------------------- MODULE StreamControl ----------------------------
(***************************************************************************)
(* How the controller's stream settings reach the bridge and the encoder:  *)
(* the Go client's handler of ChangeVideoSettings, the FIFO it writes to,  *)
(* the bridge processes behind it, and the supervisor that starts, stops   *)
(* and bounces both (src/goclient/main.go, src/flv_bridge/FlvPush.cpp,     *)
(* src/sd_root/yi-protect/script/watchdog.sh, init.sh).                    *)
(*                                                                         *)
(* A command takes effect when it is written: the FIFO has one writer and  *)
(* one reader, keeps the order, and what is unread when the bridge dies is *)
(* lost together with all the bridge knew.  What the bridge does with a    *)
(* target is FlvConn; how the encoder is told is MediadDelta.              *)
(***************************************************************************)
EXTENDS Naturals, Sequences, FiniteSets

CONSTANTS
    Channels,       \* 1 = video1/high, 2 = video2/low, 3 = video3/medium
    Targets,        \* destinations with their stream name
    None,           \* file:///dev/null, no target
    Kinds,          \* the messages the controller sends
    Capabilities,   \* the values h265Capable may have
    SeedOutcomes,   \* whether the first codec values of a connection are sent
    SlowBoot,       \* the supervisor runs before init.sh starts the stack
    MaxBridges,     \* bound: bridge processes
    MaxChanges,     \* bound: changes of what the controller wants
    MaxReconnects,  \* bound: further connections of the client
    MaxClientDeaths, \* bound: client processes that die or are killed
    MaxWdDeaths,    \* bound: supervisors that are killed
    MaxRestarts     \* bound: "watchdog.sh restart bridge"

ASSUME ChannelAssumption ==
    Channels \subseteq 1..3 /\ None \notin Targets /\ None \notin {"h264", "h265"}
ASSUME KindAssumption ==
    /\ Kinds \subseteq {"full", "plain", "types", "audio"}
    /\ SeedOutcomes \subseteq BOOLEAN /\ SeedOutcomes # {}
    /\ Capabilities \subseteq BOOLEAN /\ SlowBoot \in BOOLEAN
ASSUME StreamBounds ==
    /\ MaxBridges \in Nat \ {0} /\ MaxChanges \in Nat /\ MaxReconnects \in Nat
    /\ MaxClientDeaths \in Nat /\ MaxWdDeaths \in Nat /\ MaxRestarts \in Nat

VARIABLES
    wish,           \* what the controller wants: dst and codec per channel, mute
    bridge,         \* bridge processes in the order of their pids
    path,           \* the one that made the FIFO, 0 if none
    client,         \* the client process
    handler,        \* handleVideoSettings: program counter and message
    encoder,        \* h265Capable, and the codecs of the high and the shared low one
    disk,           \* the persisted codecs
    wd,             \* the supervisor, or the CLI under the same lock
    boot,           \* init.sh still has the stack to start
    left            \* what remains of the bounds

vars == <<wish, bridge, path, client, handler, encoder, disk, wd, boot, left>>

Codecs == {"h264", "h265"}
AllH264 == [c \in Channels |-> "h264"]
NoTarget == [c \in Channels |-> None]
Encoders == {"high", "low"}
EncoderOf(c) == IF c = 1 THEN "high" ELSE "low"

Started == [state |-> "starting", target |-> NoTarget, codec |-> AllH264, mute |-> FALSE]
Dead == [Started EXCEPT !.state = "dead"]

\* A new connection's Client, in a process with mic and handle.
Fresh(mic, handle) ==
    [up |-> TRUE, active |-> NoTarget, mic |-> mic, micSet |-> FALSE, handle |-> handle,
     known |-> [e \in Encoders |-> None], seed |-> TRUE, heard |-> {}]
NewClient == Fresh(FALSE, 0)
NoClient == [NewClient EXCEPT !.up = FALSE]
Idle == [pc |-> "idle", todo |-> {}, of |-> {}, has |-> {}, dst |-> NoTarget,
         type |-> AllH264, codec |-> AllH264, mute |-> FALSE]

Init ==
    /\ wish = [dst |-> NoTarget, codec |-> AllH264, mute |-> FALSE]
    /\ bridge = IF SlowBoot THEN <<>> ELSE <<Started>>
    /\ path = 0
    /\ client = IF SlowBoot THEN NoClient ELSE NewClient
    /\ handler = Idle
    /\ encoder \in [h265 : Capabilities, codec : {[e \in Encoders |-> "h264"]}]
    /\ disk \in IF encoder.h265 THEN {AllH264} ELSE [Channels -> Codecs]
    /\ wd = [pc |-> "sleep", started |-> FALSE]
    /\ boot = SlowBoot
    /\ left = [changes |-> MaxChanges, reconnects |-> MaxReconnects,
               clients |-> MaxClientDeaths, wds |-> MaxWdDeaths, restarts |-> MaxRestarts]

IsUp(i) == i # 0 /\ bridge[i].state = "up"
Running == {i \in DOMAIN bridge : bridge[i].state # "dead"}

----------------------------------------------------------------------------
(* writeFlvPushFifoLocked: the held handle, or a new one on the FIFO's path. *)

Reach == IF IsUp(client.handle) THEN client.handle ELSE IF IsUp(path) THEN path ELSE 0

\* The bridge's ctlThreadMain runs the command that was written, if one reads it.
Written(new) == bridge' = IF Reach = 0 THEN bridge ELSE [bridge EXCEPT ![Reach] = new]

----------------------------------------------------------------------------
(* handleVideoSettings. *)

Carries(kind) == CASE kind = "full"  -> {"dst", "type", "audio"}
                   [] kind = "plain" -> {"dst"}
                   [] kind = "types" -> {"type"}
                   [] kind = "audio" -> {"audio"}

\* forceH264, and the same for a requested type.
MutPossible(codec) == codec
Possible(codec) == IF encoder.h265 THEN codec ELSE "h264"

\* The controller sends a message about the channels of, perhaps because it
\* wants something else from now on; streamCodecs seeds the codecs.
Deliver(kind, of, w) ==
    /\ client.up /\ handler.pc = "idle"
    /\ LET has == Carries(kind)
       IN  /\ has = {"audio"} <=> of = {}
           /\ "audio" \in has \/ w.mute = wish.mute
           /\ \A c \in Channels :
                /\ w.dst[c] = wish.dst[c] \/ ("dst" \in has /\ c \in of)
                /\ w.codec[c] = wish.codec[c] \/ ("type" \in has /\ c \in of)
           /\ handler' = [pc |-> IF "audio" \in has THEN "audio" ELSE "next",
                          todo |-> of, of |-> of, has |-> has,
                          dst |-> w.dst, type |-> w.codec, mute |-> w.mute,
                          codec |-> [c \in Channels |-> Possible(disk[c])]]
    /\ wish' = w
    /\ IF w = wish THEN UNCHANGED left
       ELSE /\ left.changes > 0
            /\ left' = [left EXCEPT !.changes = @ - 1]
    /\ UNCHANGED <<bridge, path, client, encoder, disk, wd, boot>>

Handling(pc) == client.up /\ handler.pc = pc
c0 == CHOOSE c \in handler.todo : \A d \in handler.todo : c <= d
Done == [handler EXCEPT !.pc = "next", !.todo = @ \ {c0}]
Go(pc) == handler' = [handler EXCEPT !.pc = pc]
HandlerOnly == UNCHANGED <<wish, path, encoder, disk, wd, boot, left>>

\* setMicLevel, a no-op if this connection has set the level before.
SetMicLevel ==
    /\ Handling("audio")
    /\ IF client.micSet /\ client.mic = handler.mute THEN UNCHANGED <<client, bridge>>
       ELSE /\ client' = [client EXCEPT !.mic = handler.mute, !.micSet = TRUE, !.handle = Reach]
            /\ Written([bridge[Reach] EXCEPT !.mute = handler.mute])
    /\ IF handler.of = {} THEN handler' = Idle ELSE Go("next")
    /\ HandlerOnly

\* A channel without avSerializer: its type is noted, nothing else.
NextTypeOnly ==
    /\ Handling("next") /\ handler.todo # {}
    /\ "dst" \notin handler.has
    /\ handler' = [Done EXCEPT !.codec[c0] = Possible(handler.type[c0])]
    /\ UNCHANGED <<client, bridge>>
    /\ HandlerOnly

Noted == IF "type" \in handler.has THEN Possible(handler.type[c0]) ELSE handler.codec[c0]

\* stopVideoStream.
NextDisconnect ==
    /\ Handling("next") /\ handler.todo # {}
    /\ "dst" \in handler.has /\ handler.dst[c0] = None
    /\ client' = [client EXCEPT !.active[c0] = None, !.handle = Reach]
    /\ Written([bridge[Reach] EXCEPT !.target[c0] = None])
    /\ handler' = [Done EXCEPT !.codec[c0] = Noted]
    /\ HandlerOnly

\* Wrong on purpose: a destination that is not new ends the channel's part.
MutNextTarget ==
    /\ Handling("next") /\ handler.todo # {}
    /\ "dst" \in handler.has /\ handler.dst[c0] # None
    /\ handler' = IF client.active[c0] = handler.dst[c0] THEN [Done EXCEPT !.codec[c0] = Noted]
                  ELSE [handler EXCEPT !.pc = "connect", !.codec[c0] = Noted]
    /\ client' = [client EXCEPT !.active[c0] = handler.dst[c0]]
    /\ UNCHANGED bridge
    /\ HandlerOnly

\* A destination: connect only if it is not the one the client remembers.
NextTarget ==
    /\ Handling("next") /\ handler.todo # {}
    /\ "dst" \in handler.has /\ handler.dst[c0] # None
    /\ LET same == client.active[c0] = handler.dst[c0]
       IN  handler' = [handler EXCEPT !.pc = IF same THEN "codec" ELSE "connect",
                                      !.codec[c0] = Noted]
    /\ client' = [client EXCEPT !.active[c0] = handler.dst[c0]]
    /\ UNCHANGED bridge
    /\ HandlerOnly

\* Wrong on purpose: the destination of a failed CONNECT is remembered.
MutStartVideoStream ==
    /\ Handling("connect")
    /\ Written([bridge[Reach] EXCEPT !.target[c0] = handler.dst[c0]])
    /\ client' = [client EXCEPT !.handle = Reach]
    /\ Go(IF Reach = 0 THEN "codec" ELSE "mute")
    /\ HandlerOnly

\* startVideoStream: CONNECT, and forget the destination if that fails.
StartVideoStream ==
    /\ Handling("connect")
    /\ \/ /\ Reach = 0
          /\ UNCHANGED bridge
          /\ client' = [client EXCEPT !.active[c0] = None, !.handle = 0]
          /\ Go("codec")
       \/ /\ Reach # 0
          /\ Written([bridge[Reach] EXCEPT !.target[c0] = handler.dst[c0]])
          /\ client' = [client EXCEPT !.handle = Reach]
          /\ Go("mute")
    /\ HandlerOnly

\* Wrong on purpose: CONNECT leaves the mute flag of the bridge as it is.
MutReassertMute ==
    /\ Handling("mute")
    /\ UNCHANGED <<client, bridge>>
    /\ Go("codec")
    /\ HandlerOnly

\* Wrong on purpose: every CONNECT unmutes.
MutReassertUnmuted ==
    /\ Handling("mute")
    /\ client' = [client EXCEPT !.handle = Reach]
    /\ Written([bridge[Reach] EXCEPT !.mute = FALSE])
    /\ Go("codec")
    /\ HandlerOnly

\* ... and MUTE after it.
ReassertMute ==
    /\ Handling("mute")
    /\ client' = [client EXCEPT !.handle = Reach]
    /\ Written([bridge[Reach] EXCEPT !.mute = client.mic])
    /\ Go("codec")
    /\ HandlerOnly

\* sendChannelCodec.
SendChannelCodec ==
    /\ Handling("codec")
    /\ client' = [client EXCEPT !.handle = Reach]
    /\ Written([bridge[Reach] EXCEPT !.codec[c0] = handler.codec[c0]])
    /\ handler' = Done
    /\ HandlerOnly

\* storeStreamCodecs: a changed file is truncated first and written then.
StoreStreamCodecs ==
    /\ Handling("next") /\ handler.todo = {}
    /\ LET changed == handler.codec # disk
       IN  /\ disk' = IF changed THEN AllH264 ELSE disk
           /\ Go(IF changed THEN "write" ELSE "tell")
    /\ UNCHANGED <<wish, bridge, path, client, encoder, wd, boot, left>>

WriteStreamCodecs ==
    /\ Handling("write")
    /\ disk' = handler.codec
    /\ Go("tell")
    /\ UNCHANGED <<wish, bridge, path, client, encoder, wd, boot, left>>

\* The codec of an encoder: h265 if one of its channels asks for it.
Asked(codec, e) ==
    IF \E c \in Channels : EncoderOf(c) = e /\ codec[c] = "h265" THEN "h265" ELSE "h264"

\* mediadApplyControls for the codecs: what the connection knows is not sent
\* again, and its first values may be taken as known without being sent.
TellEncoder ==
    /\ Handling("tell")
    /\ LET asked == [e \in Encoders |-> Asked(handler.codec, e)]
       IN  /\ \E sends \in IF client.seed THEN SeedOutcomes ELSE {TRUE} :
                encoder' = [encoder EXCEPT !.codec = [e \in Encoders |->
                              IF sends /\ client.known[e] # asked[e] THEN asked[e]
                              ELSE encoder.codec[e]]]
           /\ client' = [client EXCEPT !.known = asked, !.seed = FALSE,
                            !.heard = IF "dst" \in handler.has THEN @ \cup handler.of ELSE @]
    /\ handler' = Idle
    /\ UNCHANGED <<wish, bridge, path, disk, wd, boot, left>>

----------------------------------------------------------------------------
(* Connections and processes. *)

\* The read loop ends between two messages and main() dials again.
Reconnect ==
    /\ client.up /\ handler.pc = "idle"
    /\ left.reconnects > 0
    /\ left' = [left EXCEPT !.reconnects = @ - 1]
    /\ client' = Fresh(client.mic, client.handle)
    /\ UNCHANGED <<wish, bridge, path, handler, encoder, disk, wd, boot>>

\* A client is started.  Beside one that runs it is a duplicate, which the next
\* pass kills; the model does not follow it.
AnyClient == IF client.up THEN client ELSE NewClient

Kill == client' = NoClient /\ handler' = Idle

ClientDies ==
    /\ client.up
    /\ left.clients > 0
    /\ left' = [left EXCEPT !.clients = @ - 1]
    /\ Kill
    /\ UNCHANGED <<wish, bridge, path, encoder, disk, wd, boot>>

\* ctlThreadMain of process i replaces the FIFO by one of its own.
BridgeReady(i) ==
    /\ bridge[i].state = "starting"
    /\ bridge' = [bridge EXCEPT ![i].state = "up"]
    /\ path' = i
    /\ UNCHANGED <<wish, client, handler, encoder, disk, wd, boot, left>>

BridgeDies(i) ==
    /\ i \in Running
    /\ Len(bridge) < MaxBridges
    /\ bridge' = [bridge EXCEPT ![i] = Dead]
    /\ UNCHANGED <<wish, path, client, handler, encoder, disk, wd, boot, left>>

\* init.sh starts the stack without a look at what runs already.
InitStarts ==
    /\ boot
    /\ boot' = FALSE
    /\ bridge' = Append(bridge, Started)
    /\ client' = AnyClient
    /\ UNCHANGED <<wish, path, handler, encoder, disk, wd, left>>

----------------------------------------------------------------------------
(* watchdog.sh: ensure_stack under the lock, and the CLI's restart. *)

WdOnly == UNCHANGED <<wish, path, encoder, disk, boot>>
WdGo(pc) == wd' = [wd EXCEPT !.pc = pc]

WdWakes ==
    /\ wd.pc = "sleep"
    /\ WdGo("bridge")
    /\ UNCHANGED <<bridge, client, handler, left>>
    /\ WdOnly

\* ensure_svc bridge: start one if there is none, keep the oldest of several.
EnsureBridge ==
    /\ wd.pc = "bridge"
    /\ wd' = [pc |-> "client", started |-> Running = {}]
    /\ bridge' = IF Running = {} THEN Append(bridge, Started)
                 ELSE [i \in DOMAIN bridge |->
                          IF \E j \in Running : j < i THEN Dead ELSE bridge[i]]
    /\ UNCHANGED <<client, handler, left>>
    /\ WdOnly

\* Wrong on purpose: a restarted bridge does not bounce the client.
MutEnsureClient ==
    /\ wd.pc = "client"
    /\ WdGo("sleep")
    /\ client' = AnyClient
    /\ UNCHANGED <<bridge, handler, left>>
    /\ WdOnly

\* ensure_svc avclient: a client that was running beside a new bridge is bounced.
EnsureClient ==
    /\ wd.pc = "client"
    /\ WdGo(IF client.up /\ wd.started THEN "stop" ELSE "sleep")
    /\ client' = AnyClient
    /\ UNCHANGED <<bridge, handler, left>>
    /\ WdOnly

StopClient ==
    /\ wd.pc \in {"stop", "restart"}
    /\ WdGo(IF wd.pc = "stop" THEN "start" ELSE "restop")
    /\ Kill
    /\ UNCHANGED <<bridge, left>>
    /\ WdOnly

StartClient ==
    /\ wd.pc = "start"
    /\ WdGo("sleep")
    /\ client' = AnyClient
    /\ UNCHANGED <<bridge, handler, left>>
    /\ WdOnly

\* "restart bridge": stop the client, replace the bridge, start the client.
CliRestart ==
    /\ wd.pc = "sleep"
    /\ left.restarts > 0 /\ Len(bridge) < MaxBridges
    /\ left' = [left EXCEPT !.restarts = @ - 1]
    /\ WdGo("restart")
    /\ UNCHANGED <<bridge, client, handler>>
    /\ WdOnly

CliStopBridge ==
    /\ wd.pc = "restop"
    /\ WdGo("restart bridge")
    /\ bridge' = [i \in DOMAIN bridge |-> Dead]
    /\ UNCHANGED <<client, handler, left>>
    /\ WdOnly

CliStartBridge ==
    /\ wd.pc = "restart bridge"
    /\ WdGo("start")
    /\ bridge' = Append(bridge, Started)
    /\ UNCHANGED <<client, handler, left>>
    /\ WdOnly

\* The supervisor is killed at any point, and started again by wd_guard.
WdDies ==
    /\ wd.pc # "off"
    /\ left.wds > 0
    /\ left' = [left EXCEPT !.wds = @ - 1]
    /\ WdGo("off")
    /\ UNCHANGED <<bridge, client, handler>>
    /\ WdOnly

WdStarts ==
    /\ wd.pc = "off"
    /\ WdGo("sleep")
    /\ UNCHANGED <<bridge, client, handler, left>>
    /\ WdOnly

----------------------------------------------------------------------------

HandlerStep ==
    \/ SetMicLevel
    \/ NextTypeOnly \/ NextDisconnect \/ NextTarget
    \/ StartVideoStream \/ ReassertMute \/ SendChannelCodec
    \/ StoreStreamCodecs \/ WriteStreamCodecs \/ TellEncoder

WdStep ==
    \/ WdWakes \/ EnsureBridge \/ EnsureClient \/ StopClient \/ StartClient
    \/ CliStopBridge \/ CliStartBridge
    \/ WdStarts

Wishes == [dst : [Channels -> Targets \cup {None}], codec : [Channels -> Codecs],
           mute : BOOLEAN]

Next ==
    \/ \E kind \in Kinds, of \in SUBSET Channels, w \in Wishes : Deliver(kind, of, w)
    \/ HandlerStep
    \/ Reconnect \/ ClientDies
    \/ \E i \in DOMAIN bridge : BridgeReady(i) \/ BridgeDies(i)
    \/ InitStarts
    \/ WdStep \/ CliRestart \/ WdDies

Spec == Init /\ [][Next]_vars

\* The controller's periodic re-send of all it wants.
Resend == Deliver("full", Channels, wish)

\* Processes run, the boot comes to its end, and the controller goes on
\* re-sending, whatever else it has to say in between.
Fairness ==
    /\ WF_vars(HandlerStep) /\ WF_vars(WdStep) /\ WF_vars(InitStarts)
    /\ \A i \in 1..(MaxBridges + 1) : WF_vars(i \in DOMAIN bridge /\ BridgeReady(i))
    /\ SF_vars(Resend)

FairSpec == Spec /\ Fairness

----------------------------------------------------------------------------
(* Properties. *)

\* Every variable holds a value the code can put there, and the handler has a
\* channel to work on where it needs one.
TypeOK ==
    /\ wish \in Wishes
    /\ \A i \in DOMAIN bridge :
        bridge[i] \in [state : {"starting", "up", "dead"}, mute : BOOLEAN,
                       target : [Channels -> Targets \cup {None}],
                       codec : [Channels -> Codecs]]
    /\ Len(bridge) <= MaxBridges + 1 /\ path \in 0..Len(bridge)
    /\ client.active \in [Channels -> Targets \cup {None}]
    /\ client.handle \in 0..Len(bridge) /\ client.heard \subseteq Channels
    /\ handler.todo \subseteq handler.of
    /\ handler.pc \in {"connect", "mute", "codec"} => handler.todo # {}
    /\ encoder \in [h265 : BOOLEAN, codec : [Encoders -> Codecs]] /\ disk \in [Channels -> Codecs]

\* Nothing is on its way: the client waits for messages, the supervisor sleeps.
Settled == client.up /\ handler.pc = "idle" /\ wd.pc = "sleep"

\* watchdog.sh: "the client dedups CONNECT, so a fresh bridge is otherwise never
\* re-driven".  A destination the client remembers, and so will not send again,
\* is one the running bridge has.
DedupSound ==
    Settled => \A i \in DOMAIN bridge, c \in Channels :
        IsUp(i) /\ client.active[c] # None => bridge[i].target[c] = client.active[c]

\* main.go:1214, the codec is "pushed to the bridge/encoder so the feed matches":
\* a channel the bridge pushes is labelled with the codec its encoder produces, and
\* without an H.265 encoder with H.264 at all times, whatever was persisted.
FeedMatches ==
    \A i \in DOMAIN bridge :
        /\ Settled /\ IsUp(i) =>
               \A c \in client.heard :
                   bridge[i].target[c] # None => bridge[i].codec[c] = encoder.codec[EncoderOf(c)]
        /\ ~encoder.h265 => \A c \in Channels : bridge[i].codec[c] = "h264"

\* main.go:1717, the microphone's state is re-asserted on every CONNECT: the bridge
\* at the other end of the client's FIFO handle, once it pushes a destination the
\* client remembers, is as mute as the client.
MuteKept ==
    LET b == bridge[client.handle]
    IN  Settled /\ IsUp(client.handle) =>
            \A c \in Channels :
                client.active[c] # None /\ b.target[c] = client.active[c] => b.mute = client.mic

\* main.go:1182, volume 0 mutes and "absent keeps last": a running bridge is
\* unmuted only when the controller wants it unmuted.
UnmutedOnlyOnRequest ==
    [][\A i \in DOMAIN bridge :
            bridge[i].mute /\ ~bridge'[i].mute /\ bridge'[i].state = "up" => ~wish.mute]_vars

\* The microphone plays when it was asked to and only then: the mute outlives every
\* restart of the bridge, in either direction.
MicAsAsked == []MuteKept /\ UnmutedOnlyOnRequest

\* vidcodec.go:4, "a restarted client starts from this state instead of h264": an
\* encoder is told to drop H.265 only when the controller wants none.
DroppedOnlyOnRequest ==
    [][\A e \in Encoders :
            encoder.codec[e] = "h265" /\ encoder'.codec[e] = "h264" => Asked(wish.codec, e) = "h264"]_vars

\* main.go:1705, a failed CONNECT is forgotten "so the controller's ~10 s re-send
\* retries": what the controller goes on wanting gets to a running bridge.
Delivered ==
    \A c \in Channels, t \in Targets \cup {None} :
        wish.dst[c] = t ~> (\/ \E i \in DOMAIN bridge : IsUp(i) /\ bridge[i].target[c] = t
                            \/ wish.dst[c] # t)
============================================================================
