---------------------------- MODULE StreamProofs ----------------------------
(***************************************************************************)
(* Theorems about StreamControl, for any targets and any number of bridge  *)
(* processes, changes, connections and deaths.                             *)
(***************************************************************************)
EXTENDS StreamControl, LeastNumbers, SequenceTheorems, TLAPS

USE ChannelAssumption, KindAssumption, StreamBounds

TargetMaps == [Channels -> Targets \cup {None}]
CodecMaps == [Channels -> Codecs]
BridgeStates == {"starting", "up", "dead"}
Bridges == [state : BridgeStates, target : TargetMaps, codec : CodecMaps, mute : BOOLEAN]
Clients == [up : BOOLEAN, active : TargetMaps, mic : BOOLEAN, micSet : BOOLEAN, handle : Nat,
            known : [Encoders -> Codecs \cup {None}], seed : BOOLEAN, heard : SUBSET Channels]
Pcs == {"idle", "audio", "next", "connect", "mute", "codec", "write", "tell"}
Handlers == [pc : Pcs, todo : SUBSET Channels, of : SUBSET Channels,
             has : SUBSET {"dst", "type", "audio"}, dst : TargetMaps,
             type : CodecMaps, codec : CodecMaps, mute : BOOLEAN]
WdPcs == {"sleep", "bridge", "client", "stop", "start", "restart", "restop", "restart bridge", "off"}
Lefts == [changes : Nat, reconnects : Nat, clients : Nat, wds : 0..MaxWdDeaths, restarts : Nat]

TypeInv ==
    /\ wish \in Wishes
    /\ bridge \in Seq(Bridges)
    /\ path \in 0..Len(bridge)
    /\ client \in Clients /\ client.handle <= Len(bridge)
    /\ handler \in Handlers /\ handler.todo \subseteq handler.of
    /\ handler.pc \in {"connect", "mute", "codec"} => handler.todo # {}
    /\ encoder \in [h265 : BOOLEAN, codec : [Encoders -> Codecs]]
    /\ disk \in CodecMaps
    /\ wd \in [pc : WdPcs, started : BOOLEAN]
    /\ boot \in BOOLEAN
    /\ left \in Lefts

\* No more processes than the bound says: the one that init.sh may still add is
\* counted, and where the supervisor may add one there is room.
Coming == IF boot THEN 1 ELSE 0
Adds == wd.pc \in {"restart", "restop", "restart bridge"}
Bounded ==
    /\ Len(bridge) + Coming <= MaxBridges + 1
    /\ Running = {} \/ Adds => Len(bridge) + Coming <= MaxBridges

----------------------------------------------------------------------------
(* The invariants. *)

\* Bridges that init.sh has not started beside those of the supervisor.
OneStarter == ~SlowBoot

\* There is one bridge at a time; one that is up made the FIFO that is there, and
\* one that is not up yet has no target.
OneBridge ==
    /\ ~boot
    /\ \A i, j \in DOMAIN bridge :
        bridge[i].state # "dead" /\ bridge[j].state # "dead" => i = j
    /\ \A i \in DOMAIN bridge :
        /\ bridge[i].state = "up" => path = i
        /\ bridge[i].state = "starting" => bridge[i].target = NoTarget
    /\ wd.pc = "restart bridge" => \A i \in DOMAIN bridge : bridge[i].state = "dead"

\* A message is handled by a client that runs.
Attended == client.up \/ handler.pc = "idle"

\* The supervisor has replaced the bridge and is about to bounce the client.
Bouncing == wd.pc = "stop" \/ (wd.pc = "client" /\ wd.started)

\* A destination the client remembers is one the bridge has, but for the one the
\* handler is about to connect.
Remembered ==
    client.up /\ ~Bouncing =>
        \A i \in DOMAIN bridge, c \in Channels :
            bridge[i].state # "dead" /\ client.active[c] # None =>
                \/ bridge[i].target[c] = client.active[c]
                \/ handler.pc = "connect" /\ c = c0

DedupInv ==
    /\ TypeInv /\ OneBridge /\ Attended
    /\ wd.pc # "off" /\ left.wds = 0
    /\ wd.pc \in {"restop", "restart bridge", "start"} => ~client.up
    /\ handler.pc = "connect" => client.active[c0] = handler.dst[c0]
    /\ Remembered

\* A channel that a bridge of b pushes is labelled so.
Labelled(b, c, codec) ==
    \A i \in DOMAIN b : b[i].state # "dead" /\ b[i].target[c] # None => b[i].codec[c] = codec

CodecOf(c) == encoder.codec[EncoderOf(c)]

\* Without an H.265 encoder every channel is labelled H.264.
NoH265 ==
    ~encoder.h265 => handler.codec = AllH264 /\ \A i \in DOMAIN bridge : bridge[i].codec = AllH264

\* What the connection takes the encoders to make is what they make.
KnownMade ==
    client.up => \A e \in Encoders : client.known[e] \in Codecs => encoder.codec[e] = client.known[e]

\* Between messages what is persisted of the channels the connection has heard of is
\* what their encoders make, and they are labelled with it.
BetweenMessages ==
    client.up =>
        /\ handler.pc \in {"idle", "audio"} => \A c \in client.heard : Possible(disk[c]) = CodecOf(c)
        /\ handler.pc = "idle" => \A c \in client.heard : Labelled(bridge, c, CodecOf(c))

\* While a message is handled the channels it has dealt with are labelled with what
\* the encoders will be told, and the others with what they make.
WithinMessage ==
    client.up /\ handler.pc # "idle" =>
        /\ handler.of # {} => "dst" \in handler.has
        /\ handler.of = {} => handler.pc = "audio"
        /\ \A c \in handler.of \ handler.todo : Labelled(bridge, c, handler.codec[c])
        /\ \A c \in client.heard \ handler.of :
            Labelled(bridge, c, CodecOf(c)) /\ handler.codec[c] = CodecOf(c)

\* The codecs are stored when all channels are done, and told when they are stored.
StoredThenTold ==
    /\ handler.pc \in {"write", "tell"} => handler.todo = {}
    /\ handler.pc = "tell" => disk = handler.codec

FeedInv ==
    /\ TypeInv /\ OneBridge /\ Attended
    /\ NoH265 /\ KnownMade /\ BetweenMessages /\ WithinMessage /\ StoredThenTold

----------------------------------------------------------------------------
(* The model's operators. *)

LEMMA MinChannel ==
  ASSUME NEW S \in SUBSET Channels, S # {}
  PROVE  (CHOOSE c \in S : \A d \in S : c <= d) \in S
  <1>1. S \in SUBSET Nat
    OBVIOUS
  <1>2. \E c \in S : \A d \in S : c <= d
    BY <1>1, LeastNumber
  <1>3. QED BY <1>2, Zenon

LEMMA InTodo ==
  ASSUME TypeInv, handler.todo # {}
  PROVE  c0 \in handler.todo /\ c0 \in Channels
  BY MinChannel DEF c0, TypeInv, Handlers

LEMMA InBridge ==
  ASSUME TypeInv
  PROVE  /\ Len(bridge) \in Nat /\ DOMAIN bridge = 1..Len(bridge)
         /\ \A i \in DOMAIN bridge : bridge[i] \in Bridges
  BY LenProperties, ElementOfSeq DEF TypeInv

LEMMA StartedTyped ==
  /\ NoTarget \in TargetMaps /\ AllH264 \in CodecMaps
  /\ Started \in Bridges /\ Started.state = "starting"
  /\ Started.target = NoTarget /\ Started.codec = AllH264
  /\ Dead \in Bridges /\ Dead.state = "dead" /\ Dead.codec = AllH264
  BY DEF NoTarget, AllH264, Started, Dead, Bridges, BridgeStates, TargetMaps, CodecMaps, Codecs

\* The bridge a command gets to, if any, is up.
LEMMA Reached ==
  ASSUME TypeInv
  PROVE  /\ Reach \in 0..Len(bridge)
         /\ Reach # 0 => Reach \in DOMAIN bridge /\ bridge[Reach].state = "up"
  BY InBridge DEF TypeInv, Reach, IsUp, Clients

\* A command changes the bridge it gets to and no other.
LEMMA WrittenTo ==
  ASSUME TypeInv, NEW new, Reach # 0 => new \in Bridges, Written(new)
  PROVE  /\ bridge' \in Seq(Bridges)
         /\ Len(bridge') = Len(bridge)
         /\ DOMAIN bridge' = DOMAIN bridge
         /\ \A i \in DOMAIN bridge : bridge'[i] = IF i = Reach THEN new ELSE bridge[i]
  <1>1. bridge \in Seq(Bridges)
    BY DEF TypeInv
  <1>2. CASE Reach = 0
    BY <1>1, <1>2, InBridge DEF Written
  <1>3. CASE Reach # 0
    <2>1. Reach \in 1..Len(bridge)
      BY <1>3, Reached, InBridge
    <2>2. bridge' = [bridge EXCEPT ![Reach] = new] /\ new \in Bridges
      BY <1>3 DEF Written
    <2>3. /\ bridge' \in Seq(Bridges) /\ Len(bridge') = Len(bridge)
          /\ \A i \in 1..Len(bridge) : bridge'[i] = IF i = Reach THEN new ELSE bridge[i]
      BY <1>1, <2>1, <2>2, ExceptSeq
    <2>4. DOMAIN bridge' = 1..Len(bridge)
      BY <2>3, LenProperties
    <2>5. QED BY <2>3, <2>4, InBridge
  <1>4. QED BY <1>2, <1>3

\* Processes that are given up: the others stay as they are.
LEMMA Replaced ==
  ASSUME TypeInv, NEW new \in [DOMAIN bridge -> Bridges], bridge' = new
  PROVE  bridge' \in Seq(Bridges) /\ Len(bridge') = Len(bridge) /\ DOMAIN bridge' = DOMAIN bridge
  <1>1. Len(bridge) \in Nat /\ bridge' \in [1..Len(bridge) -> Bridges]
    BY InBridge
  <1>2. bridge' \in Seq(Bridges)
    BY <1>1
  <1>3. QED BY <1>1, <1>2, LenProperties

\* One process more.
LEMMA Appended ==
  ASSUME TypeInv, bridge' = Append(bridge, Started)
  PROVE  /\ bridge' \in Seq(Bridges)
         /\ Len(bridge') = Len(bridge) + 1
         /\ DOMAIN bridge' = DOMAIN bridge \cup {Len(bridge) + 1}
         /\ \A i \in DOMAIN bridge : bridge'[i] = bridge[i]
         /\ bridge'[Len(bridge) + 1] = Started
  <1>1. bridge \in Seq(Bridges) /\ Started \in Bridges
    BY StartedTyped DEF TypeInv
  <1>2. /\ bridge' \in Seq(Bridges) /\ Len(bridge') = Len(bridge) + 1
        /\ \A i \in 1..Len(bridge) : bridge'[i] = bridge[i]
        /\ bridge'[Len(bridge) + 1] = Started
    BY <1>1, AppendProperties
  <1>3. DOMAIN bridge' = 1..(Len(bridge) + 1)
    BY <1>2, LenProperties
  <1>4. QED BY <1>2, <1>3, InBridge

\* The handler has dealt with a channel, and noted the codec it asked for.
LEMMA DoneTyped ==
  ASSUME TypeInv, handler.todo # {}
  PROVE  /\ Done \in Handlers /\ Done.pc = "next"
         /\ Done.todo = handler.todo \ {c0} /\ Done.todo \subseteq Done.of
         /\ \A x \in Codecs :
              /\ [Done EXCEPT !.codec[c0] = x] \in Handlers
              /\ [Done EXCEPT !.codec[c0] = x].pc = "next"
              /\ [Done EXCEPT !.codec[c0] = x].of = handler.of
              /\ [Done EXCEPT !.codec[c0] = x].todo = handler.todo \ {c0}
  <1>1. handler \in Handlers /\ handler.todo \subseteq handler.of /\ c0 \in Channels
    BY InTodo DEF TypeInv
  <1>2. /\ Done \in Handlers /\ Done.pc = "next" /\ Done.of = handler.of
        /\ Done.todo = handler.todo \ {c0} /\ Done.codec = handler.codec
    BY <1>1 DEF Done, Handlers, Pcs
  <1>3. ASSUME NEW x \in Codecs
        PROVE  /\ [Done EXCEPT !.codec[c0] = x] \in Handlers
               /\ [Done EXCEPT !.codec[c0] = x].pc = "next"
               /\ [Done EXCEPT !.codec[c0] = x].of = handler.of
               /\ [Done EXCEPT !.codec[c0] = x].todo = handler.todo \ {c0}
    <2>1. [handler.codec EXCEPT ![c0] = x] \in CodecMaps
      BY <1>1 DEF Handlers, CodecMaps
    <2>2. QED BY <1>2, <2>1 DEF Handlers, CodecMaps
  <1>4. QED BY <1>1, <1>2, <1>3

LEMMA GoTyped ==
  ASSUME TypeInv, NEW pc \in Pcs, Go(pc),
         pc \in {"connect", "mute", "codec"} => handler.todo # {}
  PROVE  /\ handler' \in Handlers /\ handler'.pc = pc
         /\ handler'.todo = handler.todo /\ handler'.of = handler.of
         /\ handler'.todo \subseteq handler'.of
         /\ handler'.pc \in {"connect", "mute", "codec"} => handler'.todo # {}
  BY DEF TypeInv, Go, Handlers, Pcs

LEMMA NotedTyped ==
  ASSUME TypeInv, handler.todo # {}
  PROVE  Noted \in Codecs /\ Possible(handler.type[c0]) \in Codecs
  BY InTodo DEF TypeInv, Noted, Possible, Handlers, CodecMaps, Codecs

LEMMA IdleTyped ==
  /\ Idle \in Handlers /\ Idle.pc = "idle" /\ Idle.todo = {} /\ Idle.of = {}
  /\ NewClient \in Clients /\ NewClient.handle = 0 /\ NewClient.up
  /\ NewClient.active = NoTarget /\ NewClient.heard = {}
  /\ NewClient.known = [e \in Encoders |-> None]
  /\ NoClient \in Clients /\ NoClient.handle = 0 /\ ~NoClient.up
  BY StartedTyped DEF Idle, Handlers, Pcs, NewClient, NoClient, Fresh, Clients

\* A step of the handler that leaves the rest of the system alone.
LEMMA HandlerTyped ==
  ASSUME TypeInv, HandlerOnly,
         bridge' \in Seq(Bridges), Len(bridge') = Len(bridge),
         client' \in Clients, client'.handle <= Len(bridge),
         handler' \in Handlers, handler'.todo \subseteq handler'.of,
         handler'.pc \in {"connect", "mute", "codec"} => handler'.todo # {}
  PROVE  TypeInv'
  BY DEF TypeInv, HandlerOnly

----------------------------------------------------------------------------
(* Type correctness. *)

LEMMA TypeInit ==
  Init => TypeInv
  <1> SUFFICES ASSUME Init PROVE TypeInv
    OBVIOUS
  <1>1. wish \in Wishes
    BY StartedTyped DEF Init, Wishes, TargetMaps, CodecMaps
  <1>2. bridge \in Seq(Bridges) /\ Len(bridge) \in Nat
    <2>1. CASE bridge = <<>>
      BY <2>1, EmptySeq
    <2>2. CASE bridge = <<Started>>
      BY <2>2, StartedTyped
    <2>3. QED BY <2>1, <2>2 DEF Init
  <1>3. path \in 0..Len(bridge)
    BY <1>2 DEF Init
  <1>4. client \in Clients /\ client.handle <= Len(bridge)
    BY <1>2, IdleTyped DEF Init
  <1>5. /\ handler \in Handlers /\ handler.todo \subseteq handler.of
        /\ handler.pc \in {"connect", "mute", "codec"} => handler.todo # {}
    BY IdleTyped DEF Init
  <1>6. encoder \in [h265 : BOOLEAN, codec : [Encoders -> Codecs]]
    BY DEF Init, Codecs
  <1>7. disk \in CodecMaps
    BY StartedTyped DEF Init, CodecMaps
  <1>8. wd \in [pc : WdPcs, started : BOOLEAN] /\ boot \in BOOLEAN
    BY DEF Init, WdPcs
  <1>9. left \in Lefts
    BY DEF Init, Lefts
  <1>10. QED BY <1>1, <1>2, <1>3, <1>4, <1>5, <1>6, <1>7, <1>8, <1>9 DEF TypeInv

LEMMA DeliverTyped ==
  ASSUME TypeInv, NEW kind \in Kinds, NEW of \in SUBSET Channels, NEW w \in Wishes,
         Deliver(kind, of, w)
  PROVE  TypeInv'
  <1>1. Carries(kind) \in SUBSET {"dst", "type", "audio"}
    <2>1. kind \in {"full", "plain", "types", "audio"}
      OBVIOUS
    <2>2. QED BY <2>1 DEF Carries
  <1>2. [c \in Channels |-> Possible(disk[c])] \in CodecMaps
    BY DEF Possible, TypeInv, CodecMaps, Codecs
  <1>3. /\ handler' \in Handlers /\ handler'.todo \subseteq handler'.of
        /\ handler'.pc \notin {"connect", "mute", "codec"}
    BY <1>1, <1>2 DEF Deliver, Handlers, Pcs, Wishes, TargetMaps, CodecMaps
  <1>4. left' \in Lefts
    <2>1. CASE w = wish
      BY <2>1 DEF Deliver, TypeInv
    <2>2. CASE w # wish
      <3>1. left.changes > 0 /\ left' = [left EXCEPT !.changes = left.changes - 1]
        BY <2>2 DEF Deliver
      <3>2. left \in Lefts /\ left.changes \in Nat
        BY DEF TypeInv, Lefts
      <3>3. left.changes - 1 \in Nat
        BY <3>1, <3>2
      <3>4. QED BY <3>1, <3>2, <3>3 DEF Lefts
    <2>3. QED BY <2>1, <2>2
  <1>5. wish' = w /\ UNCHANGED <<bridge, path, client, encoder, disk, wd, boot>>
    BY DEF Deliver
  <1>6. QED BY <1>3, <1>4, <1>5 DEF TypeInv

\* A command sent through the handle: the client keeps what it knows, the bridge
\* gets new settings.
LEMMA Sent ==
  ASSUME TypeInv, HandlerOnly, NEW new, Reach # 0 => new \in Bridges, Written(new),
         client' \in Clients, client'.handle = Reach,
         handler' \in Handlers, handler'.todo \subseteq handler'.of,
         handler'.pc \in {"connect", "mute", "codec"} => handler'.todo # {}
  PROVE  TypeInv'
  <1>1. bridge' \in Seq(Bridges) /\ Len(bridge') = Len(bridge)
    BY WrittenTo
  <1>2. client'.handle <= Len(bridge)
    BY Reached, InBridge
  <1>3. QED BY <1>1, <1>2, HandlerTyped

LEMMA ReachBridge ==
  ASSUME TypeInv, Reach # 0
  PROVE  /\ bridge[Reach] \in Bridges
         /\ \A m \in BOOLEAN : [bridge[Reach] EXCEPT !.mute = m] \in Bridges
         /\ \A c \in Channels, t \in Targets \cup {None} :
              [bridge[Reach] EXCEPT !.target[c] = t] \in Bridges
         /\ \A c \in Channels, x \in Codecs : [bridge[Reach] EXCEPT !.codec[c] = x] \in Bridges
  <1>1. bridge[Reach] \in Bridges
    BY Reached, InBridge
  <1>2. QED BY <1>1 DEF Bridges, TargetMaps, CodecMaps

LEMMA HandlerTypeStep ==
  ASSUME TypeInv, HandlerStep
  PROVE  TypeInv'
  <1>1. client \in Clients /\ handler \in Handlers /\ handler.todo \subseteq handler.of
        /\ client.handle <= Len(bridge)
    BY DEF TypeInv
  <1>2. Reach \in 0..Len(bridge) /\ Reach \in Nat
    BY Reached, InBridge
  <1>3. ASSUME SetMicLevel PROVE TypeInv'
    <2>1. /\ handler' \in Handlers /\ handler'.todo \subseteq handler'.of
          /\ handler'.pc \notin {"connect", "mute", "codec"}
      <3>1. handler' = Idle \/ Go("next")
        BY <1>3 DEF SetMicLevel
      <3>2. "next" \in Pcs
        BY DEF Pcs
      <3>3. QED BY <3>1, <3>2, IdleTyped, GoTyped
    <2>2. CASE UNCHANGED <<client, bridge>>
      <3>1. HandlerOnly
        BY <1>3 DEF SetMicLevel
      <3>2. bridge' \in Seq(Bridges) /\ Len(bridge') = Len(bridge)
        BY <2>2 DEF TypeInv
      <3>3. QED BY <1>1, <2>1, <2>2, <3>1, <3>2, HandlerTyped
    <2>3. CASE /\ client' = [client EXCEPT !.mic = handler.mute, !.micSet = TRUE, !.handle = Reach]
               /\ Written([bridge[Reach] EXCEPT !.mute = handler.mute])
      <3>1. client' \in Clients /\ client'.handle = Reach
        BY <1>1, <1>2, <2>3 DEF Clients, Handlers
      <3>2. HandlerOnly /\ handler.mute \in BOOLEAN
        BY <1>1, <1>3 DEF SetMicLevel, Handlers
      <3>3. Reach # 0 => [bridge[Reach] EXCEPT !.mute = handler.mute] \in Bridges
        BY <3>2, ReachBridge
      <3>4. QED BY <2>1, <2>3, <3>1, <3>2, <3>3, Sent
    <2>4. QED BY <1>3, <2>2, <2>3 DEF SetMicLevel
  <1>4. ASSUME NextTypeOnly PROVE TypeInv'
    <2>1. /\ handler' \in Handlers /\ handler'.todo \subseteq handler'.of
          /\ handler'.pc \notin {"connect", "mute", "codec"}
      BY <1>1, <1>4, DoneTyped, NotedTyped DEF NextTypeOnly
    <2>2. UNCHANGED <<client, bridge>> /\ HandlerOnly
      BY <1>4 DEF NextTypeOnly
    <2>3. bridge' \in Seq(Bridges) /\ Len(bridge') = Len(bridge)
      BY <2>2 DEF TypeInv
    <2>4. QED BY <1>1, <2>1, <2>2, <2>3, HandlerTyped
  <1>5. ASSUME NextDisconnect PROVE TypeInv'
    <2>1. handler.todo # {} /\ HandlerOnly
      BY <1>5 DEF NextDisconnect
    <2>2. c0 \in Channels
      BY <2>1, InTodo
    <2>3. /\ handler' \in Handlers /\ handler'.todo \subseteq handler'.of
          /\ handler'.pc \notin {"connect", "mute", "codec"}
      BY <1>1, <1>5, <2>1, DoneTyped, NotedTyped DEF NextDisconnect
    <2>4. client' \in Clients /\ client'.handle = Reach
      <3>1. client' = [client EXCEPT !.active[c0] = None, !.handle = Reach]
        BY <1>5 DEF NextDisconnect
      <3>2. [client.active EXCEPT ![c0] = None] \in TargetMaps
        BY <1>1, <2>2 DEF Clients, TargetMaps
      <3>3. QED BY <1>1, <1>2, <3>1, <3>2 DEF Clients
    <2>5. Reach # 0 => [bridge[Reach] EXCEPT !.target[c0] = None] \in Bridges
      BY <2>2, ReachBridge
    <2>6. Written([bridge[Reach] EXCEPT !.target[c0] = None])
      BY <1>5 DEF NextDisconnect
    <2>7. QED BY <2>1, <2>3, <2>4, <2>5, <2>6, Sent
  <1>6. ASSUME NextTarget PROVE TypeInv'
    <2>1. handler.todo # {} /\ HandlerOnly /\ UNCHANGED bridge
      BY <1>6 DEF NextTarget
    <2>2. c0 \in Channels
      BY <2>1, InTodo
    <2>3. handler' \in Handlers /\ handler'.todo = handler.todo /\ handler'.of = handler.of
      <3>1. PICK pc \in {"codec", "connect"} :
              handler' = [handler EXCEPT !.pc = pc, !.codec[c0] = Noted]
        BY <1>6 DEF NextTarget
      <3>2. [handler.codec EXCEPT ![c0] = Noted] \in CodecMaps
        BY <1>1, <2>1, <2>2, NotedTyped DEF Handlers, CodecMaps
      <3>3. QED BY <1>1, <3>1, <3>2 DEF Handlers, Pcs
    <2>4. client' \in Clients /\ client'.handle = client.handle
      <3>1. client' = [client EXCEPT !.active[c0] = handler.dst[c0]]
        BY <1>6 DEF NextTarget
      <3>2. [client.active EXCEPT ![c0] = handler.dst[c0]] \in TargetMaps
        BY <1>1, <2>2 DEF Clients, TargetMaps, Handlers
      <3>3. QED BY <1>1, <3>1, <3>2 DEF Clients
    <2>5. bridge' \in Seq(Bridges) /\ Len(bridge') = Len(bridge)
      BY <2>1 DEF TypeInv
    <2>6. QED BY <1>1, <2>1, <2>3, <2>4, <2>5, HandlerTyped
  <1>7. ASSUME StartVideoStream PROVE TypeInv'
    <2>1. handler.todo # {} /\ HandlerOnly
      BY <1>7 DEF StartVideoStream, Handling, TypeInv
    <2>2. c0 \in Channels
      BY <2>1, InTodo
    <2>3. /\ handler' \in Handlers /\ handler'.todo \subseteq handler'.of
          /\ handler'.pc \in {"connect", "mute", "codec"} => handler'.todo # {}
      <3>1. "codec" \in Pcs /\ "mute" \in Pcs
        BY DEF Pcs
      <3>2. Go("codec") \/ Go("mute")
        BY <1>7 DEF StartVideoStream
      <3>3. QED BY <2>1, <3>1, <3>2, GoTyped
    <2>4. CASE Reach = 0 /\ UNCHANGED bridge
               /\ client' = [client EXCEPT !.active[c0] = None, !.handle = 0]
      <3>1. [client.active EXCEPT ![c0] = None] \in TargetMaps
        BY <1>1, <2>2 DEF Clients, TargetMaps
      <3>2. client' \in Clients /\ client'.handle = 0
        BY <1>1, <2>4, <3>1 DEF Clients
      <3>3. bridge' \in Seq(Bridges) /\ Len(bridge') = Len(bridge)
        BY <2>4 DEF TypeInv
      <3>4. client'.handle <= Len(bridge)
        BY <3>2, InBridge
      <3>5. QED BY <2>1, <2>3, <3>2, <3>3, <3>4, HandlerTyped
    <2>5. CASE Reach # 0 /\ client' = [client EXCEPT !.handle = Reach]
               /\ Written([bridge[Reach] EXCEPT !.target[c0] = handler.dst[c0]])
      <3>1. client' \in Clients /\ client'.handle = Reach
        BY <1>1, <1>2, <2>5 DEF Clients
      <3>2. handler.dst[c0] \in Targets \cup {None}
        BY <1>1, <2>2 DEF Handlers, TargetMaps
      <3>3. Reach # 0 => [bridge[Reach] EXCEPT !.target[c0] = handler.dst[c0]] \in Bridges
        BY <2>2, <3>2, ReachBridge
      <3>4. QED BY <2>1, <2>3, <2>5, <3>1, <3>3, Sent
    <2>6. QED BY <1>7, <2>4, <2>5 DEF StartVideoStream
  <1>8. ASSUME ReassertMute PROVE TypeInv'
    <2>1. handler.todo # {} /\ HandlerOnly
      BY <1>8 DEF ReassertMute, Handling, TypeInv
    <2>2. "codec" \in Pcs /\ Go("codec")
      BY <1>8 DEF Pcs, ReassertMute
    <2>3. client' \in Clients /\ client'.handle = Reach /\ client.mic \in BOOLEAN
      BY <1>1, <1>2, <1>8 DEF Clients, ReassertMute
    <2>4. Reach # 0 => [bridge[Reach] EXCEPT !.mute = client.mic] \in Bridges
      BY <2>3, ReachBridge
    <2>5. Written([bridge[Reach] EXCEPT !.mute = client.mic])
      BY <1>8 DEF ReassertMute
    <2>6. /\ handler' \in Handlers /\ handler'.todo \subseteq handler'.of
          /\ handler'.pc \in {"connect", "mute", "codec"} => handler'.todo # {}
      BY <2>1, <2>2, GoTyped
    <2>7. QED BY <2>1, <2>3, <2>4, <2>5, <2>6, Sent
  <1>9. ASSUME SendChannelCodec PROVE TypeInv'
    <2>1. handler.todo # {} /\ HandlerOnly
      BY <1>9 DEF SendChannelCodec, Handling, TypeInv
    <2>2. c0 \in Channels
      BY <2>1, InTodo
    <2>3. client' \in Clients /\ client'.handle = Reach
      BY <1>1, <1>2, <1>9 DEF Clients, SendChannelCodec
    <2>4. handler.codec[c0] \in Codecs
      BY <1>1, <2>2 DEF Handlers, CodecMaps
    <2>5. Reach # 0 => [bridge[Reach] EXCEPT !.codec[c0] = handler.codec[c0]] \in Bridges
      BY <2>2, <2>4, ReachBridge
    <2>6. Written([bridge[Reach] EXCEPT !.codec[c0] = handler.codec[c0]])
      BY <1>9 DEF SendChannelCodec
    <2>7. /\ handler' \in Handlers /\ handler'.todo \subseteq handler'.of
          /\ handler'.pc \notin {"connect", "mute", "codec"}
      BY <1>9, <2>1, DoneTyped DEF SendChannelCodec
    <2>8. QED BY <2>1, <2>3, <2>5, <2>6, <2>7, Sent
  <1>10. ASSUME StoreStreamCodecs \/ WriteStreamCodecs PROVE TypeInv'
    <2>1. /\ handler' \in Handlers /\ handler'.todo \subseteq handler'.of
          /\ handler'.pc \notin {"connect", "mute", "codec"}
      <3>1. "write" \in Pcs /\ "tell" \in Pcs
        BY DEF Pcs
      <3>2. Go("write") \/ Go("tell")
        BY <1>10 DEF StoreStreamCodecs, WriteStreamCodecs
      <3>3. QED BY <3>1, <3>2, GoTyped
    <2>2. disk' \in CodecMaps
      BY <1>1, <1>10, StartedTyped DEF TypeInv, StoreStreamCodecs, WriteStreamCodecs, Handlers
    <2>3. UNCHANGED <<wish, bridge, path, client, encoder, wd, boot, left>>
      BY <1>10 DEF StoreStreamCodecs, WriteStreamCodecs
    <2>4. QED BY <2>1, <2>2, <2>3 DEF TypeInv
  <1>11. ASSUME TellEncoder PROVE TypeInv'
    <2> DEFINE asked == [e \in Encoders |-> Asked(handler.codec, e)]
    <2>1. asked \in [Encoders -> Codecs]
      BY DEF Asked, Codecs
    <2>2. PICK sends \in BOOLEAN :
            encoder' = [encoder EXCEPT !.codec = [e \in Encoders |->
                              IF sends /\ client.known[e] # asked[e] THEN asked[e]
                              ELSE encoder.codec[e]]]
      BY <1>11 DEF TellEncoder
    <2>3. encoder' \in [h265 : BOOLEAN, codec : [Encoders -> Codecs]]
      BY <2>1, <2>2 DEF TypeInv
    <2>4. client' \in Clients /\ client'.handle = client.handle
      <3>1. client.heard \cup handler.of \in SUBSET Channels
        BY <1>1 DEF Clients, Handlers
      <3>2. PICK h \in SUBSET Channels :
              client' = [client EXCEPT !.known = asked, !.seed = FALSE, !.heard = h]
        BY <1>1, <1>11, <3>1 DEF TellEncoder, Clients
      <3>3. QED BY <1>1, <2>1, <3>2 DEF Clients
    <2>5. handler' = Idle /\ UNCHANGED <<wish, bridge, path, disk, wd, boot, left>>
      BY <1>11 DEF TellEncoder
    <2>6. QED BY <2>3, <2>4, <2>5, IdleTyped DEF TypeInv
  <1>12. QED BY <1>3, <1>4, <1>5, <1>6, <1>7, <1>8, <1>9, <1>10, <1>11 DEF HandlerStep

LEMMA FreshTyped ==
  ASSUME NEW mic \in BOOLEAN, NEW handle \in Nat
  PROVE  /\ Fresh(mic, handle) \in Clients /\ Fresh(mic, handle).up
         /\ Fresh(mic, handle).handle = handle /\ Fresh(mic, handle).active = NoTarget
         /\ Fresh(mic, handle).heard = {} /\ Fresh(mic, handle).known = [e \in Encoders |-> None]
  BY StartedTyped DEF Fresh, Clients

\* What the processes' steps do to the client and its handler.
LEMMA ClientTyped ==
  ASSUME TypeInv,
         \/ client' = AnyClient /\ handler' = handler
         \/ Kill
         \/ UNCHANGED <<client, handler>>
  PROVE  /\ client' \in Clients /\ client'.handle <= Len(bridge)
         /\ handler' \in Handlers /\ handler'.todo \subseteq handler'.of
         /\ handler'.pc \in {"connect", "mute", "codec"} => handler'.todo # {}
  BY IdleTyped, InBridge DEF AnyClient, Kill, TypeInv

LEMMA LeftTyped ==
  ASSUME left \in Lefts
  PROVE  /\ left.reconnects > 0 => [left EXCEPT !.reconnects = @ - 1] \in Lefts
         /\ left.clients > 0 => [left EXCEPT !.clients = @ - 1] \in Lefts
         /\ left.wds > 0 => [left EXCEPT !.wds = @ - 1] \in Lefts
         /\ left.restarts > 0 => [left EXCEPT !.restarts = @ - 1] \in Lefts
  <1>1. /\ left.reconnects > 0 => left.reconnects - 1 \in Nat
        /\ left.clients > 0 => left.clients - 1 \in Nat
        /\ left.wds > 0 => left.wds - 1 \in 0..MaxWdDeaths
        /\ left.restarts > 0 => left.restarts - 1 \in Nat
    BY DEF Lefts
  <1>2. QED BY <1>1 DEF Lefts

LEMMA WdTyped ==
  ASSUME TypeInv, NEW pc \in WdPcs, WdGo(pc)
  PROVE  wd' \in [pc : WdPcs, started : BOOLEAN] /\ wd'.pc = pc /\ wd'.started = wd.started
  BY DEF TypeInv, WdGo

LEMMA WdStepsGo ==
  ASSUME TypeInv,
         \/ WdWakes \/ EnsureClient \/ StopClient \/ StartClient
         \/ CliStopBridge \/ CliStartBridge \/ WdStarts
  PROVE  \E pc \in WdPcs : WdGo(pc)
  <1>1. \A pc \in {"sleep", "bridge", "stop", "start", "restop", "restart bridge"} : pc \in WdPcs
    BY DEF WdPcs
  <1>2. QED BY <1>1 DEF WdWakes, EnsureClient, StopClient, StartClient, CliStopBridge,
                        CliStartBridge, WdStarts

LEMMA ProcessTypeStep ==
  ASSUME TypeInv,
         \/ Reconnect \/ ClientDies \/ InitStarts
         \/ \E i \in DOMAIN bridge : BridgeReady(i) \/ BridgeDies(i)
  PROVE  TypeInv'
  <1>1. left \in Lefts /\ client \in Clients /\ bridge \in Seq(Bridges)
    BY DEF TypeInv
  <1>2. ASSUME Reconnect PROVE TypeInv'
    <2>1. client' = Fresh(client.mic, client.handle) /\ client.mic \in BOOLEAN /\ client.handle \in Nat
      BY <1>1, <1>2 DEF Reconnect, Clients
    <2>2. client' \in Clients /\ client'.handle = client.handle
      BY <2>1, FreshTyped
    <2>3. left' \in Lefts
      BY <1>1, <1>2, LeftTyped DEF Reconnect
    <2>4. UNCHANGED <<wish, bridge, path, handler, encoder, disk, wd, boot>>
      BY <1>2 DEF Reconnect
    <2>5. QED BY <2>2, <2>3, <2>4 DEF TypeInv
  <1>3. ASSUME ClientDies PROVE TypeInv'
    <2>1. Kill /\ UNCHANGED <<wish, bridge, path, encoder, disk, wd, boot>>
      BY <1>3 DEF ClientDies
    <2>2. left' \in Lefts
      BY <1>1, <1>3, LeftTyped DEF ClientDies
    <2>3. QED BY <2>1, <2>2, ClientTyped DEF TypeInv
  <1>4. ASSUME NEW i \in DOMAIN bridge, BridgeReady(i) PROVE TypeInv'
    <2>1. [bridge[i] EXCEPT !.state = "up"] \in Bridges
      BY InBridge DEF Bridges, BridgeStates
    <2>2. bridge' = [bridge EXCEPT ![i] = [bridge[i] EXCEPT !.state = "up"]] /\ path' = i
      BY <1>4 DEF BridgeReady
    <2>3. bridge' \in Seq(Bridges) /\ Len(bridge') = Len(bridge)
      BY <1>1, <2>1, <2>2, InBridge, ExceptSeq
    <2>4. path' \in 0..Len(bridge)
      BY <2>2, InBridge
    <2>5. UNCHANGED <<wish, client, handler, encoder, disk, wd, boot, left>>
      BY <1>4 DEF BridgeReady
    <2>6. QED BY <2>3, <2>4, <2>5 DEF TypeInv
  <1>5. ASSUME NEW i \in DOMAIN bridge, BridgeDies(i) PROVE TypeInv'
    <2>1. bridge' = [bridge EXCEPT ![i] = Dead]
      BY <1>5 DEF BridgeDies
    <2>2. bridge' \in Seq(Bridges) /\ Len(bridge') = Len(bridge)
      BY <1>1, <2>1, InBridge, StartedTyped, ExceptSeq
    <2>3. UNCHANGED <<wish, path, client, handler, encoder, disk, wd, boot, left>>
      BY <1>5 DEF BridgeDies
    <2>4. QED BY <2>2, <2>3 DEF TypeInv
  <1>6. ASSUME InitStarts PROVE TypeInv'
    <2>1. bridge' \in Seq(Bridges) /\ Len(bridge') = Len(bridge) + 1
      BY <1>6, Appended DEF InitStarts
    <2>2. boot' = FALSE /\ client' = AnyClient /\ UNCHANGED <<wish, path, handler, encoder, disk, wd, left>>
      BY <1>6 DEF InitStarts
    <2>3. path' \in 0..Len(bridge') /\ client'.handle <= Len(bridge')
      <3>1. client'.handle <= Len(bridge) /\ client' \in Clients
        BY <2>2, ClientTyped
      <3>2. QED BY <2>1, <2>2, <3>1, InBridge DEF TypeInv, Clients
    <2>4. QED BY <2>1, <2>2, <2>3, ClientTyped DEF TypeInv
  <1>7. QED BY <1>2, <1>3, <1>4, <1>5, <1>6

LEMMA WdTypeStep ==
  ASSUME TypeInv, WdStep \/ CliRestart \/ WdDies
  PROVE  TypeInv'
  <1>1. left \in Lefts /\ bridge \in Seq(Bridges)
    BY DEF TypeInv
  <1>2. wd' \in [pc : WdPcs, started : BOOLEAN]
    <2>1. CASE EnsureBridge
      BY <2>1 DEF EnsureBridge, WdPcs
    <2>2. CASE CliRestart \/ WdDies
      <3>1. "restart" \in WdPcs /\ "off" \in WdPcs
        BY DEF WdPcs
      <3>2. WdGo("restart") \/ WdGo("off")
        BY <2>2 DEF CliRestart, WdDies
      <3>3. QED BY <3>1, <3>2, WdTyped
    <2>3. CASE WdWakes \/ EnsureClient \/ StopClient \/ StartClient
                 \/ CliStopBridge \/ CliStartBridge \/ WdStarts
      BY <2>3, WdStepsGo, WdTyped
    <2>4. QED BY <2>1, <2>2, <2>3 DEF WdStep
  <1>3. left' \in Lefts
    BY <1>1, LeftTyped DEF WdStep, CliRestart, WdDies, WdWakes, EnsureBridge, EnsureClient, StopClient,
                           StartClient, CliStopBridge, CliStartBridge, WdStarts
  <1>4. /\ client' \in Clients /\ client'.handle <= Len(bridge)
        /\ handler' \in Handlers /\ handler'.todo \subseteq handler'.of
        /\ handler'.pc \in {"connect", "mute", "codec"} => handler'.todo # {}
    BY ClientTyped DEF WdStep, CliRestart, WdDies, WdWakes, EnsureBridge, EnsureClient, StopClient,
                       StartClient, CliStopBridge, CliStartBridge, WdStarts
  <1>5. bridge' \in Seq(Bridges) /\ Len(bridge') >= Len(bridge) /\ Len(bridge') \in Nat
    <2>1. CASE UNCHANGED bridge
      BY <1>1, <2>1, InBridge
    <2>2. CASE bridge' = Append(bridge, Started)
      BY <2>2, Appended, InBridge
    <2>3. CASE bridge' = [i \in DOMAIN bridge |-> Dead]
      BY <2>3, Replaced, StartedTyped, InBridge
    <2>4. CASE bridge' = [i \in DOMAIN bridge |-> IF \E j \in Running : j < i THEN Dead ELSE bridge[i]]
      <3>1. bridge' \in [DOMAIN bridge -> Bridges]
        BY <2>4, StartedTyped, InBridge
      <3>2. QED BY <3>1, Replaced, InBridge
    <2>5. QED
      BY <2>1, <2>2, <2>3, <2>4 DEF WdStep, CliRestart, WdDies, WdWakes, EnsureBridge, EnsureClient,
                                    StopClient, StartClient, CliStopBridge, CliStartBridge, WdStarts
  <1>6. UNCHANGED <<wish, path, encoder, disk, boot>>
    BY DEF WdStep, CliRestart, WdDies, WdWakes, EnsureBridge, EnsureClient, StopClient,
           StartClient, CliStopBridge, CliStartBridge, WdStarts, WdOnly
  <1>7. path' \in 0..Len(bridge') /\ client'.handle <= Len(bridge')
    <2>1. path \in 0..Len(bridge) /\ client'.handle \in Nat /\ Len(bridge) \in Nat
      BY <1>4, InBridge DEF TypeInv, Clients
    <2>2. QED BY <1>4, <1>5, <1>6, <2>1
  <1>8. QED BY <1>2, <1>3, <1>4, <1>5, <1>6, <1>7 DEF TypeInv

LEMMA TypeStep ==
  ASSUME TypeInv, [Next]_vars
  PROVE  TypeInv'
  <1>1. CASE UNCHANGED vars
    BY <1>1 DEF TypeInv, vars
  <1>2. QED BY <1>1, DeliverTyped, HandlerTypeStep, ProcessTypeStep, WdTypeStep DEF Next

\* What a message's handler does to the bridges: the one its commands get to is up
\* and stays up, the others are as they were.
LEMMA HandlerShape ==
  ASSUME TypeInv, HandlerStep
  PROVE  /\ Len(bridge') = Len(bridge) /\ DOMAIN bridge' = DOMAIN bridge
         /\ \A i \in DOMAIN bridge :
              \/ bridge'[i] = bridge[i]
              \/ i = Reach /\ bridge[i].state = "up" /\ bridge'[i].state = "up"
         /\ UNCHANGED <<wish, path, wd, boot, left>>
  <1>1. UNCHANGED <<wish, path, wd, boot, left>>
    BY DEF HandlerStep, SetMicLevel, NextTypeOnly, NextDisconnect, NextTarget, StartVideoStream,
           ReassertMute, SendChannelCodec, StoreStreamCodecs, WriteStreamCodecs, TellEncoder, HandlerOnly
  <1>2. CASE UNCHANGED bridge
    BY <1>1, <1>2, InBridge
  <1>3. ASSUME NEW new, Reach # 0 => new \in Bridges /\ new.state = "up", Written(new)
        PROVE  /\ Len(bridge') = Len(bridge) /\ DOMAIN bridge' = DOMAIN bridge
               /\ \A i \in DOMAIN bridge :
                    \/ bridge'[i] = bridge[i]
                    \/ i = Reach /\ bridge[i].state = "up" /\ bridge'[i].state = "up"
    <2>1. /\ Len(bridge') = Len(bridge) /\ DOMAIN bridge' = DOMAIN bridge
          /\ \A i \in DOMAIN bridge : bridge'[i] = IF i = Reach THEN new ELSE bridge[i]
      BY <1>3, WrittenTo
    <2>2. ASSUME NEW i \in DOMAIN bridge, i = Reach
          PROVE  bridge[i].state = "up" /\ bridge'[i].state = "up"
      <3>1. Reach # 0
        BY <2>2, InBridge
      <3>2. QED BY <1>3, <2>1, <2>2, <3>1, Reached
    <2>3. QED BY <2>1, <2>2
  <1>4. Reach # 0 => bridge[Reach].state = "up" /\ bridge[Reach] \in Bridges
    BY Reached, ReachBridge
  <1>5. CASE Written([bridge[Reach] EXCEPT !.mute = handler.mute])
             \/ Written([bridge[Reach] EXCEPT !.mute = client.mic])
    <2>1. handler.mute \in BOOLEAN /\ client.mic \in BOOLEAN
      BY DEF TypeInv, Handlers, Clients
    <2>2. ASSUME NEW m \in BOOLEAN, Written([bridge[Reach] EXCEPT !.mute = m])
          PROVE  /\ Len(bridge') = Len(bridge) /\ DOMAIN bridge' = DOMAIN bridge
                 /\ \A i \in DOMAIN bridge :
                      \/ bridge'[i] = bridge[i]
                      \/ i = Reach /\ bridge[i].state = "up" /\ bridge'[i].state = "up"
      <3>1. Reach # 0 => [bridge[Reach] EXCEPT !.mute = m] \in Bridges
                         /\ [bridge[Reach] EXCEPT !.mute = m].state = "up"
        BY <1>4 DEF Bridges
      <3>2. QED BY <1>3, <2>2, <3>1
    <2>3. QED BY <1>1, <1>5, <2>1, <2>2
  <1>6. CASE NextDisconnect \/ (StartVideoStream /\ Reach # 0) \/ SendChannelCodec
    <2>1. handler.todo # {}
      BY <1>6 DEF NextDisconnect, StartVideoStream, SendChannelCodec, Handling, TypeInv
    <2>2. c0 \in Channels /\ handler.dst[c0] \in Targets \cup {None} /\ handler.codec[c0] \in Codecs
      BY <2>1, InTodo DEF TypeInv, Handlers, TargetMaps, CodecMaps
    <2>3. ASSUME NEW t \in Targets \cup {None}
          PROVE  Reach # 0 => [bridge[Reach] EXCEPT !.target[c0] = t] \in Bridges
                              /\ [bridge[Reach] EXCEPT !.target[c0] = t].state = "up"
      BY <1>4, <2>2, ReachBridge DEF Bridges
    <2>4. Reach # 0 => [bridge[Reach] EXCEPT !.codec[c0] = handler.codec[c0]] \in Bridges
                       /\ [bridge[Reach] EXCEPT !.codec[c0] = handler.codec[c0]].state = "up"
      BY <1>4, <2>2, ReachBridge DEF Bridges
    <2>5. CASE NextDisconnect
      BY <1>1, <1>3, <2>3, <2>5 DEF NextDisconnect
    <2>6. CASE StartVideoStream /\ Reach # 0
      BY <1>1, <1>3, <2>2, <2>3, <2>6 DEF StartVideoStream
    <2>7. CASE SendChannelCodec
      BY <1>1, <1>3, <2>4, <2>7 DEF SendChannelCodec
    <2>8. QED BY <1>6, <2>5, <2>6, <2>7
  <1>7. QED
    BY <1>2, <1>5, <1>6 DEF HandlerStep, SetMicLevel, NextTypeOnly, NextTarget, StartVideoStream,
                           ReassertMute, StoreStreamCodecs, WriteStreamCodecs, TellEncoder

\* What the processes beside the supervisor do to the bridges.
LEMMA ReadyShape ==
  ASSUME TypeInv, NEW i \in DOMAIN bridge, BridgeReady(i)
  PROVE  /\ Len(bridge') = Len(bridge) /\ DOMAIN bridge' = DOMAIN bridge
         /\ bridge'[i] = [bridge[i] EXCEPT !.state = "up"] /\ bridge'[i] \in Bridges
         /\ bridge'[i].state = "up" /\ bridge'[i].target = bridge[i].target
         /\ bridge'[i].codec = bridge[i].codec
         /\ \A j \in DOMAIN bridge \ {i} : bridge'[j] = bridge[j]
  <1>1. bridge \in Seq(Bridges) /\ i \in 1..Len(bridge) /\ bridge[i] \in Bridges
    BY InBridge DEF TypeInv
  <1>2. [bridge[i] EXCEPT !.state = "up"] \in Bridges
    BY <1>1 DEF Bridges, BridgeStates
  <1>3. bridge' = [bridge EXCEPT ![i] = [bridge[i] EXCEPT !.state = "up"]]
    BY DEF BridgeReady
  <1>4. /\ bridge' \in Seq(Bridges) /\ Len(bridge') = Len(bridge)
        /\ \A j \in 1..Len(bridge) : bridge'[j] = IF j = i THEN [bridge[i] EXCEPT !.state = "up"] ELSE bridge[j]
    BY <1>1, <1>2, <1>3, ExceptSeq
  <1>5. DOMAIN bridge' = 1..Len(bridge)
    BY <1>4, LenProperties
  <1>6. bridge'[i] = [bridge[i] EXCEPT !.state = "up"]
    BY <1>1, <1>4
  <1>7. QED BY <1>1, <1>2, <1>4, <1>5, <1>6, InBridge DEF Bridges

LEMMA DiesShape ==
  ASSUME TypeInv, NEW i \in DOMAIN bridge, BridgeDies(i)
  PROVE  /\ Len(bridge') = Len(bridge) /\ DOMAIN bridge' = DOMAIN bridge
         /\ bridge'[i] = Dead
         /\ \A j \in DOMAIN bridge \ {i} : bridge'[j] = bridge[j]
  <1>1. bridge \in Seq(Bridges) /\ i \in 1..Len(bridge)
    BY InBridge DEF TypeInv
  <1>2. bridge' = [bridge EXCEPT ![i] = Dead]
    BY DEF BridgeDies
  <1>3. /\ bridge' \in Seq(Bridges) /\ Len(bridge') = Len(bridge)
        /\ \A j \in 1..Len(bridge) : bridge'[j] = IF j = i THEN Dead ELSE bridge[j]
    BY <1>1, <1>2, StartedTyped, ExceptSeq
  <1>4. DOMAIN bridge' = 1..Len(bridge)
    BY <1>3, LenProperties
  <1>5. QED BY <1>1, <1>3, <1>4, InBridge

LEMMA EnsureShape ==
  ASSUME TypeInv, EnsureBridge, Running # {}
  PROVE  /\ Len(bridge') = Len(bridge) /\ DOMAIN bridge' = DOMAIN bridge
         /\ \A i \in DOMAIN bridge :
              bridge'[i] = IF \E j \in Running : j < i THEN Dead ELSE bridge[i]
  <1>1. bridge' = [i \in DOMAIN bridge |-> IF \E j \in Running : j < i THEN Dead ELSE bridge[i]]
    BY DEF EnsureBridge
  <1>2. bridge' \in [DOMAIN bridge -> Bridges]
    BY <1>1, StartedTyped, InBridge
  <1>3. QED BY <1>1, <1>2, Replaced

LEMMA StopShape ==
  ASSUME TypeInv, CliStopBridge
  PROVE  /\ Len(bridge') = Len(bridge) /\ DOMAIN bridge' = DOMAIN bridge
         /\ \A i \in DOMAIN bridge : bridge'[i] = Dead
  <1>1. bridge' = [i \in DOMAIN bridge |-> Dead]
    BY DEF CliStopBridge
  <1>2. bridge' \in [DOMAIN bridge -> Bridges]
    BY <1>1, StartedTyped
  <1>3. QED BY <1>1, <1>2, Replaced

----------------------------------------------------------------------------
(* The bound on the processes. *)

\* Of several running bridges the oldest is kept.
LEMMA OneIsKept ==
  ASSUME TypeInv, EnsureBridge, Running # {}
  PROVE  Running' # {}
  <1>1. Running \in SUBSET Nat
    BY InBridge DEF Running
  <1>2. PICK k \in Running : \A j \in Running : k <= j
    BY <1>1, LeastNumber
  <1>3. ~\E j \in Running : j < k
    BY <1>1, <1>2
  <1>4. k \in DOMAIN bridge /\ bridge[k].state # "dead"
    BY <1>2 DEF Running
  <1>5. bridge'[k] = bridge[k] /\ DOMAIN bridge' = DOMAIN bridge
    BY <1>3, <1>4, EnsureShape
  <1>6. QED BY <1>4, <1>5 DEF Running

LEMMA BoundedCounts ==
  ASSUME TypeInv
  PROVE  /\ Len(bridge) \in Nat /\ Coming \in 0..1 /\ MaxBridges \in Nat /\ MaxBridges > 0
         /\ boot => Coming = 1
         /\ ~boot => Coming = 0
  BY InBridge DEF Coming, TypeInv

LEMMA BoundedSame ==
  ASSUME Bounded, Len(bridge') = Len(bridge), UNCHANGED boot, Running' = Running, Adds' => Adds
  PROVE  Bounded'
  BY DEF Bounded, Coming

LEMMA BoundedStep ==
  ASSUME TypeInv, Bounded, [Next]_vars
  PROVE  Bounded'
  <1>1. /\ Len(bridge) \in Nat /\ Coming \in 0..1 /\ MaxBridges \in Nat
        /\ Len(bridge) + Coming <= MaxBridges + 1
        /\ Running = {} \/ Adds => Len(bridge) + Coming <= MaxBridges
    BY BoundedCounts DEF Bounded
  <1>2. ASSUME UNCHANGED <<bridge, boot>>, Adds' => Adds
        PROVE  Bounded'
    BY <1>2, BoundedSame DEF Running
  <1>3. ASSUME Len(bridge') = Len(bridge), UNCHANGED boot, Len(bridge) < MaxBridges
        PROVE  Bounded'
    <2>1. Coming' = Coming
      BY <1>3 DEF Coming
    <2>2. Len(bridge) + Coming <= MaxBridges
      BY <1>1, <1>3
    <2>3. QED BY <1>1, <1>3, <2>1, <2>2 DEF Bounded
  <1>4. ASSUME Len(bridge') = Len(bridge) + 1, UNCHANGED boot, Running' # {}, ~Adds',
               Running = {} \/ Adds
        PROVE  Bounded'
    <2>1. Coming' = Coming
      BY <1>4 DEF Coming
    <2>2. Len(bridge) + Coming <= MaxBridges
      BY <1>1, <1>4
    <2>3. Len(bridge) + 1 + Coming <= MaxBridges + 1
      BY <1>1, <2>2
    <2>4. QED BY <1>4, <2>1, <2>3 DEF Bounded
  <1>5. ASSUME NEW kind \in Kinds, NEW of \in SUBSET Channels, NEW w \in Wishes, Deliver(kind, of, w)
        PROVE  Bounded'
    BY <1>2, <1>5 DEF Deliver, Adds
  <1>6. ASSUME HandlerStep PROVE Bounded'
    <2>1. Running' = Running
      BY <1>6, HandlerShape DEF Running
    <2>2. QED BY <1>6, <2>1, HandlerShape, BoundedSame DEF Adds
  <1>7. ASSUME Reconnect \/ ClientDies PROVE Bounded'
    BY <1>2, <1>7 DEF Reconnect, ClientDies, Adds
  <1>8. ASSUME NEW i \in DOMAIN bridge, BridgeReady(i) PROVE Bounded'
    <2>1. Running' = Running
      BY <1>8, ReadyShape DEF Running, BridgeReady
    <2>2. QED BY <1>8, <2>1, ReadyShape, BoundedSame DEF Adds, BridgeReady
  <1>9. ASSUME NEW i \in DOMAIN bridge, BridgeDies(i) PROVE Bounded'
    BY <1>3, <1>9, DiesShape DEF BridgeDies
  <1>10. ASSUME InitStarts PROVE Bounded'
    <2>1. /\ Len(bridge') = Len(bridge) + 1 /\ boot /\ ~boot' /\ UNCHANGED wd
          /\ Len(bridge) + 1 \in DOMAIN bridge' /\ bridge'[Len(bridge) + 1] = Started
      BY <1>10, Appended DEF InitStarts
    <2>2. Running' # {}
      BY <2>1, StartedTyped DEF Running
    <2>3. Coming = 1 /\ Coming' = 0
      BY <2>1 DEF Coming
    <2>4. Len(bridge') + Coming' = Len(bridge) + Coming
      BY <1>1, <2>1, <2>3
    <2>5. Adds' = Adds
      BY <2>1 DEF Adds
    <2>6. QED BY <1>1, <2>2, <2>4, <2>5 DEF Bounded
  <1>11. ASSUME EnsureBridge PROVE Bounded'
    <2>1. UNCHANGED boot /\ ~Adds'
      BY <1>11 DEF EnsureBridge, WdOnly, Adds
    <2>2. CASE Running = {}
      <3>1. bridge' = Append(bridge, Started)
        BY <1>11, <2>2 DEF EnsureBridge
      <3>2. Len(bridge') = Len(bridge) + 1 /\ Running' # {}
        BY <3>1, Appended, StartedTyped DEF Running
      <3>3. QED BY <1>4, <2>1, <2>2, <3>2
    <2>3. CASE Running # {}
      <3>1. Len(bridge') = Len(bridge) /\ Running' # {}
        BY <1>11, <2>3, EnsureShape, OneIsKept
      <3>2. Coming' = Coming
        BY <2>1 DEF Coming
      <3>3. QED BY <1>1, <2>1, <3>1, <3>2 DEF Bounded
    <2>4. QED BY <2>2, <2>3
  <1>12. ASSUME CliStopBridge PROVE Bounded'
    <2>1. Len(bridge') = Len(bridge) /\ UNCHANGED boot /\ Adds
      BY <1>12, StopShape DEF CliStopBridge, WdOnly, Adds
    <2>2. Coming' = Coming
      BY <2>1 DEF Coming
    <2>3. QED BY <1>1, <2>1, <2>2 DEF Bounded
  <1>13. ASSUME CliStartBridge PROVE Bounded'
    <2>1. Len(bridge') = Len(bridge) + 1 /\ Running' # {}
      BY <1>13, Appended, StartedTyped DEF CliStartBridge, Running
    <2>2. UNCHANGED boot /\ ~Adds' /\ Adds
      BY <1>13 DEF CliStartBridge, WdOnly, WdGo, TypeInv, Adds
    <2>3. QED BY <1>4, <2>1, <2>2
  <1>14. ASSUME CliRestart PROVE Bounded'
    BY <1>3, <1>14 DEF CliRestart, WdOnly
  <1>15. ASSUME WdWakes \/ EnsureClient \/ StopClient \/ StartClient \/ WdStarts \/ WdDies
         PROVE  Bounded'
    <2>1. UNCHANGED <<bridge, boot>>
      BY <1>15 DEF WdWakes, EnsureClient, StopClient, StartClient, WdStarts, WdDies, WdOnly
    <2>2. Adds' => Adds
      BY <1>15 DEF WdWakes, EnsureClient, StopClient, StartClient, WdStarts, WdDies, WdGo, TypeInv, Adds
    <2>3. QED BY <1>2, <2>1, <2>2
  <1>16. CASE UNCHANGED vars
    BY <1>2, <1>16 DEF vars, Adds
  <1>17. QED
    BY <1>5, <1>6, <1>7, <1>8, <1>9, <1>10, <1>11, <1>12, <1>13, <1>14, <1>15, <1>16 DEF Next, WdStep

LEMMA BoundedInit ==
  Init => Bounded
  <1> SUFFICES ASSUME Init PROVE Bounded
    OBVIOUS
  <1>1. CASE SlowBoot
    <2>1. bridge = <<>> /\ boot
      BY <1>1 DEF Init
    <2>2. Len(bridge) = 0 /\ Coming = 1 /\ MaxBridges >= 1
      BY <2>1 DEF Coming
    <2>3. QED BY <2>2 DEF Bounded
  <1>2. CASE ~SlowBoot
    <2>1. bridge = <<Started>> /\ ~boot /\ wd.pc = "sleep"
      BY <1>2 DEF Init
    <2>2. 1 \in Running
      BY <2>1, StartedTyped DEF Running
    <2>3. Len(bridge) = 1 /\ Coming = 0 /\ MaxBridges >= 1 /\ ~Adds
      BY <2>1 DEF Coming, Adds
    <2>4. QED BY <2>2, <2>3 DEF Bounded
  <1>3. QED BY <1>1, <1>2

\* Every variable holds a value the code can put there, and there are no more
\* bridge processes than MaxBridges and one.
THEOREM TypeCorrect ==
  Spec => []TypeOK
  <1>1. Init => TypeInv /\ Bounded
    BY TypeInit, BoundedInit
  <1>2. TypeInv /\ Bounded /\ [Next]_vars => (TypeInv /\ Bounded)'
    BY TypeStep, BoundedStep
  <1>3. TypeInv /\ Bounded => TypeOK
    <2> SUFFICES ASSUME TypeInv, Bounded PROVE TypeOK
      OBVIOUS
    <2>1. Len(bridge) <= MaxBridges + 1
      BY BoundedCounts DEF Bounded
    <2>2. \A i \in DOMAIN bridge :
            bridge[i] \in [state : {"starting", "up", "dead"}, mute : BOOLEAN,
                           target : [Channels -> Targets \cup {None}],
                           codec : [Channels -> Codecs]]
      BY InBridge DEF Bridges, BridgeStates, TargetMaps, CodecMaps
    <2>3. client.active \in TargetMaps /\ client.handle \in 0..Len(bridge)
          /\ client.heard \subseteq Channels
      BY InBridge DEF TypeInv, Clients
    <2>4. QED BY <2>1, <2>2, <2>3 DEF TypeInv, TypeOK, TargetMaps, CodecMaps
  <1>4. QED BY <1>1, <1>2, <1>3, PTL DEF Spec

----------------------------------------------------------------------------
(* One bridge at a time. *)

LEMMA OneBridgeInit ==
  ASSUME OneStarter, Init
  PROVE  OneBridge
  <1>1. bridge = <<Started>> /\ ~boot /\ wd.pc = "sleep"
    BY DEF Init, OneStarter
  <1>2. DOMAIN bridge = {1} /\ bridge[1] = Started
    BY <1>1
  <1>3. QED BY <1>1, <1>2, StartedTyped DEF OneBridge

LEMMA OneBridgeStep ==
  ASSUME TypeInv, OneBridge, [Next]_vars
  PROVE  OneBridge'
  <1>1. ASSUME UNCHANGED <<bridge, path, boot>>, wd'.pc = "restart bridge" => wd.pc = "restart bridge"
        PROVE  OneBridge'
    BY <1>1 DEF OneBridge
  <1>2. ASSUME NEW kind \in Kinds, NEW of \in SUBSET Channels, NEW w \in Wishes, Deliver(kind, of, w)
        PROVE  OneBridge'
    BY <1>1, <1>2 DEF Deliver
  <1>3. ASSUME HandlerStep PROVE OneBridge'
    <2>1. /\ DOMAIN bridge' = DOMAIN bridge /\ UNCHANGED <<path, wd, boot>>
          /\ \A i \in DOMAIN bridge :
                \/ bridge'[i] = bridge[i]
                \/ bridge[i].state = "up" /\ bridge'[i].state = "up"
      BY <1>3, HandlerShape
    <2>2. QED BY <2>1 DEF OneBridge
  <1>4. ASSUME Reconnect \/ ClientDies PROVE OneBridge'
    BY <1>1, <1>4 DEF Reconnect, ClientDies
  <1>5. ASSUME NEW i \in DOMAIN bridge, BridgeReady(i) PROVE OneBridge'
    <2>1. /\ DOMAIN bridge' = DOMAIN bridge /\ UNCHANGED <<wd, boot>> /\ path' = i
          /\ bridge'[i].state = "up" /\ bridge[i].state = "starting"
          /\ \A j \in DOMAIN bridge \ {i} : bridge'[j] = bridge[j]
      BY <1>5, ReadyShape DEF BridgeReady
    <2>2. \A j \in DOMAIN bridge \ {i} : bridge[j].state = "dead"
      BY <2>1 DEF OneBridge
    <2>3. wd.pc # "restart bridge"
      BY <2>1 DEF OneBridge
    <2>4. QED BY <2>1, <2>2, <2>3 DEF OneBridge
  <1>6. ASSUME NEW i \in DOMAIN bridge, BridgeDies(i) PROVE OneBridge'
    <2>1. /\ DOMAIN bridge' = DOMAIN bridge /\ UNCHANGED <<path, wd, boot>>
          /\ bridge'[i].state = "dead"
          /\ \A j \in DOMAIN bridge \ {i} : bridge'[j] = bridge[j]
      BY <1>6, DiesShape, StartedTyped DEF BridgeDies
    <2>2. QED BY <2>1 DEF OneBridge
  <1>7. ASSUME bridge' = Append(bridge, Started), UNCHANGED <<path, boot>>, wd'.pc # "restart bridge",
               \A i \in DOMAIN bridge : bridge[i].state = "dead"
        PROVE  OneBridge'
    <2>1. /\ DOMAIN bridge' = DOMAIN bridge \cup {Len(bridge) + 1}
          /\ \A i \in DOMAIN bridge : bridge'[i].state = "dead"
          /\ bridge'[Len(bridge) + 1].state = "starting"
          /\ bridge'[Len(bridge) + 1].target = NoTarget
      BY <1>7, Appended, StartedTyped
    <2>2. QED BY <1>7, <2>1 DEF OneBridge
  <1>8. ASSUME EnsureBridge PROVE OneBridge'
    <2>1. UNCHANGED <<path, boot>> /\ wd'.pc = "client"
      BY <1>8 DEF EnsureBridge, WdOnly
    <2>2. CASE Running = {}
      BY <1>7, <1>8, <2>1, <2>2 DEF EnsureBridge, Running
    <2>3. CASE Running # {}
      <3>1. /\ DOMAIN bridge' = DOMAIN bridge
            /\ \A i \in DOMAIN bridge : bridge'[i] = bridge[i] \/ bridge'[i].state = "dead"
        BY <1>8, <2>3, EnsureShape, StartedTyped
      <3>2. QED BY <2>1, <3>1 DEF OneBridge
    <2>4. QED BY <2>2, <2>3
  <1>9. ASSUME CliStopBridge PROVE OneBridge'
    <2>1. /\ DOMAIN bridge' = DOMAIN bridge
          /\ \A i \in DOMAIN bridge : bridge'[i].state = "dead"
      BY <1>9, StopShape, StartedTyped
    <2>2. UNCHANGED <<path, boot>>
      BY <1>9 DEF CliStopBridge, WdOnly
    <2>3. QED BY <2>1, <2>2 DEF OneBridge
  <1>10. ASSUME CliStartBridge PROVE OneBridge'
    <2>1. \A i \in DOMAIN bridge : bridge[i].state = "dead"
      BY <1>10 DEF CliStartBridge, OneBridge
    <2>2. bridge' = Append(bridge, Started) /\ UNCHANGED <<path, boot>> /\ wd'.pc # "restart bridge"
      BY <1>10 DEF CliStartBridge, WdOnly, WdGo, TypeInv
    <2>3. QED BY <1>7, <2>1, <2>2
  <1>11. ASSUME WdWakes \/ EnsureClient \/ StopClient \/ StartClient \/ WdStarts \/ WdDies \/ CliRestart
         PROVE  OneBridge'
    <2>1. UNCHANGED <<bridge, path, boot>>
      BY <1>11 DEF WdWakes, EnsureClient, StopClient, StartClient, WdStarts, WdDies, CliRestart, WdOnly
    <2>2. wd'.pc # "restart bridge"
      BY <1>11 DEF WdWakes, EnsureClient, StopClient, StartClient, WdStarts, WdDies, CliRestart, WdGo, TypeInv
    <2>3. QED BY <1>1, <2>1, <2>2
  <1>12. ASSUME InitStarts PROVE OneBridge'
    BY <1>12 DEF InitStarts, OneBridge
  <1>13. CASE UNCHANGED vars
    BY <1>1, <1>13 DEF vars
  <1>14. QED
    BY <1>2, <1>3, <1>4, <1>5, <1>6, <1>8, <1>9, <1>10, <1>11, <1>12, <1>13 DEF Next, WdStep

\* A command gets to the one bridge that is up, if one is.
LEMMA ReachIsUp ==
  ASSUME TypeInv, OneBridge, NEW i \in DOMAIN bridge
  PROVE  /\ bridge[i].state = "up" => Reach = i
         /\ bridge[i].state # "dead" /\ Reach # 0 => Reach = i
         /\ bridge[i].state # "dead" /\ Reach = 0 => bridge[i].target = NoTarget
  <1>1. bridge[i].state = "up" => Reach # 0
    <2>1. i # 0
      BY InBridge
    <2>2. bridge[i].state = "up" => path = i /\ i # 0
      BY <2>1 DEF OneBridge
    <2>3. bridge[i].state = "up" => IsUp(path)
      BY <2>2 DEF IsUp
    <2>4. QED BY <2>2, <2>3 DEF Reach, IsUp
  <1>2. bridge[i].state # "dead" /\ Reach # 0 => Reach = i
    BY Reached DEF OneBridge
  <1>3. bridge[i].state \in BridgeStates
    BY InBridge DEF Bridges
  <1>4. bridge[i].state # "dead" /\ Reach = 0 => bridge[i].state = "starting"
    BY <1>1, <1>3 DEF BridgeStates
  <1>5. QED BY <1>1, <1>2, <1>4 DEF OneBridge

----------------------------------------------------------------------------
(* What the commands do. *)

LEMMA WroteMute ==
  ASSUME TypeInv, NEW m \in BOOLEAN, Written([bridge[Reach] EXCEPT !.mute = m])
  PROVE  /\ DOMAIN bridge' = DOMAIN bridge
         /\ \A i \in DOMAIN bridge : /\ bridge'[i].state = bridge[i].state
                                     /\ bridge'[i].target = bridge[i].target
                                     /\ bridge'[i].codec = bridge[i].codec
  <1> DEFINE new == [bridge[Reach] EXCEPT !.mute = m]
  <1>1. Reach # 0 => /\ bridge[Reach] \in Bridges /\ new \in Bridges /\ new.state = bridge[Reach].state
                     /\ new.target = bridge[Reach].target /\ new.codec = bridge[Reach].codec
    BY ReachBridge DEF Bridges
  <1>2. /\ DOMAIN bridge' = DOMAIN bridge
        /\ \A i \in DOMAIN bridge : bridge'[i] = IF i = Reach THEN new ELSE bridge[i]
    BY <1>1, WrittenTo
  <1>3. \A i \in DOMAIN bridge : i # 0
    BY InBridge
  <1>4. QED BY <1>1, <1>2, <1>3

LEMMA WroteTarget ==
  ASSUME TypeInv, NEW c \in Channels, NEW t \in Targets \cup {None},
         Written([bridge[Reach] EXCEPT !.target[c] = t])
  PROVE  /\ DOMAIN bridge' = DOMAIN bridge
         /\ \A i \in DOMAIN bridge : /\ bridge'[i].state = bridge[i].state
                                     /\ bridge'[i].codec = bridge[i].codec
                                     /\ i # Reach => bridge'[i] = bridge[i]
                                     /\ i = Reach => bridge'[i].target = [bridge[i].target EXCEPT ![c] = t]
  <1> DEFINE new == [bridge[Reach] EXCEPT !.target[c] = t]
  <1>1. Reach # 0 => /\ bridge[Reach] \in Bridges /\ new \in Bridges /\ new.state = bridge[Reach].state
                     /\ new.codec = bridge[Reach].codec
                     /\ new.target = [bridge[Reach].target EXCEPT ![c] = t]
    BY ReachBridge DEF Bridges, TargetMaps
  <1>2. /\ DOMAIN bridge' = DOMAIN bridge
        /\ \A i \in DOMAIN bridge : bridge'[i] = IF i = Reach THEN new ELSE bridge[i]
    BY <1>1, WrittenTo
  <1>3. \A i \in DOMAIN bridge : i # 0
    BY InBridge
  <1>4. QED BY <1>1, <1>2, <1>3

LEMMA WroteCodec ==
  ASSUME TypeInv, NEW c \in Channels, NEW x \in Codecs,
         Written([bridge[Reach] EXCEPT !.codec[c] = x])
  PROVE  /\ DOMAIN bridge' = DOMAIN bridge
         /\ \A i \in DOMAIN bridge : /\ bridge'[i].state = bridge[i].state
                                     /\ bridge'[i].target = bridge[i].target
                                     /\ i # Reach => bridge'[i] = bridge[i]
                                     /\ i = Reach => bridge'[i].codec = [bridge[i].codec EXCEPT ![c] = x]
  <1> DEFINE new == [bridge[Reach] EXCEPT !.codec[c] = x]
  <1>1. Reach # 0 => /\ bridge[Reach] \in Bridges /\ new \in Bridges /\ new.state = bridge[Reach].state
                     /\ new.target = bridge[Reach].target
                     /\ new.codec = [bridge[Reach].codec EXCEPT ![c] = x]
    BY ReachBridge DEF Bridges, CodecMaps
  <1>2. /\ DOMAIN bridge' = DOMAIN bridge
        /\ \A i \in DOMAIN bridge : bridge'[i] = IF i = Reach THEN new ELSE bridge[i]
    BY <1>1, WrittenTo
  <1>3. \A i \in DOMAIN bridge : i # 0
    BY InBridge
  <1>4. QED BY <1>1, <1>2, <1>3

LEMMA HandlerUp ==
  ASSUME TypeInv, HandlerStep
  PROVE  client.up /\ client'.up /\ handler.pc # "idle"
  <1>1. client.up /\ handler.pc # "idle"
    BY DEF HandlerStep, SetMicLevel, NextTypeOnly, NextDisconnect, NextTarget, StartVideoStream,
           ReassertMute, SendChannelCodec, StoreStreamCodecs, WriteStreamCodecs, TellEncoder, Handling
  <1>2. client \in Clients
    BY DEF TypeInv
  <1>3. client'.up = client.up
    BY <1>2 DEF HandlerStep, SetMicLevel, NextTypeOnly, NextDisconnect, NextTarget, StartVideoStream,
           ReassertMute, SendChannelCodec, StoreStreamCodecs, WriteStreamCodecs, TellEncoder, Clients
  <1>4. QED BY <1>1, <1>3

LEMMA AttendedStep ==
  ASSUME TypeInv, Attended, [Next]_vars
  PROVE  Attended'
  <1>1. ASSUME NEW kind \in Kinds, NEW of \in SUBSET Channels, NEW w \in Wishes, Deliver(kind, of, w)
        PROVE  Attended'
    BY <1>1 DEF Deliver, Attended
  <1>2. CASE HandlerStep
    BY <1>2, HandlerUp DEF Attended
  <1>3. CASE Reconnect
    <2>1. client.mic \in BOOLEAN /\ client.handle \in Nat
      BY DEF TypeInv, Clients
    <2>2. QED BY <1>3, <2>1, FreshTyped DEF Reconnect, Attended
  <1>4. CASE Kill
    BY <1>4, IdleTyped DEF Kill, Attended
  <1>5. CASE client' = AnyClient
    BY <1>5, IdleTyped DEF AnyClient, Attended
  <1>6. CASE UNCHANGED <<client, handler>>
    BY <1>6 DEF Attended
  <1>7. QED
    BY <1>1, <1>2, <1>3, <1>4, <1>5, <1>6 DEF Next, ClientDies, BridgeReady, BridgeDies, InitStarts,
       WdStep, WdWakes, EnsureBridge, EnsureClient, StopClient, StartClient, CliStopBridge, CliStartBridge,
       WdStarts, CliRestart, WdDies, vars

----------------------------------------------------------------------------
(* What the client remembers is what the bridge has. *)

\* The handler's step on a channel that is not being connected.
LEMMA RememberedSame ==
  ASSUME Remembered, handler.pc # "connect", handler'.pc # "connect",
         UNCHANGED <<wd>>, client'.up = client.up,
         DOMAIN bridge' = DOMAIN bridge,
         \A i \in DOMAIN bridge : bridge'[i].state = bridge[i].state /\ bridge'[i].target = bridge[i].target,
         client'.active = client.active
  PROVE  Remembered'
  BY DEF Remembered, Bouncing

LEMMA RememberedBy ==
  ASSUME UNCHANGED wd, DOMAIN bridge' = DOMAIN bridge,
         ASSUME ~Bouncing, NEW i \in DOMAIN bridge, NEW c \in Channels,
                bridge'[i].state # "dead", client'.active[c] # None
         PROVE  bridge'[i].target[c] = client'.active[c] \/ (handler'.pc = "connect" /\ c = c0')
  PROVE  Remembered'
  <1>1. Bouncing' = Bouncing
    BY DEF Bouncing
  <1>2. SUFFICES ASSUME ~Bouncing, NEW i \in DOMAIN bridge, NEW c \in Channels,
                        bridge'[i].state # "dead", client'.active[c] # None
                 PROVE  bridge'[i].target[c] = client'.active[c] \/ (handler'.pc = "connect" /\ c = c0')
    BY <1>1 DEF Remembered
  <1>3. QED BY <1>2

LEMMA ConnectHandler ==
  ASSUME TypeInv, HandlerStep, handler.pc = "connect" => client.active[c0] = handler.dst[c0]
  PROVE  handler'.pc = "connect" => client'.active[c0'] = handler'.dst[c0']
  <1>1. CASE NextTarget
    <2>1. handler.todo # {} /\ c0 \in Channels
      BY <1>1, InTodo DEF NextTarget
    <2>2. handler'.todo = handler.todo /\ handler'.dst = handler.dst
      BY <1>1 DEF NextTarget, TypeInv, Handlers
    <2>3. c0' = c0
      BY <2>2 DEF c0
    <2>4. client'.active[c0] = handler.dst[c0]
      BY <1>1, <2>1 DEF NextTarget, TypeInv, Clients, TargetMaps
    <2>5. QED BY <2>2, <2>3, <2>4
  <1>2. CASE ~NextTarget
    <2>1. handler \in Handlers
      BY DEF TypeInv
    <2>2. NextTypeOnly \/ NextDisconnect => handler'.pc = "next"
      BY DoneTyped, NotedTyped DEF NextTypeOnly, NextDisconnect
    <2>3. SendChannelCodec => handler'.pc = "next"
      BY <2>1, DoneTyped DEF SendChannelCodec, Handling, TypeInv
    <2>4. ASSUME NEW pc, Go(pc) PROVE handler'.pc = pc
      BY <2>1, <2>4 DEF Go, Handlers
    <2>5. Idle.pc # "connect"
      BY IdleTyped
    <2>6. QED
      BY <1>2, <2>2, <2>3, <2>4, <2>5 DEF HandlerStep, SetMicLevel, StartVideoStream,
         ReassertMute, StoreStreamCodecs, WriteStreamCodecs, TellEncoder
  <1>3. QED BY <1>1, <1>2

LEMMA RememberedHandler ==
  ASSUME DedupInv, HandlerStep
  PROVE  Remembered'
  <1> USE DEF DedupInv
  <1>1. client \in Clients /\ handler \in Handlers /\ client.up
    BY DEF TypeInv, HandlerStep, SetMicLevel, NextTypeOnly, NextDisconnect, NextTarget, StartVideoStream,
           ReassertMute, SendChannelCodec, StoreStreamCodecs, WriteStreamCodecs, TellEncoder, Handling
  <1>2. UNCHANGED wd
    BY HandlerShape
  <1>3. CASE SetMicLevel
    <2>1. handler'.pc # "connect" /\ handler.pc # "connect"
      BY <1>1, <1>3, IdleTyped DEF SetMicLevel, Handling, Go, Handlers
    <2>2. client'.active = client.active /\ client'.up = client.up
      BY <1>1, <1>3 DEF SetMicLevel, Clients
    <2>3. DOMAIN bridge' = DOMAIN bridge
          /\ \A i \in DOMAIN bridge :
                bridge'[i].state = bridge[i].state /\ bridge'[i].target = bridge[i].target
      BY <1>1, <1>3, WroteMute DEF SetMicLevel, Handlers
    <2>4. QED BY <1>2, <2>1, <2>2, <2>3, RememberedSame
  <1>4. CASE NextTypeOnly
    <2>1. handler'.pc # "connect" /\ handler.pc # "connect"
      BY <1>4, DoneTyped, NotedTyped DEF NextTypeOnly, Handling
    <2>2. UNCHANGED <<client, bridge>>
      BY <1>4 DEF NextTypeOnly
    <2>3. QED BY <1>2, <2>1, <2>2, RememberedSame
  <1>5. CASE NextDisconnect
    <2>1. handler.todo # {} /\ c0 \in Channels
      BY <1>5, InTodo DEF NextDisconnect
    <2>2. handler.pc # "connect"
      BY <1>5 DEF NextDisconnect, Handling
    <2>3. client'.active = [client.active EXCEPT ![c0] = None] /\ client'.up = client.up
      BY <1>1, <1>5 DEF NextDisconnect, Clients
    <2>4. /\ DOMAIN bridge' = DOMAIN bridge
          /\ \A i \in DOMAIN bridge : /\ bridge'[i].state = bridge[i].state
                                      /\ \A d \in Channels \ {c0} : bridge'[i].target[d] = bridge[i].target[d]
      <3>a. TypeInv /\ c0 \in Channels
        BY <2>1
      <3>2. Written([bridge[Reach] EXCEPT !.target[c0] = None]) /\ None \in Targets \cup {None}
        BY <1>5 DEF NextDisconnect
      <3>3. /\ DOMAIN bridge' = DOMAIN bridge
            /\ \A i \in DOMAIN bridge :
                /\ bridge'[i].state = bridge[i].state
                /\ bridge'[i].codec = bridge[i].codec
                /\ i # Reach => bridge'[i] = bridge[i]
                /\ i = Reach => bridge'[i].target = [bridge[i].target EXCEPT ![c0] = None]
        BY <3>a, <3>2, WroteTarget, Zenon
      <3>4. ASSUME NEW i \in DOMAIN bridge, NEW d \in Channels \ {c0}
            PROVE  bridge'[i].target[d] = bridge[i].target[d]
        <4>1. bridge[i].target \in TargetMaps /\ d \in Channels /\ d # c0
          BY <3>a, InBridge DEF Bridges
        <4>2. [bridge[i].target EXCEPT ![c0] = None][d] = bridge[i].target[d]
          BY <4>1 DEF TargetMaps
        <4>3. QED BY <3>3, <4>2
      <3>5. QED BY <3>3, <3>4
    <2>5. client'.active[c0] = None /\ \A d \in Channels \ {c0} : client'.active[d] = client.active[d]
      BY <1>1, <2>1, <2>3 DEF Clients, TargetMaps
    <2>6. ASSUME ~Bouncing, NEW i \in DOMAIN bridge, NEW c \in Channels,
                 bridge[i].state # "dead", client'.active[c] # None
          PROVE  bridge'[i].target[c] = client'.active[c]
      <3>1. c # c0 /\ client'.active[c] = client.active[c] /\ bridge'[i].target[c] = bridge[i].target[c]
        BY <2>4, <2>5, <2>6
      <3>2. QED BY <1>1, <2>2, <2>6, <3>1 DEF Remembered
    <2>7. QED BY <1>2, <2>4, <2>6, RememberedBy
  <1>6. CASE NextTarget
    <2>1. handler.todo # {} /\ c0 \in Channels /\ UNCHANGED bridge /\ handler.pc # "connect"
      BY <1>6, InTodo DEF NextTarget, Handling
    <2>2. client'.active = [client.active EXCEPT ![c0] = handler.dst[c0]] /\ client'.up = client.up
      BY <1>1, <1>6 DEF NextTarget, Clients
    <2>3. client'.active[c0] = handler.dst[c0] /\ \A d \in Channels \ {c0} : client'.active[d] = client.active[d]
      BY <1>1, <2>1, <2>2 DEF Clients, TargetMaps
    <2>4. handler'.todo = handler.todo
          /\ handler'.pc = IF client.active[c0] = handler.dst[c0] THEN "codec" ELSE "connect"
      BY <1>1, <1>6 DEF NextTarget, Handlers
    <2>5. c0' = c0
      BY <2>4 DEF c0
    <2>6. ASSUME ~Bouncing, NEW i \in DOMAIN bridge, NEW c \in Channels,
                 bridge[i].state # "dead", client'.active[c] # None,
                 ~(handler'.pc = "connect" /\ c = c0)
          PROVE  bridge[i].target[c] = client'.active[c]
      <3>1. client'.active[c] = client.active[c]
        BY <2>1, <2>3, <2>4, <2>6
      <3>2. QED BY <1>1, <2>1, <2>6, <3>1 DEF Remembered
    <2>7. QED BY <1>2, <2>1, <2>5, <2>6, RememberedBy
  <1>7. CASE StartVideoStream
    <2>1. handler.todo # {} /\ handler.pc = "connect"
      BY <1>7 DEF StartVideoStream, Handling, TypeInv
    <2>2. c0 \in Channels
      BY <2>1, InTodo
    <2>3. handler'.pc # "connect"
      BY <1>1, <1>7 DEF StartVideoStream, Go, Handlers
    <2>4. CASE Reach = 0 /\ UNCHANGED bridge
               /\ client' = [client EXCEPT !.active[c0] = None, !.handle = 0]
      <3>1. client'.up = client.up /\ client'.active[c0] = None
            /\ \A d \in Channels \ {c0} : client'.active[d] = client.active[d]
        BY <1>1, <2>2, <2>4 DEF Clients, TargetMaps
      <3>2. QED BY <1>2, <2>2, <2>4, <3>1, ZenonT(30) DEF Remembered, Bouncing
    <2>5. CASE Reach # 0 /\ client' = [client EXCEPT !.handle = Reach]
               /\ Written([bridge[Reach] EXCEPT !.target[c0] = handler.dst[c0]])
      <3>1. client'.up = client.up /\ client'.active = client.active
        BY <1>1, <2>5 DEF Clients
      <3>2. handler.dst[c0] \in Targets \cup {None} /\ client.active[c0] = handler.dst[c0]
        BY <1>1, <2>1, <2>2 DEF Handlers, TargetMaps
      <3>3. /\ DOMAIN bridge' = DOMAIN bridge
            /\ \A i \in DOMAIN bridge : /\ bridge'[i].state = bridge[i].state
                                        /\ i = Reach => bridge'[i].target[c0] = handler.dst[c0]
                                        /\ \A d \in Channels \ {c0} : bridge'[i].target[d] = bridge[i].target[d]
        <4>1. /\ DOMAIN bridge' = DOMAIN bridge
              /\ \A i \in DOMAIN bridge :
                  /\ bridge'[i].state = bridge[i].state
                  /\ bridge'[i].codec = bridge[i].codec
                  /\ i # Reach => bridge'[i] = bridge[i]
                  /\ i = Reach => bridge'[i].target = [bridge[i].target EXCEPT ![c0] = handler.dst[c0]]
          BY <2>2, <2>5, <3>2, WroteTarget, Zenon
        <4>2. ASSUME NEW i \in DOMAIN bridge
              PROVE  /\ i = Reach => bridge'[i].target[c0] = handler.dst[c0]
                     /\ \A d \in Channels \ {c0} : bridge'[i].target[d] = bridge[i].target[d]
          <5>a. bridge[i].target \in TargetMaps
            BY InBridge DEF Bridges
          <5>2. /\ [bridge[i].target EXCEPT ![c0] = handler.dst[c0]][c0] = handler.dst[c0]
                /\ \A d \in Channels \ {c0} :
                      [bridge[i].target EXCEPT ![c0] = handler.dst[c0]][d] = bridge[i].target[d]
            BY <2>2, <5>a DEF TargetMaps
          <5>3. QED BY <4>1, <5>2
        <4>3. QED BY <4>1, <4>2
      <3>4. \A i \in DOMAIN bridge : bridge[i].state # "dead" => i = Reach
        BY <2>5, ReachIsUp
      <3>5. ASSUME ~Bouncing, NEW i \in DOMAIN bridge, NEW c \in Channels,
                   bridge[i].state # "dead", client.active[c] # None
            PROVE  bridge'[i].target[c] = client.active[c]
        <4>1. CASE c = c0
          BY <3>2, <3>3, <3>4, <3>5, <4>1
        <4>2. CASE c # c0
          <5>1. bridge'[i].target[c] = bridge[i].target[c]
            BY <3>3, <3>5, <4>2
          <5>2. QED BY <1>1, <3>5, <4>2, <5>1 DEF Remembered
        <4>3. QED BY <4>1, <4>2
      <3>6. ASSUME ~Bouncing, NEW i \in DOMAIN bridge, NEW c \in Channels,
                   bridge'[i].state # "dead", client'.active[c] # None
            PROVE  bridge'[i].target[c] = client'.active[c]
        <4>1. bridge[i].state # "dead"
          BY <3>3, <3>6
        <4>2. client.active[c] # None
          BY <3>1, <3>6
        <4>3. bridge'[i].target[c] = client.active[c]
          BY <3>5, <3>6, <4>1, <4>2
        <4>4. QED BY <3>1, <4>3
      <3>7. QED BY <1>2, <3>3, <3>6, RememberedBy
    <2>6. QED BY <1>7, <2>4, <2>5 DEF StartVideoStream
  <1>8. CASE ReassertMute
    <2>1. handler'.pc # "connect" /\ handler.pc # "connect"
      BY <1>1, <1>8 DEF ReassertMute, Handling, Go, Handlers
    <2>2. client'.active = client.active /\ client'.up = client.up /\ client.mic \in BOOLEAN
      BY <1>1, <1>8 DEF ReassertMute, Clients
    <2>3. DOMAIN bridge' = DOMAIN bridge
          /\ \A i \in DOMAIN bridge :
                bridge'[i].state = bridge[i].state /\ bridge'[i].target = bridge[i].target
      BY <1>8, <2>2, WroteMute DEF ReassertMute
    <2>4. QED BY <1>2, <2>1, <2>2, <2>3, RememberedSame
  <1>9. CASE SendChannelCodec
    <2>1. handler.todo # {}
      BY <1>9 DEF SendChannelCodec, Handling, TypeInv
    <2>2. handler'.pc # "connect" /\ handler.pc # "connect"
      BY <1>9, <2>1, DoneTyped DEF SendChannelCodec, Handling
    <2>3. client'.active = client.active /\ client'.up = client.up
      BY <1>1, <1>9 DEF SendChannelCodec, Clients
    <2>4. c0 \in Channels /\ handler.codec[c0] \in Codecs
      BY <1>1, <2>1, InTodo DEF Handlers, CodecMaps
    <2>5. DOMAIN bridge' = DOMAIN bridge
          /\ \A i \in DOMAIN bridge :
                bridge'[i].state = bridge[i].state /\ bridge'[i].target = bridge[i].target
      BY <1>9, <2>4, WroteCodec DEF SendChannelCodec
    <2>6. QED BY <1>2, <2>2, <2>3, <2>5, RememberedSame
  <1>10. CASE StoreStreamCodecs \/ WriteStreamCodecs
    <2>1. handler'.pc # "connect" /\ handler.pc # "connect"
      BY <1>1, <1>10 DEF StoreStreamCodecs, WriteStreamCodecs, Handling, Go, Handlers
    <2>2. UNCHANGED <<bridge, client>>
      BY <1>10 DEF StoreStreamCodecs, WriteStreamCodecs
    <2>3. QED BY <1>2, <2>1, <2>2, RememberedSame
  <1>11. CASE TellEncoder
    <2>1. handler'.pc # "connect" /\ handler.pc # "connect" /\ UNCHANGED bridge
      BY <1>11, IdleTyped DEF TellEncoder, Handling
    <2>2. client'.active = client.active /\ client'.up = client.up
      BY <1>1, <1>11 DEF TellEncoder, Clients
    <2>3. QED BY <1>2, <2>1, <2>2, RememberedSame
  <1>12. QED
    BY <1>3, <1>4, <1>5, <1>6, <1>7, <1>8, <1>9, <1>10, <1>11 DEF HandlerStep

\* A new client remembers nothing, and one that is down neither.
LEMMA RememberedNone ==
  ASSUME ~client'.up \/ client'.active = NoTarget
  PROVE  Remembered'
  BY DEF Remembered, NoTarget

LEMMA RememberedProcess ==
  ASSUME DedupInv,
         \/ Reconnect \/ ClientDies
         \/ \E i \in DOMAIN bridge : BridgeReady(i) \/ BridgeDies(i)
  PROVE  Remembered'
  <1>1. TypeInv /\ Remembered
    BY DEF DedupInv
  <1>2. ASSUME Reconnect PROVE Remembered'
    <2>1. client' = Fresh(client.mic, client.handle) /\ client.mic \in BOOLEAN /\ client.handle \in Nat
      BY <1>1, <1>2 DEF Reconnect, TypeInv, Clients
    <2>2. QED BY <2>1, FreshTyped, RememberedNone
  <1>3. ASSUME ClientDies PROVE Remembered'
    BY <1>3, IdleTyped, RememberedNone DEF ClientDies, Kill
  <1>4. ASSUME NEW i \in DOMAIN bridge, BridgeReady(i) PROVE Remembered'
    <2>1. UNCHANGED <<client, handler, wd>> /\ bridge[i].state = "starting"
      BY <1>4 DEF BridgeReady
    <2>2. /\ DOMAIN bridge' = DOMAIN bridge
          /\ bridge'[i].target = bridge[i].target
          /\ \A j \in DOMAIN bridge \ {i} : bridge'[j] = bridge[j]
      BY <1>1, <1>4, ReadyShape
    <2>3. QED BY <1>1, <2>1, <2>2 DEF Remembered, Bouncing, c0
  <1>5. ASSUME NEW i \in DOMAIN bridge, BridgeDies(i) PROVE Remembered'
    <2>1. UNCHANGED <<client, handler, wd>>
      BY <1>5 DEF BridgeDies
    <2>2. /\ DOMAIN bridge' = DOMAIN bridge
          /\ bridge'[i].state = "dead"
          /\ \A j \in DOMAIN bridge \ {i} : bridge'[j] = bridge[j]
      BY <1>1, <1>5, DiesShape, StartedTyped
    <2>3. QED BY <1>1, <2>1, <2>2 DEF Remembered, Bouncing, c0
  <1>6. QED BY <1>2, <1>3, <1>4, <1>5

\* The supervisor starts a bridge only when none runs or the client is down, and
\* then bounces the client before it is done.
LEMMA RememberedWd ==
  ASSUME DedupInv, WdStep \/ CliRestart
  PROVE  /\ Remembered'
         /\ wd'.pc \in {"restop", "restart bridge", "start"} => ~client'.up
         /\ wd'.pc # "off"
         /\ handler'.pc = "connect" => client'.active = client.active /\ handler' = handler
  <1>1. TypeInv /\ Remembered /\ wd.pc # "off" /\ wd \in [pc : WdPcs, started : BOOLEAN]
        /\ (wd.pc \in {"restop", "restart bridge", "start"} => ~client.up)
    BY DEF DedupInv, TypeInv
  <1>2. ASSUME NEW pc, WdGo(pc) PROVE wd'.pc = pc /\ wd'.started = wd.started
    BY <1>1, <1>2 DEF WdGo
  <1>3. Idle.pc = "idle" /\ ~NoClient.up /\ NewClient.active = NoTarget
    BY IdleTyped
  <1>4. ASSUME WdWakes \/ CliRestart
        PROVE  /\ Remembered' /\ wd'.pc \in {"bridge", "restart"}
               /\ UNCHANGED <<client, handler>>
    <2>1. UNCHANGED <<bridge, client, handler>> /\ wd'.pc \in {"bridge", "restart"} /\ wd.pc = "sleep"
      BY <1>1, <1>4 DEF WdWakes, CliRestart, WdGo
    <2>2. ~Bouncing
      BY <2>1 DEF Bouncing
    <2>3. QED BY <1>1, <2>1, <2>2 DEF Remembered, c0
  <1>5. ASSUME EnsureBridge
        PROVE  /\ Remembered' /\ wd'.pc = "client"
               /\ UNCHANGED <<client, handler>>
    <2>1. UNCHANGED <<client, handler>> /\ wd'.pc = "client" /\ wd.pc = "bridge"
          /\ wd'.started = (Running = {})
      BY <1>5 DEF EnsureBridge
    <2>2. CASE Running = {}
      BY <2>1, <2>2 DEF Remembered, Bouncing
    <2>3. CASE Running # {}
      <3>1. /\ DOMAIN bridge' = DOMAIN bridge
            /\ \A i \in DOMAIN bridge : bridge'[i] = bridge[i] \/ bridge'[i].state = "dead"
        BY <1>1, <1>5, <2>3, EnsureShape, StartedTyped
      <3>2. ~Bouncing
        BY <2>1 DEF Bouncing
      <3>3. QED BY <1>1, <2>1, <3>1, <3>2 DEF Remembered, c0
    <2>4. QED BY <2>1, <2>2, <2>3
  <1>6. ASSUME EnsureClient
        PROVE  /\ Remembered' /\ wd'.pc \in {"stop", "sleep"} /\ handler' = handler
               /\ handler.pc = "connect" /\ client.up => client' = client
    <2>1. /\ handler' = handler /\ bridge' = bridge /\ wd.pc = "client"
          /\ client' = IF client.up THEN client ELSE NewClient
          /\ wd'.pc = IF client.up /\ wd.started THEN "stop" ELSE "sleep"
      BY <1>1, <1>6 DEF EnsureClient, WdGo, AnyClient
    <2>2. CASE client.up /\ wd.started
      BY <2>1, <2>2 DEF Remembered, Bouncing
    <2>3. CASE client.up /\ ~wd.started
      <3>1. ~Bouncing /\ client' = client
        BY <2>1, <2>3 DEF Bouncing
      <3>2. QED BY <1>1, <2>1, <2>3, <3>1 DEF Remembered, c0
    <2>4. CASE ~client.up
      BY <1>3, <2>1, <2>4, RememberedNone
    <2>5. QED BY <2>1, <2>2, <2>3, <2>4
  <1>7. ASSUME StopClient
        PROVE  /\ Remembered' /\ wd'.pc \in {"start", "restop"} /\ ~client'.up /\ handler'.pc = "idle"
    <2>1. client' = NoClient /\ handler' = Idle /\ wd'.pc \in {"start", "restop"}
      BY <1>1, <1>7 DEF StopClient, Kill, WdGo
    <2>2. QED BY <1>3, <2>1, RememberedNone
  <1>8. ASSUME StartClient
        PROVE  /\ Remembered' /\ wd'.pc = "sleep" /\ handler' = handler /\ ~client.up
    <2>1. client' = NewClient /\ handler' = handler /\ wd'.pc = "sleep" /\ ~client.up
      BY <1>1, <1>8 DEF StartClient, AnyClient, WdGo
    <2>2. QED BY <1>3, <2>1, RememberedNone
  <1>9. ASSUME CliStopBridge \/ CliStartBridge
        PROVE  /\ Remembered' /\ wd'.pc \in {"restart bridge", "start"} /\ ~client'.up
               /\ UNCHANGED <<client, handler>>
    <2>1. UNCHANGED <<client, handler>> /\ wd'.pc \in {"restart bridge", "start"} /\ ~client.up
      BY <1>1, <1>9 DEF CliStopBridge, CliStartBridge, WdGo
    <2>2. QED BY <2>1, RememberedNone
  <1>10. ~WdStarts
    BY <1>1 DEF WdStarts
  <1>11. handler.pc = "connect" => client.up
    BY DEF DedupInv, Attended
  <1>12. QED BY <1>4, <1>5, <1>6, <1>7, <1>8, <1>9, <1>10, <1>11 DEF WdStep

LEMMA DedupStep ==
  ASSUME DedupInv, [Next]_vars
  PROVE  DedupInv'
  <1>1. TypeInv' /\ OneBridge' /\ Attended'
    BY TypeStep, OneBridgeStep, AttendedStep DEF DedupInv
  <1> DEFINE Rest == /\ wd.pc # "off" /\ left.wds = 0
                     /\ wd.pc \in {"restop", "restart bridge", "start"} => ~client.up
                     /\ handler.pc = "connect" => client.active[c0] = handler.dst[c0]
                     /\ Remembered
  <1>2. SUFFICES Rest'
    BY <1>1 DEF DedupInv
  <1>3. Rest /\ TypeInv /\ left \in Lefts
    BY DEF DedupInv, TypeInv
  <1>4. ASSUME UNCHANGED <<wd, left>>, client'.up => client.up,
               handler'.pc = "connect" => client'.active[c0'] = handler'.dst[c0'],
               Remembered'
        PROVE  Rest'
    BY <1>3, <1>4
  <1>5. ASSUME NEW kind \in Kinds, NEW of \in SUBSET Channels, NEW w \in Wishes, Deliver(kind, of, w)
        PROVE  Rest'
    <2>1. /\ UNCHANGED <<client, bridge, wd>> /\ handler.pc = "idle"
          /\ handler'.pc \in {"audio", "next"}
      BY <1>5 DEF Deliver
    <2>2. left'.wds = 0
      BY <1>3, <1>5 DEF Deliver, Lefts
    <2>3. Remembered'
      BY <1>3, <2>1 DEF Remembered, Bouncing
    <2>4. QED BY <1>3, <2>1, <2>2, <2>3
  <1>6. CASE HandlerStep
    <2>1. UNCHANGED <<wd, left>> /\ client.up
      BY <1>3, <1>6, HandlerShape, HandlerUp
    <2>2. handler'.pc = "connect" => client'.active[c0'] = handler'.dst[c0']
      BY <1>3, <1>6, ConnectHandler
    <2>3. Remembered'
      BY <1>6, RememberedHandler
    <2>4. QED BY <1>4, <2>1, <2>2, <2>3
  <1>7. CASE Reconnect \/ ClientDies
    <2>1. Remembered'
      BY <1>7, RememberedProcess
    <2>2. wd' = wd /\ left'.wds = 0 /\ handler'.pc # "connect" /\ client.up
      BY <1>3, <1>7, IdleTyped DEF Reconnect, ClientDies, Kill, Lefts
    <2>3. QED BY <1>3, <2>1, <2>2
  <1>8. ASSUME NEW i \in DOMAIN bridge, BridgeReady(i) \/ BridgeDies(i) PROVE Rest'
    <2>1. Remembered'
      BY <1>8, RememberedProcess
    <2>2. UNCHANGED <<wd, left, client, handler>>
      BY <1>8 DEF BridgeReady, BridgeDies
    <2>3. c0' = c0
      BY <2>2 DEF c0
    <2>4. QED BY <1>3, <1>4, <2>1, <2>2, <2>3
  <1>9. CASE WdStep \/ CliRestart
    <2>1. /\ Remembered' /\ wd'.pc # "off"
          /\ wd'.pc \in {"restop", "restart bridge", "start"} => ~client'.up
          /\ handler'.pc = "connect" => client'.active = client.active /\ handler' = handler
      BY <1>9, RememberedWd
    <2>2. left'.wds = 0
      BY <1>3, <1>9 DEF WdStep, CliRestart, WdWakes, EnsureBridge, EnsureClient, StopClient, StartClient,
         CliStopBridge, CliStartBridge, WdStarts, Lefts
    <2>3. handler' = handler => c0' = c0
      BY DEF c0
    <2>4. QED BY <1>3, <2>1, <2>2, <2>3
  <1>10. ~WdDies /\ ~InitStarts
    <2>1. left.wds = 0 /\ ~boot
      BY DEF DedupInv, OneBridge
    <2>2. QED BY <2>1 DEF WdDies, InitStarts
  <1>11. CASE UNCHANGED vars
    <2>1. UNCHANGED <<wd, left, client, handler, bridge>> /\ c0' = c0
      BY <1>11 DEF vars, c0
    <2>2. QED BY <1>3, <2>1 DEF Remembered, Bouncing
  <1>12. QED BY <1>5, <1>6, <1>7, <1>8, <1>9, <1>10, <1>11 DEF Next

LEMMA DedupInit ==
  ASSUME OneStarter, MaxWdDeaths = 0, Init
  PROVE  DedupInv
  <1>1. TypeInv /\ OneBridge
    BY TypeInit, OneBridgeInit
  <1>2. wd.pc = "sleep" /\ left.wds = 0 /\ handler = Idle /\ client = NewClient
    BY DEF Init, OneStarter
  <1>3. client.active = NoTarget /\ handler.pc = "idle"
    BY <1>2, IdleTyped
  <1>4. Remembered /\ Attended
    BY <1>3 DEF Remembered, NoTarget, Attended
  <1>5. QED BY <1>1, <1>2, <1>3, <1>4 DEF DedupInv

\* A destination the client remembers, and so will not send again, is one the running
\* bridge has: whoever replaces the bridge bounces the client.  Both hypotheses are
\* needed: a supervisor that dies before the bounce leaves a client that remembers what
\* the new bridge never had, and so does one that starts beside init.sh.
THEOREM DedupSoundHolds ==
  ~SlowBoot /\ MaxWdDeaths = 0 => (Spec => []DedupSound)
  <1> SUFFICES ASSUME ~SlowBoot, MaxWdDeaths = 0 PROVE Spec => []DedupSound
    OBVIOUS
  <1>1. Init => DedupInv
    BY DedupInit DEF OneStarter
  <1>2. DedupInv /\ [Next]_vars => DedupInv'
    BY DedupStep
  <1>3. DedupInv => DedupSound
    <2> SUFFICES ASSUME DedupInv, Settled,
                        NEW i \in DOMAIN bridge, NEW c \in Channels,
                        IsUp(i), client.active[c] # None
                 PROVE  bridge[i].target[c] = client.active[c]
      BY DEF DedupSound
    <2>1. client.up /\ ~Bouncing /\ handler.pc # "connect" /\ bridge[i].state # "dead"
      BY DEF Settled, Bouncing, IsUp
    <2>2. QED BY <2>1 DEF DedupInv, Remembered
  <1>4. QED BY <1>1, <1>2, <1>3, PTL DEF Spec

----------------------------------------------------------------------------
(* What an encoder makes is what its channel is labelled with. *)

\* A supervisor that finds the stack, a controller that names the codecs beside the
\* destination, first codecs that are sent, and an encoder to each channel.
OneSource ==
    /\ ~SlowBoot /\ "types" \notin Kinds /\ SeedOutcomes = {TRUE}
    /\ ~({2, 3} \subseteq Channels)

LEMMA OwnEncoder ==
  ASSUME OneSource, NEW codec \in CodecMaps, NEW c \in Channels
  PROVE  Asked(codec, EncoderOf(c)) = codec[c]
  <1>1. ASSUME NEW d \in Channels, EncoderOf(d) = EncoderOf(c) PROVE d = c
    <2>1. c \in {1, 2, 3} /\ d \in {1, 2, 3}
      OBVIOUS
    <2>2. ~(2 \in Channels /\ 3 \in Channels)
      BY DEF OneSource
    <2>3. QED BY <1>1, <2>1, <2>2 DEF EncoderOf
  <1>2. codec[c] \in Codecs
    BY DEF CodecMaps
  <1>3. (\E d \in Channels : EncoderOf(d) = EncoderOf(c) /\ codec[d] = "h265") <=> codec[c] = "h265"
    BY <1>1
  <1>4. QED BY <1>2, <1>3 DEF Asked, Codecs

\* What is labelled stays so if the bridges that push the channel are the same and
\* have the same label.
LEMMA LabelKept ==
  ASSUME NEW c,
         \A i \in DOMAIN bridge' :
            \/ bridge'[i].state = "dead"
            \/ bridge'[i].target[c] = None
            \/ /\ i \in DOMAIN bridge /\ bridge[i].state # "dead"
               /\ bridge'[i].target[c] = bridge[i].target[c]
               /\ bridge'[i].codec[c] = bridge[i].codec[c],
         NEW x, Labelled(bridge, c, x)
  PROVE  Labelled(bridge', c, x)
  BY DEF Labelled

LEMMA LabelsKept ==
  ASSUME DOMAIN bridge' = DOMAIN bridge,
         \A i \in DOMAIN bridge : /\ bridge'[i].state = bridge[i].state
                                 /\ bridge'[i].target = bridge[i].target
                                 /\ bridge'[i].codec = bridge[i].codec,
         NEW c, NEW x, Labelled(bridge, c, x)
  PROVE  Labelled(bridge', c, x)
  BY DEF Labelled

LEMMA PossibleTyped ==
  ASSUME TypeInv
  PROVE  /\ \A x \in Codecs : Possible(x) \in Codecs
         /\ encoder.h265 => \A x : Possible(x) = x
         /\ ~encoder.h265 => \A x : Possible(x) = "h264"
  BY DEF Possible, Codecs, TypeInv

FeedRest == NoH265 /\ KnownMade /\ BetweenMessages /\ WithinMessage /\ StoredThenTold

LEMMA FeedDeliver ==
  ASSUME OneSource, FeedInv,
         NEW kind \in Kinds, NEW of \in SUBSET Channels, NEW w \in Wishes, Deliver(kind, of, w)
  PROVE  FeedRest'
  <1>1. TypeInv /\ NoH265 /\ KnownMade /\ BetweenMessages
    BY DEF FeedInv
  <1>2. UNCHANGED <<bridge, client, encoder, disk>> /\ client.up /\ handler.pc = "idle"
    BY DEF Deliver
  <1> DEFINE has == Carries(kind)
  <1>3. /\ handler'.pc = (IF "audio" \in has THEN "audio" ELSE "next")
        /\ handler'.todo = of /\ handler'.of = of /\ handler'.has = has
        /\ handler'.codec = [c \in Channels |-> Possible(disk[c])]
        /\ has = {"audio"} <=> of = {}
    BY DEF Deliver
  <1>4. has = {"dst", "type", "audio"} \/ has = {"dst"} \/ has = {"audio"}
    <2>1. kind \in {"full", "plain", "audio"}
      BY DEF OneSource
    <2>2. QED BY <2>1 DEF Carries
  <1>5. (of # {} => "dst" \in has) /\ (of = {} => handler'.pc = "audio")
    BY <1>3, <1>4
  <1>6. NoH265'
    <2>1. ~encoder.h265 => handler'.codec = AllH264
      BY <1>1, <1>3, PossibleTyped DEF AllH264
    <2>2. QED BY <1>1, <1>2, <2>1 DEF NoH265
  <1>7. KnownMade'
    BY <1>1, <1>2 DEF KnownMade
  <1>8. \A c \in client.heard : Possible(disk[c]) = CodecOf(c) /\ Labelled(bridge, c, CodecOf(c))
    BY <1>1, <1>2 DEF BetweenMessages
  <1>9. BetweenMessages'
    <2>1. handler'.pc # "idle"
      BY <1>3
    <2>2. \A c \in client.heard : Possible(disk[c])' = CodecOf(c)'
      BY <1>2, <1>8 DEF Possible, CodecOf
    <2>3. QED BY <1>2, <2>1, <2>2 DEF BetweenMessages, Possible
  <1>10. WithinMessage'
    <2>1. \A c \in client.heard : c \in Channels
      BY <1>1 DEF TypeInv, Clients
    <2>2. \A c \in client.heard : Labelled(bridge', c, CodecOf(c)') /\ handler'.codec[c] = CodecOf(c)'
      BY <1>2, <1>3, <1>8, <2>1 DEF CodecOf
    <2>3. QED BY <1>2, <1>3, <1>5, <2>2 DEF WithinMessage
  <1>11. StoredThenTold'
    BY <1>3 DEF StoredThenTold
  <1>12. QED BY <1>6, <1>7, <1>9, <1>10, <1>11 DEF FeedRest

\* A step of the handler within a message that leaves the other channels alone.
LEMMA FeedWithin ==
  ASSUME FeedInv, client.up, handler.pc # "idle",
         UNCHANGED encoder, client'.up, client'.heard = client.heard, client'.known = client.known,
         handler'.pc \notin {"idle", "audio"},
         handler'.of = handler.of, handler'.has = handler.has, handler.of # {},
         \A c \in handler.of \ handler'.todo : Labelled(bridge', c, handler'.codec[c]),
         \A c \in client.heard \ handler.of :
            /\ handler'.codec[c] = handler.codec[c]
            /\ Labelled(bridge, c, CodecOf(c)) => Labelled(bridge', c, CodecOf(c))
  PROVE  KnownMade' /\ BetweenMessages' /\ WithinMessage'
  <1>1. KnownMade /\ WithinMessage
    BY DEF FeedInv
  <1>2. KnownMade'
    BY <1>1 DEF KnownMade
  <1>3. BetweenMessages'
    BY DEF BetweenMessages
  <1>4. \A c : CodecOf(c)' = CodecOf(c)
    BY DEF CodecOf
  <1>5. \A c \in client.heard \ handler.of :
          Labelled(bridge', c, CodecOf(c)) /\ handler'.codec[c] = CodecOf(c)
    BY <1>1 DEF WithinMessage
  <1>6. WithinMessage'
    BY <1>1, <1>4, <1>5 DEF WithinMessage
  <1>7. QED BY <1>2, <1>3, <1>6

\* Within a message about channels, the ones it has dealt with are labelled.
LEMMA WithinFacts ==
  ASSUME FeedInv, client.up, handler.pc \notin {"idle", "audio"}
  PROVE  /\ handler.of # {} /\ "dst" \in handler.has
         /\ \A c \in handler.of \ handler.todo : Labelled(bridge, c, handler.codec[c])
         /\ \A c \in client.heard \ handler.of :
              Labelled(bridge, c, CodecOf(c)) /\ handler.codec[c] = CodecOf(c)
  BY DEF FeedInv, WithinMessage

LEMMA FeedSetMic ==
  ASSUME FeedInv, SetMicLevel
  PROVE  FeedRest'
  <1>1. TypeInv /\ NoH265 /\ KnownMade /\ BetweenMessages /\ WithinMessage
    BY DEF FeedInv
  <1>2. client \in Clients /\ handler \in Handlers
    BY <1>1 DEF TypeInv
  <1>3. UNCHANGED <<encoder, disk>> /\ client.up /\ handler.pc = "audio"
    BY DEF SetMicLevel, HandlerOnly, Handling
  <1>4. client'.up = client.up /\ client'.heard = client.heard /\ client'.known = client.known
    BY <1>2 DEF SetMicLevel, Clients
  <1>5. /\ DOMAIN bridge' = DOMAIN bridge
        /\ \A i \in DOMAIN bridge : /\ bridge'[i].state = bridge[i].state
                                    /\ bridge'[i].target = bridge[i].target
                                    /\ bridge'[i].codec = bridge[i].codec
    BY <1>1, <1>2, WroteMute DEF SetMicLevel, Handlers
  <1>6. \A c, x : Labelled(bridge, c, x) => Labelled(bridge', c, x)
    BY <1>5, LabelsKept
  <1>7. \A c : CodecOf(c)' = CodecOf(c) /\ Possible(disk[c])' = Possible(disk[c])
    BY <1>3 DEF CodecOf, Possible
  <1>8. KnownMade'
    BY <1>1, <1>3, <1>4 DEF KnownMade
  <1>9. CASE handler.of = {}
    <2>1. handler' = Idle
      BY <1>9 DEF SetMicLevel
    <2>2. handler'.pc = "idle" /\ handler'.codec = AllH264
      BY <2>1, IdleTyped DEF Idle
    <2>3. NoH265'
      BY <1>1, <1>3, <1>5, <2>2 DEF NoH265
    <2>4. \A c \in client.heard : Labelled(bridge', c, CodecOf(c)) /\ Possible(disk[c]) = CodecOf(c)
      BY <1>1, <1>3, <1>6, <1>9 DEF WithinMessage, BetweenMessages
    <2>5. BetweenMessages'
      BY <1>3, <1>4, <1>7, <2>4 DEF BetweenMessages
    <2>6. WithinMessage' /\ StoredThenTold'
      BY <2>2 DEF WithinMessage, StoredThenTold
    <2>7. QED BY <1>8, <2>3, <2>5, <2>6 DEF FeedRest
  <1>10. CASE handler.of # {}
    <2>1. Go("next")
      BY <1>10 DEF SetMicLevel
    <2>2. /\ handler'.pc = "next" /\ handler'.of = handler.of /\ handler'.has = handler.has
          /\ handler'.todo = handler.todo /\ handler'.codec = handler.codec
      BY <1>2, <2>1 DEF Go, Handlers
    <2>3. NoH265'
      BY <1>1, <1>3, <1>5, <2>2 DEF NoH265
    <2>4. \A c \in handler.of \ handler'.todo : Labelled(bridge', c, handler'.codec[c])
      BY <1>1, <1>3, <1>6, <2>2 DEF WithinMessage
    <2>5. BetweenMessages' /\ WithinMessage'
      BY <1>3, <1>4, <1>6, <1>10, <2>2, <2>4, FeedWithin
    <2>6. StoredThenTold'
      BY <2>2 DEF StoredThenTold
    <2>7. QED BY <1>8, <2>3, <2>5, <2>6 DEF FeedRest
  <1>11. QED BY <1>9, <1>10

LEMMA DoneFields ==
  ASSUME TypeInv, handler.todo # {}, NEW x \in Codecs, handler' = [Done EXCEPT !.codec[c0] = x]
  PROVE  /\ handler'.pc = "next" /\ handler'.of = handler.of /\ handler'.has = handler.has
         /\ handler'.todo = handler.todo \ {c0}
         /\ handler'.codec = [handler.codec EXCEPT ![c0] = x]
         /\ \A d \in Channels \ {c0} : handler'.codec[d] = handler.codec[d]
  <1>1. handler \in Handlers /\ c0 \in Channels /\ handler.codec \in [Channels -> Codecs]
    BY InTodo DEF TypeInv, Handlers, CodecMaps
  <1>2. /\ Done.pc = "next" /\ Done.of = handler.of /\ Done.has = handler.has
        /\ Done.todo = handler.todo \ {c0} /\ Done.codec = handler.codec /\ Done \in Handlers
    BY <1>1, DoneTyped DEF Done, Handlers
  <1>3. /\ handler'.pc = "next" /\ handler'.of = handler.of /\ handler'.has = handler.has
        /\ handler'.todo = handler.todo \ {c0}
        /\ handler'.codec = [handler.codec EXCEPT ![c0] = x]
    BY <1>2 DEF Handlers
  <1>4. QED BY <1>1, <1>3

LEMMA NotedWithoutH265 ==
  ASSUME TypeInv, NoH265, ~encoder.h265, handler.todo # {}
  PROVE  /\ Noted = "h264"
         /\ [handler.codec EXCEPT ![c0] = Noted] = AllH264
  <1>1. c0 \in Channels /\ handler.codec = AllH264
    BY InTodo DEF NoH265
  <1>2. Noted = "h264"
    BY <1>1, PossibleTyped DEF Noted, AllH264
  <1>3. QED BY <1>1, <1>2 DEF AllH264

LEMMA FeedDisconnect ==
  ASSUME FeedInv, NextDisconnect
  PROVE  FeedRest'
  <1>1. TypeInv /\ OneBridge /\ NoH265
    BY DEF FeedInv
  <1>2. client \in Clients /\ handler \in Handlers /\ handler.todo \subseteq handler.of
    BY <1>1 DEF TypeInv
  <1>3. UNCHANGED <<encoder, disk>> /\ client.up /\ handler.pc = "next" /\ handler.todo # {}
    BY DEF NextDisconnect, HandlerOnly, Handling
  <1>4. client'.up = client.up /\ client'.heard = client.heard /\ client'.known = client.known
    BY <1>2 DEF NextDisconnect, Clients
  <1>5. c0 \in handler.todo /\ c0 \in Channels /\ Noted \in Codecs
    BY <1>1, <1>3, InTodo, NotedTyped
  <1>6. /\ handler'.pc = "next" /\ handler'.of = handler.of /\ handler'.has = handler.has
        /\ handler'.todo = handler.todo \ {c0}
        /\ handler'.codec = [handler.codec EXCEPT ![c0] = Noted]
        /\ \A d \in Channels \ {c0} : handler'.codec[d] = handler.codec[d]
    <2>1. handler' = [Done EXCEPT !.codec[c0] = Noted]
      BY DEF NextDisconnect
    <2>2. QED BY <1>1, <1>3, <1>5, <2>1, DoneFields
  <1>7. /\ DOMAIN bridge' = DOMAIN bridge
        /\ \A i \in DOMAIN bridge :
            /\ bridge'[i].state = bridge[i].state
            /\ bridge'[i].codec = bridge[i].codec
            /\ i # Reach => bridge'[i] = bridge[i]
            /\ i = Reach => bridge'[i].target = [bridge[i].target EXCEPT ![c0] = None]
    <2>1. Written([bridge[Reach] EXCEPT !.target[c0] = None]) /\ None \in Targets \cup {None}
      BY DEF NextDisconnect
    <2>2. QED BY <1>1, <1>5, <2>1, WroteTarget, Zenon
  <1>8. \A i \in DOMAIN bridge : bridge[i].target \in TargetMaps
    BY <1>1, InBridge DEF Bridges
  <1>9. ASSUME NEW d \in Channels \ {c0}, NEW x, Labelled(bridge, d, x) PROVE Labelled(bridge', d, x)
    <2>1. ASSUME NEW i \in DOMAIN bridge PROVE bridge'[i].target[d] = bridge[i].target[d]
      <3>1. bridge[i].target \in TargetMaps /\ d # c0 /\ d \in Channels
        BY <1>8
      <3>2. [bridge[i].target EXCEPT ![c0] = None][d] = bridge[i].target[d]
        BY <3>1 DEF TargetMaps
      <3>3. QED BY <1>7, <3>2
    <2>2. QED BY <1>7, <1>9, <2>1 DEF Labelled
  <1>10. ASSUME NEW x PROVE Labelled(bridge', c0, x)
    <2>1. ASSUME NEW i \in DOMAIN bridge, bridge[i].state # "dead" PROVE bridge'[i].target[c0] = None
      <3>1. CASE Reach = 0
        <4>1. bridge[i].target = NoTarget /\ i # 0
          BY <1>1, <2>1, <3>1, ReachIsUp, InBridge
        <4>2. bridge'[i] = bridge[i]
          BY <1>7, <3>1, <4>1
        <4>3. bridge'[i].target = NoTarget
          BY <4>1, <4>2
        <4>4. QED BY <1>5, <4>3 DEF NoTarget
      <3>2. CASE Reach # 0
        <4>1. i = Reach /\ bridge[i].target \in TargetMaps
          BY <1>1, <1>8, <2>1, <3>2, ReachIsUp
        <4>2. [bridge[i].target EXCEPT ![c0] = None][c0] = None
          BY <1>5, <4>1 DEF TargetMaps
        <4>3. QED BY <1>7, <4>1, <4>2
      <3>3. QED BY <3>1, <3>2
    <2>2. QED BY <1>7, <2>1 DEF Labelled
  <1>11. ASSUME NEW c \in handler.of \ handler'.todo PROVE Labelled(bridge', c, handler'.codec[c])
    <2>1. CASE c = c0
      BY <1>10, <2>1
    <2>2. CASE c # c0
      <3>1. c \in Channels \ {c0} /\ c \in handler.of \ handler.todo
        BY <1>2, <1>6, <2>2 DEF Handlers
      <3>2. Labelled(bridge, c, handler.codec[c])
        BY <1>3, <3>1, WithinFacts
      <3>3. QED BY <1>6, <1>9, <3>1, <3>2
    <2>3. QED BY <2>1, <2>2
  <1>12. ASSUME NEW c \in client.heard \ handler.of
         PROVE  /\ handler'.codec[c] = handler.codec[c]
                /\ Labelled(bridge, c, CodecOf(c)) => Labelled(bridge', c, CodecOf(c))
    <2>1. c \in Channels \ {c0}
      BY <1>2, <1>5 DEF Clients
    <2>2. QED BY <1>6, <1>9, <2>1
  <1>13. handler.of # {}
    BY <1>3, WithinFacts
  <1>14. KnownMade' /\ BetweenMessages' /\ WithinMessage'
    BY <1>3, <1>4, <1>6, <1>11, <1>12, <1>13, FeedWithin
  <1>15. NoH265'
    BY <1>1, <1>3, <1>6, <1>7, NotedWithoutH265 DEF NoH265
  <1>16. StoredThenTold'
    BY <1>6 DEF StoredThenTold
  <1>17. QED BY <1>14, <1>15, <1>16 DEF FeedRest

LEMMA FeedTarget ==
  ASSUME FeedInv, NextTarget
  PROVE  FeedRest'
  <1>1. TypeInv /\ NoH265
    BY DEF FeedInv
  <1>2. client \in Clients /\ handler \in Handlers /\ handler.todo \subseteq handler.of
    BY <1>1 DEF TypeInv
  <1>3. UNCHANGED <<encoder, disk, bridge>> /\ client.up /\ handler.pc = "next" /\ handler.todo # {}
    BY DEF NextTarget, HandlerOnly, Handling
  <1>4. client'.up = client.up /\ client'.heard = client.heard /\ client'.known = client.known
    BY <1>2 DEF NextTarget, Clients
  <1>5. c0 \in handler.todo /\ c0 \in Channels /\ Noted \in Codecs
    BY <1>1, <1>3, InTodo, NotedTyped
  <1>6. /\ handler'.pc \in {"codec", "connect"} /\ handler'.of = handler.of /\ handler'.has = handler.has
        /\ handler'.todo = handler.todo
        /\ handler'.codec = [handler.codec EXCEPT ![c0] = Noted]
    BY <1>2 DEF NextTarget, Handlers
  <1>7. \A d \in Channels \ {c0} : handler'.codec[d] = handler.codec[d]
    BY <1>2, <1>6 DEF Handlers, CodecMaps
  <1>8. ASSUME NEW c \in handler.of \ handler'.todo PROVE Labelled(bridge', c, handler'.codec[c])
    <2>1. c \in Channels \ {c0} /\ c \in handler.of \ handler.todo
      BY <1>2, <1>5, <1>6 DEF Handlers
    <2>2. Labelled(bridge, c, handler.codec[c])
      BY <1>3, <2>1, WithinFacts
    <2>3. QED BY <1>3, <1>7, <2>1, <2>2
  <1>9. ASSUME NEW c \in client.heard \ handler.of
        PROVE  /\ handler'.codec[c] = handler.codec[c]
               /\ Labelled(bridge, c, CodecOf(c)) => Labelled(bridge', c, CodecOf(c))
    <2>1. c \in Channels \ {c0}
      BY <1>2, <1>5 DEF Clients
    <2>2. QED BY <1>3, <1>7, <2>1
  <1>10. handler.of # {}
    BY <1>3, WithinFacts
  <1>11. KnownMade' /\ BetweenMessages' /\ WithinMessage'
    BY <1>3, <1>4, <1>6, <1>8, <1>9, <1>10, FeedWithin
  <1>12. NoH265'
    BY <1>1, <1>3, <1>6, NotedWithoutH265 DEF NoH265
  <1>13. StoredThenTold'
    BY <1>6 DEF StoredThenTold
  <1>14. QED BY <1>11, <1>12, <1>13 DEF FeedRest

\* The steps that leave the handler its message.
LEMMA GoFields ==
  ASSUME TypeInv, NEW pc, Go(pc)
  PROVE  /\ handler'.pc = pc /\ handler'.of = handler.of /\ handler'.has = handler.has
         /\ handler'.todo = handler.todo /\ handler'.codec = handler.codec
  BY DEF TypeInv, Go, Handlers

\* CONNECT and MUTE: the channel is still to be labelled.
LEMMA FeedConnect ==
  ASSUME FeedInv, StartVideoStream \/ ReassertMute
  PROVE  FeedRest'
  <1>1. TypeInv /\ NoH265
    BY DEF FeedInv
  <1>2. client \in Clients /\ handler \in Handlers /\ handler.todo \subseteq handler.of
    BY <1>1 DEF TypeInv
  <1>3. /\ UNCHANGED <<encoder, disk>> /\ client.up /\ handler.pc \in {"connect", "mute"}
        /\ handler.todo # {}
    BY <1>1 DEF StartVideoStream, ReassertMute, HandlerOnly, Handling, TypeInv
  <1>4. client'.up = client.up /\ client'.heard = client.heard /\ client'.known = client.known
    BY <1>2 DEF StartVideoStream, ReassertMute, Clients
  <1>5. c0 \in handler.todo /\ c0 \in Channels /\ handler.dst[c0] \in Targets \cup {None}
    BY <1>1, <1>2, <1>3, InTodo DEF Handlers, TargetMaps
  <1>6. /\ handler'.pc \in {"codec", "mute"} /\ handler'.of = handler.of /\ handler'.has = handler.has
        /\ handler'.todo = handler.todo /\ handler'.codec = handler.codec
    <2>1. Go("codec") \/ Go("mute")
      BY DEF StartVideoStream, ReassertMute
    <2>2. QED BY <1>1, <2>1, GoFields
  <1>7. \A i \in DOMAIN bridge : bridge[i].target \in TargetMaps
    BY <1>1, InBridge DEF Bridges
  <1>8. /\ DOMAIN bridge' = DOMAIN bridge
        /\ \A i \in DOMAIN bridge :
            /\ bridge'[i].state = bridge[i].state
            /\ bridge'[i].codec = bridge[i].codec
            /\ \A d \in Channels \ {c0} : bridge'[i].target[d] = bridge[i].target[d]
    <2>1. CASE UNCHANGED bridge
      BY <2>1
    <2>2. CASE Written([bridge[Reach] EXCEPT !.mute = client.mic])
      <3>1. client.mic \in BOOLEAN
        BY <1>2 DEF Clients
      <3>2. QED BY <1>1, <2>2, <3>1, WroteMute
    <2>3. CASE Written([bridge[Reach] EXCEPT !.target[c0] = handler.dst[c0]])
      <3>1. /\ DOMAIN bridge' = DOMAIN bridge
            /\ \A i \in DOMAIN bridge :
                /\ bridge'[i].state = bridge[i].state
                /\ bridge'[i].codec = bridge[i].codec
                /\ i # Reach => bridge'[i] = bridge[i]
                /\ i = Reach => bridge'[i].target = [bridge[i].target EXCEPT ![c0] = handler.dst[c0]]
        BY <1>1, <1>5, <2>3, WroteTarget, ZenonT(30)
      <3>2. ASSUME NEW i \in DOMAIN bridge, NEW d \in Channels \ {c0}
            PROVE  bridge'[i].target[d] = bridge[i].target[d]
        <4>1. bridge[i].target \in TargetMaps /\ d # c0 /\ d \in Channels
          BY <1>7
        <4>2. [bridge[i].target EXCEPT ![c0] = handler.dst[c0]][d] = bridge[i].target[d]
          BY <4>1 DEF TargetMaps
        <4>3. QED BY <3>1, <4>2
      <3>3. QED BY <3>1, <3>2
    <2>4. QED BY <2>1, <2>2, <2>3 DEF StartVideoStream, ReassertMute
  <1>9. ASSUME NEW d \in Channels \ {c0}, NEW x, Labelled(bridge, d, x) PROVE Labelled(bridge', d, x)
    BY <1>8, <1>9 DEF Labelled
  <1>10. ASSUME NEW c \in handler.of \ handler'.todo PROVE Labelled(bridge', c, handler'.codec[c])
    <2>1. c \in Channels \ {c0} /\ c \in handler.of \ handler.todo
      BY <1>2, <1>5, <1>6 DEF Handlers
    <2>2. Labelled(bridge, c, handler.codec[c])
      BY <1>3, <2>1, WithinFacts
    <2>3. QED BY <1>6, <1>9, <2>1, <2>2
  <1>11. ASSUME NEW c \in client.heard \ handler.of
         PROVE  /\ handler'.codec[c] = handler.codec[c]
                /\ Labelled(bridge, c, CodecOf(c)) => Labelled(bridge', c, CodecOf(c))
    <2>1. c \in Channels \ {c0}
      BY <1>2, <1>5 DEF Clients
    <2>2. QED BY <1>6, <1>9, <2>1
  <1>12. handler.of # {}
    BY <1>3, WithinFacts
  <1>13. KnownMade' /\ BetweenMessages' /\ WithinMessage'
    BY <1>3, <1>4, <1>6, <1>10, <1>11, <1>12, FeedWithin
  <1>14. NoH265'
    BY <1>1, <1>3, <1>6, <1>8 DEF NoH265
  <1>15. StoredThenTold'
    BY <1>6 DEF StoredThenTold
  <1>16. QED BY <1>13, <1>14, <1>15 DEF FeedRest

LEMMA FeedCodec ==
  ASSUME FeedInv, SendChannelCodec
  PROVE  FeedRest'
  <1>1. TypeInv /\ OneBridge /\ NoH265
    BY DEF FeedInv
  <1>2. client \in Clients /\ handler \in Handlers /\ handler.todo \subseteq handler.of
    BY <1>1 DEF TypeInv
  <1>3. UNCHANGED <<encoder, disk>> /\ client.up /\ handler.pc = "codec" /\ handler.todo # {}
    BY <1>1 DEF SendChannelCodec, HandlerOnly, Handling, TypeInv
  <1>4. client'.up = client.up /\ client'.heard = client.heard /\ client'.known = client.known
    BY <1>2 DEF SendChannelCodec, Clients
  <1>5. c0 \in handler.todo /\ c0 \in Channels /\ handler.codec[c0] \in Codecs
    BY <1>1, <1>2, <1>3, InTodo DEF Handlers, CodecMaps
  <1>6. /\ handler'.pc = "next" /\ handler'.of = handler.of /\ handler'.has = handler.has
        /\ handler'.todo = handler.todo \ {c0} /\ handler'.codec = handler.codec
    BY <1>2 DEF SendChannelCodec, Done, Handlers
  <1>7. /\ DOMAIN bridge' = DOMAIN bridge
        /\ \A i \in DOMAIN bridge :
            /\ bridge'[i].state = bridge[i].state
            /\ bridge'[i].target = bridge[i].target
            /\ i # Reach => bridge'[i] = bridge[i]
            /\ i = Reach => bridge'[i].codec = [bridge[i].codec EXCEPT ![c0] = handler.codec[c0]]
    <2>1. Written([bridge[Reach] EXCEPT !.codec[c0] = handler.codec[c0]])
      BY DEF SendChannelCodec
    <2>2. QED BY <1>1, <1>5, <2>1, WroteCodec, ZenonT(30)
  <1>8. \A i \in DOMAIN bridge : bridge[i].codec \in CodecMaps
    BY <1>1, InBridge DEF Bridges
  <1>9. ASSUME NEW d \in Channels \ {c0}, NEW x, Labelled(bridge, d, x) PROVE Labelled(bridge', d, x)
    <2>1. ASSUME NEW i \in DOMAIN bridge PROVE bridge'[i].codec[d] = bridge[i].codec[d]
      <3>1. bridge[i].codec \in CodecMaps /\ d # c0 /\ d \in Channels
        BY <1>8
      <3>2. [bridge[i].codec EXCEPT ![c0] = handler.codec[c0]][d] = bridge[i].codec[d]
        BY <3>1 DEF CodecMaps
      <3>3. QED BY <1>7, <3>2
    <2>2. QED BY <1>7, <1>9, <2>1 DEF Labelled
  <1>10. Labelled(bridge', c0, handler.codec[c0])
    <2>1. ASSUME NEW i \in DOMAIN bridge, bridge[i].state # "dead", bridge[i].target[c0] # None
          PROVE  bridge'[i].codec[c0] = handler.codec[c0]
      <3>1. Reach # 0
        BY <1>1, <1>5, <2>1, ReachIsUp DEF NoTarget
      <3>2. i = Reach /\ bridge[i].codec \in CodecMaps
        BY <1>1, <1>8, <2>1, <3>1, ReachIsUp
      <3>3. [bridge[i].codec EXCEPT ![c0] = handler.codec[c0]][c0] = handler.codec[c0]
        BY <1>5, <3>2 DEF CodecMaps
      <3>4. QED BY <1>7, <3>2, <3>3
    <2>2. QED BY <1>7, <2>1 DEF Labelled
  <1>11. ASSUME NEW c \in handler.of \ handler'.todo PROVE Labelled(bridge', c, handler'.codec[c])
    <2>1. CASE c = c0
      BY <1>6, <1>10, <2>1
    <2>2. CASE c # c0
      <3>1. c \in Channels \ {c0} /\ c \in handler.of \ handler.todo
        BY <1>2, <1>6, <2>2 DEF Handlers
      <3>2. Labelled(bridge, c, handler.codec[c])
        BY <1>3, <3>1, WithinFacts
      <3>3. QED BY <1>6, <1>9, <3>1, <3>2
    <2>3. QED BY <2>1, <2>2
  <1>12. ASSUME NEW c \in client.heard \ handler.of
         PROVE  /\ handler'.codec[c] = handler.codec[c]
                /\ Labelled(bridge, c, CodecOf(c)) => Labelled(bridge', c, CodecOf(c))
    <2>1. c \in Channels \ {c0}
      BY <1>2, <1>5 DEF Clients
    <2>2. QED BY <1>6, <1>9, <2>1
  <1>13. handler.of # {}
    BY <1>3, WithinFacts
  <1>14. KnownMade' /\ BetweenMessages' /\ WithinMessage'
    BY <1>3, <1>4, <1>6, <1>11, <1>12, <1>13, FeedWithin
  <1>15. NoH265'
    <2>1. ASSUME ~encoder.h265, NEW i \in DOMAIN bridge PROVE bridge'[i].codec = AllH264
      <3>1. handler.codec = AllH264 /\ bridge[i].codec = AllH264
        BY <1>1, <2>1 DEF NoH265
      <3>2. [bridge[i].codec EXCEPT ![c0] = handler.codec[c0]] = AllH264
        BY <1>5, <3>1 DEF AllH264
      <3>3. QED BY <1>7, <3>1, <3>2
    <2>2. QED BY <1>1, <1>3, <1>6, <1>7, <2>1 DEF NoH265
  <1>16. StoredThenTold'
    BY <1>6 DEF StoredThenTold
  <1>17. QED BY <1>14, <1>15, <1>16 DEF FeedRest

LEMMA FeedStore ==
  ASSUME FeedInv, StoreStreamCodecs \/ WriteStreamCodecs
  PROVE  FeedRest'
  <1>1. TypeInv /\ NoH265 /\ StoredThenTold
    BY DEF FeedInv
  <1>2. /\ UNCHANGED <<encoder, client, bridge>> /\ client.up /\ handler.pc \in {"next", "write"}
        /\ handler.todo = {}
    BY <1>1 DEF StoreStreamCodecs, WriteStreamCodecs, Handling, StoredThenTold
  <1>3. /\ handler'.pc \in {"write", "tell"} /\ handler'.of = handler.of /\ handler'.has = handler.has
        /\ handler'.todo = handler.todo /\ handler'.codec = handler.codec
    <2>1. Go("write") \/ Go("tell")
      BY DEF StoreStreamCodecs, WriteStreamCodecs
    <2>2. QED BY <1>1, <2>1, GoFields
  <1>4. handler'.pc = "tell" => disk' = handler.codec
    <2>1. CASE StoreStreamCodecs
      <3>1. CASE handler.codec = disk
        BY <2>1, <3>1 DEF StoreStreamCodecs
      <3>2. CASE handler.codec # disk
        <4>1. Go("write")
          BY <2>1, <3>2 DEF StoreStreamCodecs
        <4>2. QED BY <1>1, <4>1, GoFields
      <3>3. QED BY <3>1, <3>2
    <2>2. CASE WriteStreamCodecs
      BY <2>2 DEF WriteStreamCodecs
    <2>3. QED BY <2>1, <2>2
  <1>5. \A c \in handler.of \ handler.todo : Labelled(bridge, c, handler.codec[c])
    BY <1>2, WithinFacts
  <1>6. handler.of # {}
    BY <1>2, WithinFacts
  <1>7. KnownMade' /\ BetweenMessages' /\ WithinMessage'
    BY <1>2, <1>3, <1>5, <1>6, FeedWithin
  <1>8. NoH265'
    BY <1>1, <1>2, <1>3 DEF NoH265
  <1>9. StoredThenTold'
    BY <1>2, <1>3, <1>4 DEF StoredThenTold
  <1>10. QED BY <1>7, <1>8, <1>9 DEF FeedRest

\* The encoders are told what the channels are labelled with.
LEMMA FeedTell ==
  ASSUME OneSource, FeedInv, TellEncoder
  PROVE  FeedRest'
  <1> DEFINE asked == [e \in Encoders |-> Asked(handler.codec, e)]
  <1>1. TypeInv /\ NoH265 /\ KnownMade /\ StoredThenTold
    BY DEF FeedInv
  <1>2. /\ client \in Clients /\ handler \in Handlers
        /\ encoder \in [h265 : BOOLEAN, codec : [Encoders -> Codecs]]
    BY <1>1 DEF TypeInv
  <1>3. /\ UNCHANGED <<bridge, disk>> /\ client.up /\ handler.pc = "tell" /\ handler' = Idle
        /\ handler.todo = {} /\ disk = handler.codec
    BY <1>1 DEF TellEncoder, Handling, StoredThenTold
  <1>4. /\ handler.of # {} /\ "dst" \in handler.has
        /\ \A c \in handler.of \ handler.todo : Labelled(bridge, c, handler.codec[c])
        /\ \A c \in client.heard \ handler.of :
              Labelled(bridge, c, CodecOf(c)) /\ handler.codec[c] = CodecOf(c)
    BY <1>3, WithinFacts
  <1>5. asked \in [Encoders -> Codecs]
    BY DEF Asked, Codecs
  <1>6. encoder'.codec = asked /\ encoder'.h265 = encoder.h265
    <2>1. encoder' = [encoder EXCEPT !.codec = [e \in Encoders |->
                        IF client.known[e] # asked[e] THEN asked[e] ELSE encoder.codec[e]]]
      BY DEF TellEncoder, OneSource
    <2>2. \A e \in Encoders : client.known[e] = asked[e] => encoder.codec[e] = asked[e]
      BY <1>1, <1>3, <1>5 DEF KnownMade
    <2>3. [e \in Encoders |-> IF client.known[e] # asked[e] THEN asked[e] ELSE encoder.codec[e]] = asked
      BY <2>2
    <2>4. QED BY <1>2, <2>1, <2>3
  <1>7. client'.up = client.up /\ client'.known = asked /\ client'.heard = client.heard \cup handler.of
    <2>1. client' = [client EXCEPT !.known = asked, !.seed = FALSE, !.heard = client.heard \cup handler.of]
      BY <1>4 DEF TellEncoder
    <2>2. QED BY <1>2, <2>1 DEF Clients
  <1>8. handler'.pc = "idle" /\ handler'.codec = AllH264
    BY <1>3, IdleTyped DEF Idle
  <1>9. \A c \in client'.heard : Labelled(bridge, c, handler.codec[c])
    <2>1. \A c \in handler.of : Labelled(bridge, c, handler.codec[c])
      BY <1>3, <1>4
    <2>2. \A c \in client.heard \ handler.of : Labelled(bridge, c, handler.codec[c])
      BY <1>4
    <2>3. QED BY <1>7, <2>1, <2>2
  <1>10. \A c \in Channels : CodecOf(c)' = handler.codec[c]
    <2>1. \A c \in Channels : EncoderOf(c) \in Encoders
      BY DEF EncoderOf, Encoders
    <2>2. \A c \in Channels : Asked(handler.codec, EncoderOf(c)) = handler.codec[c]
      BY <1>2, OwnEncoder DEF Handlers
    <2>3. \A c \in Channels : CodecOf(c)' = asked[EncoderOf(c)]
      BY <1>6 DEF CodecOf
    <2>4. QED BY <2>1, <2>2, <2>3
  <1>11. \A c \in Channels : Possible(disk[c])' = handler.codec[c]
    <2>1. encoder.h265' = encoder.h265 /\ disk' = handler.codec
      BY <1>3, <1>6
    <2>2. CASE encoder.h265
      BY <2>1, <2>2 DEF Possible
    <2>3. CASE ~encoder.h265
      <3>1. handler.codec = AllH264
        BY <1>1, <2>3 DEF NoH265
      <3>2. \A c \in Channels : handler.codec[c] = "h264"
        BY <3>1 DEF AllH264
      <3>3. QED BY <2>1, <2>3, <3>2 DEF Possible
    <2>4. QED BY <2>2, <2>3
  <1>12. \A c \in client'.heard : c \in Channels
    BY <1>2, <1>7 DEF Clients, Handlers
  <1>13. NoH265'
    BY <1>1, <1>3, <1>6, <1>8 DEF NoH265
  <1>14. KnownMade'
    BY <1>6, <1>7 DEF KnownMade
  <1>15. BetweenMessages'
    BY <1>3, <1>8, <1>9, <1>10, <1>11, <1>12 DEF BetweenMessages
  <1>16. WithinMessage' /\ StoredThenTold'
    BY <1>8 DEF WithinMessage, StoredThenTold
  <1>17. QED BY <1>13, <1>14, <1>15, <1>16 DEF FeedRest

\* A new client has heard of no channel and knows of no encoder.
LEMMA FeedNewClient ==
  ASSUME TypeInv, NoH265, UNCHANGED encoder, handler'.codec \in {AllH264, handler.codec},
         \A i \in DOMAIN bridge' :
            bridge'[i].codec = AllH264 \/ (i \in DOMAIN bridge /\ bridge'[i].codec = bridge[i].codec),
         \/ ~client'.up
         \/ client'.heard = {} /\ client'.known = [e \in Encoders |-> None],
         handler'.pc = "idle"
  PROVE  FeedRest'
  <1>1. NoH265'
    BY DEF NoH265
  <1>2. KnownMade'
    BY DEF KnownMade, Codecs
  <1>3. BetweenMessages' /\ WithinMessage' /\ StoredThenTold'
    BY DEF BetweenMessages, WithinMessage, StoredThenTold
  <1>4. QED BY <1>1, <1>2, <1>3 DEF FeedRest

\* Bridges that come and go under a client that goes on.
LEMMA FeedBridges ==
  ASSUME FeedInv, UNCHANGED <<client, handler, encoder, disk>>,
         \A i \in DOMAIN bridge' :
            \/ bridge'[i].state = "dead" /\ bridge'[i].codec = AllH264
            \/ bridge'[i].target = NoTarget /\ bridge'[i].codec = AllH264
            \/ /\ i \in DOMAIN bridge /\ bridge'[i].codec = bridge[i].codec
               /\ bridge'[i].state # "dead" => bridge[i].state # "dead"
               /\ bridge'[i].target = bridge[i].target
  PROVE  FeedRest'
  <1>1. TypeInv /\ NoH265 /\ KnownMade /\ BetweenMessages /\ WithinMessage /\ StoredThenTold
    BY DEF FeedInv
  <1>2. NoH265'
    BY <1>1 DEF NoH265
  <1>3. ASSUME NEW c \in Channels, NEW x, Labelled(bridge, c, x) PROVE Labelled(bridge', c, x)
    BY <1>3 DEF Labelled, NoTarget
  <1>4. \A c : CodecOf(c)' = CodecOf(c) /\ Possible(disk[c])' = Possible(disk[c])
    BY DEF CodecOf, Possible
  <1>5. KnownMade' /\ StoredThenTold'
    BY <1>1 DEF KnownMade, StoredThenTold
  <1>6. client.heard \subseteq Channels /\ handler.of \subseteq Channels
    BY <1>1 DEF TypeInv, Clients, Handlers
  <1>7. BetweenMessages'
    BY <1>1, <1>3, <1>4, <1>6 DEF BetweenMessages
  <1>8. WithinMessage'
    BY <1>1, <1>3, <1>4, <1>6 DEF WithinMessage
  <1>9. QED BY <1>2, <1>5, <1>7, <1>8 DEF FeedRest

LEMMA FeedStep ==
  ASSUME OneSource, FeedInv, [Next]_vars
  PROVE  FeedInv'
  <1>1. TypeInv /\ OneBridge /\ Attended /\ NoH265 /\ ~boot
    BY DEF FeedInv, OneBridge
  <1>2. TypeInv' /\ OneBridge' /\ Attended'
    BY <1>1, TypeStep, OneBridgeStep, AttendedStep
  <1>3. SUFFICES FeedRest'
    BY <1>2 DEF FeedInv, FeedRest
  <1>4. Idle.pc = "idle" /\ Idle.codec = AllH264 /\ ~NoClient.up
        /\ NewClient.heard = {} /\ NewClient.known = [e \in Encoders |-> None]
    BY IdleTyped DEF Idle
  <1>5. ASSUME NEW kind \in Kinds, NEW of \in SUBSET Channels, NEW w \in Wishes, Deliver(kind, of, w)
        PROVE  FeedRest'
    BY <1>5, FeedDeliver
  <1>6. CASE HandlerStep
    <2>1. ~NextTypeOnly
      <3>1. ASSUME NextTypeOnly PROVE FALSE
        <4>1. client.up /\ handler.pc = "next" /\ "dst" \notin handler.has
          BY <3>1 DEF NextTypeOnly, Handling
        <4>2. QED BY <4>1, WithinFacts
      <3>2. QED BY <3>1
    <2>2. QED
      BY <1>6, <2>1, FeedSetMic, FeedDisconnect, FeedTarget, FeedConnect, FeedCodec, FeedStore, FeedTell
         DEF HandlerStep
  <1>7. CASE Reconnect
    <2>1. client' = Fresh(client.mic, client.handle) /\ client.mic \in BOOLEAN /\ client.handle \in Nat
      BY <1>1, <1>7 DEF Reconnect, TypeInv, Clients
    <2>2. client'.heard = {} /\ client'.known = [e \in Encoders |-> None]
      BY <2>1, FreshTyped
    <2>3. UNCHANGED <<encoder, bridge, handler>> /\ handler.pc = "idle"
      BY <1>7 DEF Reconnect
    <2>4. QED BY <1>1, <2>2, <2>3, FeedNewClient
  <1>8. CASE ClientDies
    <2>1. client' = NoClient /\ handler' = Idle /\ UNCHANGED <<encoder, bridge>>
      BY <1>8 DEF ClientDies, Kill
    <2>2. QED BY <1>1, <1>4, <2>1, FeedNewClient
  <1>9. ASSUME NEW i \in DOMAIN bridge, BridgeReady(i) PROVE FeedRest'
    <2>1. UNCHANGED <<client, handler, encoder, disk>> /\ bridge[i].state # "dead"
      BY <1>9 DEF BridgeReady
    <2>2. /\ DOMAIN bridge' = DOMAIN bridge
          /\ bridge'[i].target = bridge[i].target /\ bridge'[i].codec = bridge[i].codec
          /\ \A j \in DOMAIN bridge \ {i} : bridge'[j] = bridge[j]
      BY <1>1, <1>9, ReadyShape
    <2>3. ASSUME NEW j \in DOMAIN bridge'
          PROVE  /\ j \in DOMAIN bridge /\ bridge'[j].codec = bridge[j].codec
                 /\ bridge'[j].state # "dead" => bridge[j].state # "dead"
                 /\ bridge'[j].target = bridge[j].target
      BY <2>1, <2>2
    <2>4. QED BY <2>1, <2>3, FeedBridges
  <1>10. ASSUME NEW i \in DOMAIN bridge, BridgeDies(i) PROVE FeedRest'
    <2>1. UNCHANGED <<client, handler, encoder, disk>>
      BY <1>10 DEF BridgeDies
    <2>2. /\ DOMAIN bridge' = DOMAIN bridge
          /\ bridge'[i].state = "dead" /\ bridge'[i].codec = AllH264
          /\ \A j \in DOMAIN bridge \ {i} : bridge'[j] = bridge[j]
      BY <1>1, <1>10, DiesShape, StartedTyped
    <2>3. QED BY <2>1, <2>2, FeedBridges
  <1>11. ASSUME UNCHANGED <<client, handler, encoder, disk>>, bridge' = Append(bridge, Started)
         PROVE  FeedRest'
    <2>1. /\ DOMAIN bridge' = DOMAIN bridge \cup {Len(bridge) + 1}
          /\ \A i \in DOMAIN bridge : bridge'[i] = bridge[i]
          /\ bridge'[Len(bridge) + 1].target = NoTarget /\ bridge'[Len(bridge) + 1].codec = AllH264
      BY <1>1, <1>11, Appended, StartedTyped
    <2>2. QED BY <1>11, <2>1, FeedBridges
  <1>12. CASE EnsureBridge
    <2>1. UNCHANGED <<client, handler, encoder, disk>>
      BY <1>12 DEF EnsureBridge, WdOnly
    <2>2. CASE Running = {}
      BY <1>11, <1>12, <2>1, <2>2 DEF EnsureBridge
    <2>3. CASE Running # {}
      <3>1. /\ DOMAIN bridge' = DOMAIN bridge
            /\ \A i \in DOMAIN bridge :
                bridge'[i] = bridge[i] \/ (bridge'[i].state = "dead" /\ bridge'[i].codec = AllH264)
        BY <1>1, <1>12, <2>3, EnsureShape, StartedTyped
      <3>2. QED BY <2>1, <3>1, FeedBridges
    <2>4. QED BY <2>2, <2>3
  <1>13. CASE CliStopBridge
    <2>1. UNCHANGED <<client, handler, encoder, disk>>
      BY <1>13 DEF CliStopBridge, WdOnly
    <2>2. \A i \in DOMAIN bridge' : bridge'[i].state = "dead" /\ bridge'[i].codec = AllH264
      BY <1>1, <1>13, StopShape, StartedTyped
    <2>3. QED BY <2>1, <2>2, FeedBridges
  <1>14. CASE CliStartBridge
    BY <1>11, <1>14 DEF CliStartBridge, WdOnly
  <1>15. CASE StopClient
    <2>1. client' = NoClient /\ handler' = Idle /\ UNCHANGED <<encoder, bridge>>
      BY <1>15 DEF StopClient, Kill, WdOnly
    <2>2. QED BY <1>1, <1>4, <2>1, FeedNewClient
  <1>16. ASSUME UNCHANGED <<client, handler, encoder, disk, bridge>> PROVE FeedRest'
    BY <1>16, FeedBridges
  <1>17. CASE EnsureClient \/ StartClient
    <2>1. client' = AnyClient /\ UNCHANGED <<handler, encoder, disk, bridge>>
      BY <1>17 DEF EnsureClient, StartClient, WdOnly
    <2>2. CASE client.up
      BY <1>16, <2>1, <2>2 DEF AnyClient
    <2>3. CASE ~client.up
      <3>1. client' = NewClient /\ handler.pc = "idle"
        BY <1>1, <2>1, <2>3 DEF AnyClient, Attended
      <3>2. QED BY <1>1, <1>4, <2>1, <3>1, FeedNewClient
    <2>4. QED BY <2>2, <2>3
  <1>18. CASE WdWakes \/ WdStarts \/ CliRestart \/ WdDies
    BY <1>16, <1>18 DEF WdWakes, WdStarts, CliRestart, WdDies, WdOnly
  <1>19. ~InitStarts
    BY <1>1 DEF InitStarts
  <1>20. CASE UNCHANGED vars
    BY <1>16, <1>20 DEF vars
  <1>21. QED
    BY <1>5, <1>6, <1>7, <1>8, <1>9, <1>10, <1>12, <1>13, <1>14, <1>15, <1>17, <1>18, <1>19, <1>20
       DEF Next, WdStep

LEMMA FeedInit ==
  ASSUME OneSource, Init
  PROVE  FeedInv
  <1>1. TypeInv /\ OneBridge
    BY TypeInit, OneBridgeInit DEF OneSource, OneStarter
  <1>2. bridge = <<Started>> /\ handler = Idle /\ client = NewClient
    BY DEF Init, OneSource
  <1>3. handler.pc = "idle" /\ handler.codec = AllH264 /\ client.heard = {}
        /\ client.known = [e \in Encoders |-> None]
    BY <1>2, IdleTyped DEF Idle
  <1>4. \A i \in DOMAIN bridge : bridge[i].codec = AllH264
    BY <1>2, StartedTyped
  <1>5. NoH265 /\ KnownMade
    BY <1>3, <1>4 DEF NoH265, KnownMade, Codecs
  <1>6. BetweenMessages /\ WithinMessage /\ StoredThenTold /\ Attended
    BY <1>3 DEF BetweenMessages, WithinMessage, StoredThenTold, Attended
  <1>7. QED BY <1>1, <1>5, <1>6 DEF FeedInv

\* Between two messages, a channel that the bridge pushes and the controller has set up
\* on this connection is labelled with the codec its encoder produces, and without an
\* H.265 encoder every channel is labelled H.264 at all times.  Each part of OneSource
\* is needed.
THEOREM FeedMatchesHolds ==
  OneSource => (Spec => []FeedMatches)
  <1> SUFFICES ASSUME OneSource PROVE Spec => []FeedMatches
    OBVIOUS
  <1>1. Init => FeedInv
    BY FeedInit
  <1>2. FeedInv /\ [Next]_vars => FeedInv'
    BY FeedStep
  <1>3. FeedInv => FeedMatches
    <2> SUFFICES ASSUME FeedInv, NEW i \in DOMAIN bridge
                 PROVE  /\ Settled /\ IsUp(i) =>
                              \A c \in client.heard :
                                  bridge[i].target[c] # None =>
                                    bridge[i].codec[c] = encoder.codec[EncoderOf(c)]
                        /\ ~encoder.h265 => \A c \in Channels : bridge[i].codec[c] = "h264"
      BY DEF FeedMatches
    <2>1. ASSUME Settled, IsUp(i), NEW c \in client.heard, bridge[i].target[c] # None
          PROVE  bridge[i].codec[c] = encoder.codec[EncoderOf(c)]
      <3>1. client.up /\ handler.pc = "idle" /\ bridge[i].state # "dead"
        BY <2>1 DEF Settled, IsUp
      <3>2. Labelled(bridge, c, CodecOf(c))
        BY <2>1, <3>1 DEF FeedInv, BetweenMessages
      <3>3. QED BY <2>1, <3>1, <3>2 DEF Labelled, CodecOf
    <2>2. ASSUME ~encoder.h265, NEW c \in Channels PROVE bridge[i].codec[c] = "h264"
      BY <2>2 DEF FeedInv, NoH265, AllH264
    <2>3. QED BY <2>1, <2>2
  <1>4. QED BY <1>1, <1>2, <1>3, PTL DEF Spec

----------------------------------------------------------------------------
(* The microphone. *)

\* A bridge that is not up yet has no target.
Bare == \A i \in DOMAIN bridge : bridge[i].state = "starting" => bridge[i].target = NoTarget

\* The handler is about to connect channel c, or to mute what it has connected.
Connecting(c) == handler.pc \in {"connect", "mute"} /\ c = c0

\* A bridge that has replaced the one at the other end of the handle, or the one that the
\* client got its destinations to, has no target yet.
NewPath ==
    /\ path # client.handle /\ IsUp(path)
    /\ \/ client.handle # 0
       \/ \E c \in Channels : client.active[c] # None /\ ~(handler.pc = "connect" /\ c = c0)
    => bridge[path].target = NoTarget

\* MuteKept, in the midst of a message.
AsMute ==
    IsUp(client.handle) => \A c \in Channels :
        client.active[c] # None /\ bridge[client.handle].target[c] = client.active[c] =>
            bridge[client.handle].mute = client.mic \/ Connecting(c)

\* A message is handled as the controller wants things to be, its audio settings first.
MicWished ==
    /\ handler.pc # "idle" => handler.mute = wish.mute /\ \E kind \in Kinds : handler.has = Carries(kind)
    /\ handler.pc \notin {"idle", "audio"} /\ "audio" \in handler.has => client.mic = wish.mute
    /\ handler.pc \in {"connect", "mute"} => "dst" \in handler.has

MicInv == TypeInv /\ Attended /\ Bare /\ NewPath /\ AsMute /\ MicWished

LEMMA MicInit == Init => MicInv
  <1> SUFFICES ASSUME Init PROVE MicInv
    OBVIOUS
  <1>1. TypeInv
    BY TypeInit
  <1>2. /\ path = 0 /\ handler = Idle /\ client \in {NewClient, NoClient}
        /\ \A i \in DOMAIN bridge : bridge[i] = Started
    BY DEF Init
  <1>3. handler.pc = "idle" /\ client.handle = 0
    BY <1>2, IdleTyped
  <1>4. QED
    BY <1>1, <1>2, <1>3, StartedTyped DEF MicInv, Attended, Bare, NewPath, AsMute, MicWished, IsUp

\* What the handler's commands get to is as mute as the client, if it has a destination
\* that the client remembers.
LEMMA ReachMuted ==
  ASSUME MicInv, Reach # 0, NEW c \in Channels,
         client.active[c] # None, bridge[Reach].target[c] = client.active[c]
  PROVE  bridge[Reach].mute = client.mic \/ Connecting(c)
  <1>1. CASE IsUp(client.handle)
    BY <1>1 DEF MicInv, AsMute, Reach
  <1>2. CASE ~IsUp(client.handle)
    <2>1. Reach = path /\ IsUp(path) /\ path # client.handle
      BY <1>2 DEF Reach
    <2>2. bridge[path].target # NoTarget
      BY <2>1 DEF NoTarget
    <2>3. QED BY <2>1, <2>2 DEF MicInv, NewPath, Connecting
  <1>3. QED BY <1>1, <1>2

\* A command that has been sent leaves the path's bridge alone, or is sent to it.
LEMMA SentPath ==
  ASSUME MicInv, client'.handle = Reach, path' = path, DOMAIN bridge' = DOMAIN bridge,
         \A i \in DOMAIN bridge : bridge'[i].state = bridge[i].state,
         \A i \in DOMAIN bridge : i # Reach => bridge'[i].target = bridge[i].target
  PROVE  NewPath'
  <1>1. path # 0 => path \in DOMAIN bridge
    BY InBridge DEF MicInv, TypeInv
  <1>2. IsUp(path)' => IsUp(path)
    BY <1>1 DEF IsUp
  <1>3. ASSUME IsUp(path), path # Reach
        PROVE  client.handle # 0 /\ path # client.handle
    BY <1>3 DEF Reach, IsUp
  <1>4. IsUp(path) /\ path # Reach => bridge[path].target = NoTarget
    BY <1>3 DEF MicInv, NewPath
  <1>5. IsUp(path) => path # 0
    BY DEF IsUp
  <1>6. QED BY <1>1, <1>2, <1>4, <1>5 DEF NewPath

\* What a command leaves of the bridge's mute flag.
LEMMA WroteTheMute ==
  ASSUME TypeInv, Reach # 0
  PROVE  /\ \A m \in BOOLEAN : Written([bridge[Reach] EXCEPT !.mute = m]) => bridge'[Reach].mute = m
         /\ \A c \in Channels, t \in Targets \cup {None} :
                Written([bridge[Reach] EXCEPT !.target[c] = t]) => bridge'[Reach].mute = bridge[Reach].mute
         /\ \A c \in Channels, x \in Codecs :
                Written([bridge[Reach] EXCEPT !.codec[c] = x]) => bridge'[Reach].mute = bridge[Reach].mute
  <1>1. Reach \in DOMAIN bridge /\ bridge[Reach] \in Bridges
    BY Reached, ReachBridge
  <1>2. ASSUME NEW new, Written(new)
        PROVE  bridge'[Reach] = new
    BY <1>1, <1>2 DEF Written
  <1>3. \A m \in BOOLEAN : Written([bridge[Reach] EXCEPT !.mute = m]) => bridge'[Reach].mute = m
    BY <1>1, <1>2 DEF Bridges
  <1>4. \A c \in Channels, t \in Targets \cup {None} :
            Written([bridge[Reach] EXCEPT !.target[c] = t]) => bridge'[Reach].mute = bridge[Reach].mute
    BY <1>1, <1>2 DEF Bridges
  <1>5. \A c \in Channels, x \in Codecs :
            Written([bridge[Reach] EXCEPT !.codec[c] = x]) => bridge'[Reach].mute = bridge[Reach].mute
    BY <1>1, <1>2 DEF Bridges
  <1>6. QED BY <1>3, <1>4, <1>5

\* The handler's steps that send a command.
LEMMA MicSends ==
  ASSUME MicInv,
         SetMicLevel \/ NextDisconnect \/ StartVideoStream \/ ReassertMute \/ SendChannelCodec,
         SetMicLevel => client' # client \/ bridge' # bridge
  PROVE  NewPath' /\ AsMute' /\ Bare'
  <1>1. TypeInv /\ client \in Clients /\ client.mic \in BOOLEAN
        /\ handler \in Handlers /\ handler.mute \in BOOLEAN
    BY DEF MicInv, TypeInv, Clients, Handlers
  <1>2. path' = path
    BY DEF SetMicLevel, NextDisconnect, StartVideoStream, ReassertMute, SendChannelCodec, HandlerOnly
  <1>3. client'.handle = Reach
    BY <1>1, Reached DEF SetMicLevel, NextDisconnect, StartVideoStream, ReassertMute, SendChannelCodec,
       Clients
  <1>4. Reach # 0 => Reach \in DOMAIN bridge /\ bridge[Reach] \in Bridges /\ IsUp(Reach)
    BY <1>1, Reached, InBridge DEF IsUp
  <1>5. \A i \in DOMAIN bridge : i # 0
    BY <1>1, InBridge
  <1>6. CASE SetMicLevel
    <2>1. /\ client' = [client EXCEPT !.mic = handler.mute, !.micSet = TRUE, !.handle = Reach]
          /\ Written([bridge[Reach] EXCEPT !.mute = handler.mute])
      BY <1>6 DEF SetMicLevel
    <2>2. client'.mic = handler.mute /\ client'.active = client.active
      BY <1>1, <2>1 DEF Clients
    <2>3. /\ DOMAIN bridge' = DOMAIN bridge
          /\ \A i \in DOMAIN bridge :
                bridge'[i].state = bridge[i].state /\ bridge'[i].target = bridge[i].target
          /\ Reach # 0 => bridge'[Reach].mute = handler.mute
      BY <1>1, <1>4, <2>1, WroteMute, WroteTheMute
    <2>4. NewPath'
      BY <1>2, <1>3, <2>3, SentPath
    <2>5. AsMute'
      BY <1>3, <2>2, <2>3 DEF AsMute, IsUp
    <2>6. Bare'
      BY <2>3 DEF MicInv, Bare
    <2>7. QED BY <2>4, <2>5, <2>6
  <1>7. CASE NextDisconnect
    <2>1. /\ client' = [client EXCEPT !.active[c0] = None, !.handle = Reach]
          /\ Written([bridge[Reach] EXCEPT !.target[c0] = None])
          /\ handler.pc = "next" /\ handler.todo # {}
          /\ handler' = [Done EXCEPT !.codec[c0] = Noted]
      BY <1>7 DEF NextDisconnect, Handling
    <2>2. c0 \in Channels
      BY <1>1, <2>1, InTodo
    <2>3. client'.mic = client.mic /\ client'.active = [client.active EXCEPT ![c0] = None]
      BY <1>1, <2>1 DEF Clients
    <2>4. /\ DOMAIN bridge' = DOMAIN bridge
          /\ \A i \in DOMAIN bridge : /\ bridge'[i].state = bridge[i].state
                                      /\ i # Reach => bridge'[i] = bridge[i]
                                      /\ i = Reach => bridge'[i].target =
                                            [bridge[i].target EXCEPT ![c0] = None]
          /\ Reach # 0 => bridge'[Reach].mute = bridge[Reach].mute
      BY <1>1, <1>4, <2>1, <2>2, WroteTarget, WroteTheMute
    <2>5. NewPath'
      BY <1>2, <1>3, <2>4, SentPath
    <2>6. ASSUME Reach # 0, NEW c \in Channels,
                 client'.active[c] # None, bridge'[Reach].target[c] = client'.active[c]
          PROVE  bridge'[Reach].mute = client'.mic
      <3>1. client.active \in TargetMaps /\ bridge[Reach].target \in TargetMaps
        BY <1>1, <1>4, <2>6 DEF Clients, Bridges
      <3>2. bridge'[Reach].target = [bridge[Reach].target EXCEPT ![c0] = None]
        BY <1>4, <2>4, <2>6
      <3>3. c # c0 /\ client'.active[c] = client.active[c]
        BY <2>2, <2>3, <2>6, <3>1 DEF TargetMaps
      <3>4. bridge'[Reach].target[c] = bridge[Reach].target[c]
        BY <2>2, <3>1, <3>2, <3>3 DEF TargetMaps
      <3>5. bridge[Reach].mute = client.mic
        BY <2>1, <2>6, <3>3, <3>4, ReachMuted DEF Connecting
      <3>6. QED BY <2>3, <2>4, <2>6, <3>5
    <2>7. AsMute'
      BY <1>3, <2>6 DEF AsMute, IsUp
    <2>8. ASSUME NEW i \in DOMAIN bridge', bridge'[i].state = "starting"
          PROVE  bridge'[i].target = NoTarget
      <3>1. i \in DOMAIN bridge /\ i # 0 /\ bridge[i].state = "starting"
        BY <1>5, <2>4, <2>8
      <3>2. i # Reach
        BY <1>4, <3>1 DEF IsUp
      <3>3. bridge'[i] = bridge[i]
        BY <2>4, <3>1, <3>2
      <3>4. bridge[i].target = NoTarget
        BY <3>1 DEF MicInv, Bare
      <3>5. QED BY <3>3, <3>4
    <2>9. Bare'
      BY <2>8 DEF Bare
    <2>10. QED BY <2>5, <2>7, <2>9
  <1>8. CASE StartVideoStream /\ Reach = 0
    <2>1. bridge' = bridge
      BY <1>8 DEF StartVideoStream
    <2>2. NewPath'
      BY <1>2, <1>3, <2>1, SentPath
    <2>3. AsMute'
      BY <1>3, <1>8 DEF AsMute, IsUp
    <2>4. QED BY <2>1, <2>2, <2>3 DEF MicInv, Bare
  <1>9. CASE StartVideoStream /\ Reach # 0
    <2>1. /\ client' = [client EXCEPT !.handle = Reach]
          /\ Written([bridge[Reach] EXCEPT !.target[c0] = handler.dst[c0]])
          /\ handler.pc = "connect" /\ handler.todo # {}
          /\ Go("mute")
      BY <1>1, <1>9 DEF StartVideoStream, Handling, TypeInv
    <2>2. c0 \in Channels /\ handler.dst[c0] \in Targets \cup {None}
      BY <1>1, <2>1, InTodo DEF Handlers, TargetMaps
    <2>3. client'.mic = client.mic /\ client'.active = client.active
      BY <1>1, <2>1 DEF Clients
    <2>4. /\ DOMAIN bridge' = DOMAIN bridge
          /\ \A i \in DOMAIN bridge : /\ bridge'[i].state = bridge[i].state
                                      /\ i # Reach => bridge'[i] = bridge[i]
                                      /\ i = Reach => bridge'[i].target =
                                            [bridge[i].target EXCEPT ![c0] = handler.dst[c0]]
          /\ Reach # 0 => bridge'[Reach].mute = bridge[Reach].mute
      BY <1>1, <1>4, <2>1, <2>2, WroteTarget, WroteTheMute
    <2>5. NewPath'
      BY <1>2, <1>3, <2>4, SentPath
    <2>6. handler'.pc = "mute" /\ handler'.todo = handler.todo
      BY <1>1, <2>1 DEF Go, Handlers
    <2>7. c0' = c0
      BY <2>6 DEF c0
    <2>8. ASSUME NEW c \in Channels, c # c0,
                 client'.active[c] # None, bridge'[Reach].target[c] = client'.active[c]
          PROVE  bridge'[Reach].mute = client'.mic
      <3>1. /\ bridge[Reach].target \in TargetMaps
            /\ bridge'[Reach].target = [bridge[Reach].target EXCEPT ![c0] = handler.dst[c0]]
        BY <1>4, <1>9, <2>4 DEF Bridges
      <3>2. client.active[c] # None /\ bridge[Reach].target[c] = client.active[c]
        BY <2>2, <2>3, <2>8, <3>1 DEF TargetMaps
      <3>3. bridge[Reach].mute = client.mic
        BY <1>9, <2>8, <3>2, ReachMuted DEF Connecting
      <3>4. QED BY <1>9, <2>3, <2>4, <3>3
    <2>9. AsMute'
      BY <1>3, <2>6, <2>7, <2>8 DEF AsMute, Connecting
    <2>10. ASSUME NEW i \in DOMAIN bridge', bridge'[i].state = "starting"
          PROVE  bridge'[i].target = NoTarget
      <3>1. i \in DOMAIN bridge /\ i # 0 /\ bridge[i].state = "starting"
        BY <1>5, <2>4, <2>10
      <3>2. i # Reach
        BY <1>4, <3>1 DEF IsUp
      <3>3. bridge'[i] = bridge[i]
        BY <2>4, <3>1, <3>2
      <3>4. bridge[i].target = NoTarget
        BY <3>1 DEF MicInv, Bare
      <3>5. QED BY <3>3, <3>4
    <2>11. Bare'
      BY <2>10 DEF Bare
    <2>12. QED BY <2>5, <2>9, <2>11
  <1>10. CASE ReassertMute
    <2>1. client' = [client EXCEPT !.handle = Reach] /\ Written([bridge[Reach] EXCEPT !.mute = client.mic])
      BY <1>10 DEF ReassertMute
    <2>2. client'.mic = client.mic
      BY <1>1, <2>1 DEF Clients
    <2>3. /\ DOMAIN bridge' = DOMAIN bridge
          /\ \A i \in DOMAIN bridge :
                bridge'[i].state = bridge[i].state /\ bridge'[i].target = bridge[i].target
          /\ Reach # 0 => bridge'[Reach].mute = client.mic
      BY <1>1, <1>4, <2>1, WroteMute, WroteTheMute
    <2>4. NewPath'
      BY <1>2, <1>3, <2>3, SentPath
    <2>5. AsMute'
      BY <1>3, <2>2, <2>3 DEF AsMute, IsUp
    <2>6. Bare'
      BY <2>3 DEF MicInv, Bare
    <2>7. QED BY <2>4, <2>5, <2>6
  <1>11. CASE SendChannelCodec
    <2>1. /\ client' = [client EXCEPT !.handle = Reach]
          /\ Written([bridge[Reach] EXCEPT !.codec[c0] = handler.codec[c0]])
          /\ handler.pc = "codec" /\ handler.todo # {}
      BY <1>1, <1>11 DEF SendChannelCodec, Handling, MicInv, TypeInv
    <2>2. c0 \in Channels /\ handler.codec[c0] \in Codecs
      BY <1>1, <2>1, InTodo DEF Handlers, CodecMaps
    <2>3. client'.mic = client.mic /\ client'.active = client.active
      BY <1>1, <2>1 DEF Clients
    <2>4. /\ DOMAIN bridge' = DOMAIN bridge
          /\ \A i \in DOMAIN bridge :
                bridge'[i].state = bridge[i].state /\ bridge'[i].target = bridge[i].target
          /\ Reach # 0 => bridge'[Reach].mute = bridge[Reach].mute
      BY <1>1, <1>4, <2>1, <2>2, WroteCodec, WroteTheMute
    <2>5. NewPath'
      BY <1>2, <1>3, <2>4, SentPath
    <2>6. ASSUME Reach # 0, NEW c \in Channels,
                 client'.active[c] # None, bridge'[Reach].target[c] = client'.active[c]
          PROVE  bridge'[Reach].mute = client'.mic
      <3>1. bridge[Reach].mute = client.mic
        BY <1>4, <2>1, <2>3, <2>4, <2>6, ReachMuted DEF Connecting
      <3>2. QED BY <2>3, <2>4, <2>6, <3>1
    <2>7. AsMute'
      BY <1>3, <2>6 DEF AsMute, IsUp
    <2>8. Bare'
      BY <2>4 DEF MicInv, Bare
    <2>9. QED BY <2>5, <2>7, <2>8
  <1>12. QED BY <1>6, <1>7, <1>8, <1>9, <1>10, <1>11

\* The handler's steps that leave the bridges and the microphone alone.
LEMMA MicQuiet ==
  ASSUME MicInv, UNCHANGED <<bridge, path>>, handler.pc \notin {"connect", "mute"},
         client'.mic = client.mic, client'.handle = client.handle, client'.active = client.active
  PROVE  NewPath' /\ AsMute' /\ Bare'
  <1>1. Bare'
    BY DEF MicInv, Bare
  <1>2. NewPath'
    BY DEF MicInv, NewPath, IsUp
  <1>3. AsMute'
    BY DEF MicInv, AsMute, Connecting, IsUp
  <1>4. QED BY <1>1, <1>2, <1>3

\* A destination is remembered before it is connected.
LEMMA MicTarget ==
  ASSUME MicInv, NextTarget
  PROVE  NewPath' /\ AsMute' /\ Bare'
  <1>1. client \in Clients /\ handler \in Handlers
    BY DEF MicInv, TypeInv
  <1>2. UNCHANGED <<bridge, path>> /\ handler.pc = "next" /\ handler.todo # {}
    BY DEF NextTarget, HandlerOnly, Handling
  <1>3. c0 \in Channels
    BY <1>2, InTodo DEF MicInv
  <1>4. /\ client'.mic = client.mic /\ client'.handle = client.handle
        /\ client'.active = [client.active EXCEPT ![c0] = handler.dst[c0]]
    BY <1>1 DEF NextTarget, Clients
  <1>5. /\ handler'.pc = IF client.active[c0] = handler.dst[c0] THEN "codec" ELSE "connect"
        /\ handler'.todo = handler.todo
    BY <1>1 DEF NextTarget, Handlers
  <1>6. c0' = c0
    BY <1>5 DEF c0
  <1>7. ASSUME NEW c \in Channels, ~(handler'.pc = "connect" /\ c = c0)
        PROVE  client'.active[c] = client.active[c]
    BY <1>1, <1>3, <1>4, <1>5, <1>7 DEF Clients, TargetMaps
  <1>8. NewPath'
    BY <1>2, <1>4, <1>6, <1>7 DEF MicInv, NewPath, IsUp
  <1>9. AsMute'
    BY <1>2, <1>4, <1>6, <1>7 DEF MicInv, AsMute, Connecting, IsUp
  <1>10. Bare'
    BY <1>2 DEF MicInv, Bare
  <1>11. QED BY <1>8, <1>9, <1>10

\* A client that remembers no destination.
LEMMA MicForgets ==
  ASSUME MicInv, UNCHANGED <<bridge, path>>, client'.active = NoTarget,
         client'.handle = 0 \/ client'.handle = client.handle
  PROVE  NewPath' /\ AsMute' /\ Bare'
  <1>1. \A c \in Channels : client'.active[c] = None
    BY DEF NoTarget
  <1>2. NewPath'
    BY <1>1 DEF MicInv, NewPath, IsUp
  <1>3. AsMute'
    BY <1>1 DEF AsMute
  <1>4. Bare'
    BY DEF MicInv, Bare
  <1>5. QED BY <1>2, <1>3, <1>4

\* Bridges that come and go under a client that goes on.
LEMMA MicBridges ==
  ASSUME MicInv, UNCHANGED <<client, handler>>,
         path' # path => bridge'[path'].target = NoTarget,
         \A i \in DOMAIN bridge : i \in DOMAIN bridge',
         \A i \in DOMAIN bridge' :
            \/ bridge'[i].state = "dead"
            \/ bridge'[i].target = NoTarget
            \/ i \in DOMAIN bridge /\ bridge'[i] = bridge[i]
  PROVE  NewPath' /\ AsMute' /\ Bare'
  <1>1. \A i \in 0..Len(bridge) : i # 0 => i \in DOMAIN bridge'
    BY InBridge DEF MicInv, TypeInv
  <1>2. path \in 0..Len(bridge) /\ client.handle \in 0..Len(bridge)
    BY InBridge DEF MicInv, TypeInv, Clients
  <1>3. Bare'
    BY DEF MicInv, Bare
  <1>4. NewPath'
    BY <1>1, <1>2 DEF MicInv, NewPath, IsUp, c0
  <1>5. c0' = c0
    BY DEF c0
  <1>6. ASSUME IsUp(client.handle)', NEW c \in Channels,
               client.active[c] # None, bridge'[client.handle].target[c] = client.active[c]
        PROVE  bridge'[client.handle].mute = client.mic \/ Connecting(c)
    <2>1. client.handle # 0 /\ bridge'[client.handle].state = "up"
      BY <1>6 DEF IsUp
    <2>2. client.handle \in DOMAIN bridge'
      BY <1>1, <1>2, <2>1
    <2>3. bridge'[client.handle].target # NoTarget
      BY <1>6 DEF NoTarget
    <2>4. bridge'[client.handle] = bridge[client.handle]
      BY <2>1, <2>2, <2>3
    <2>5. QED BY <1>6, <2>1, <2>4 DEF MicInv, AsMute, IsUp
  <1>7. AsMute'
    BY <1>5, <1>6 DEF AsMute, Connecting
  <1>8. QED BY <1>3, <1>4, <1>7

\* What a step of the handler leaves of the message and of the microphone.
LEMMA HandlerMessage ==
  ASSUME TypeInv, HandlerStep
  PROVE  /\ handler'.pc # "idle" => handler'.mute = handler.mute /\ handler'.has = handler.has
         /\ SetMicLevel => client'.mic = handler.mute
         /\ ~SetMicLevel => client'.mic = client.mic /\ handler.pc # "audio"
         /\ handler'.pc \in {"connect", "mute"} => "dst" \in handler.has \/ handler.pc = "connect"
  <1>1. client \in Clients /\ handler \in Handlers /\ Idle.pc = "idle"
    BY IdleTyped DEF TypeInv
  <1>2. handler.todo # {} => Noted \in Codecs /\ Possible(handler.type[c0]) \in Codecs
    BY NotedTyped
  <1>3. ASSUME NEW pc, Go(pc)
        PROVE  handler'.mute = handler.mute /\ handler'.has = handler.has /\ handler'.pc = pc
    BY <1>1, <1>3 DEF Go, Handlers
  <1>4. ASSUME handler' = Done \/ \E x \in Codecs : handler' = [Done EXCEPT !.codec[c0] = x]
        PROVE  handler'.mute = handler.mute /\ handler'.has = handler.has /\ handler'.pc = "next"
    <2>1. Done.mute = handler.mute /\ Done.has = handler.has /\ Done.pc = "next" /\ Done \in Handlers
      BY <1>1 DEF Done, Handlers, Pcs
    <2>2. QED BY <1>4, <2>1 DEF Handlers
  <1>5. CASE SetMicLevel
    <2>1. handler' = Idle \/ Go("next")
      BY <1>5 DEF SetMicLevel
    <2>2. client'.mic = handler.mute
      BY <1>1, <1>5 DEF SetMicLevel, Clients
    <2>3. QED BY <1>1, <1>3, <1>5, <2>1, <2>2
  <1>6. ASSUME HandlerStep, ~SetMicLevel
        PROVE  client'.mic = client.mic /\ handler.pc # "audio"
    BY <1>1, <1>6 DEF HandlerStep, NextTypeOnly, NextDisconnect, NextTarget, StartVideoStream, ReassertMute,
       SendChannelCodec, StoreStreamCodecs, WriteStreamCodecs, TellEncoder, Handling, Clients
  <1>7. CASE NextTypeOnly \/ NextDisconnect \/ SendChannelCodec
    <2>1. handler' = Done \/ \E x \in Codecs : handler' = [Done EXCEPT !.codec[c0] = x]
      BY <1>2, <1>7 DEF NextTypeOnly, NextDisconnect, SendChannelCodec
    <2>2. QED BY <1>4, <1>6, <1>7, <2>1 DEF SetMicLevel, NextTypeOnly, NextDisconnect, SendChannelCodec,
       Handling
  <1>8. CASE NextTarget
    <2>1. "dst" \in handler.has /\ handler'.mute = handler.mute /\ handler'.has = handler.has
      BY <1>1, <1>8 DEF NextTarget, Handlers
    <2>2. QED BY <1>6, <1>8, <2>1 DEF SetMicLevel, NextTarget, Handling
  <1>9. CASE StartVideoStream
    <2>1. handler.pc = "connect" /\ (Go("codec") \/ Go("mute"))
      BY <1>9 DEF StartVideoStream, Handling
    <2>2. QED BY <1>3, <1>6, <1>9, <2>1 DEF SetMicLevel, Handling
  <1>10. CASE ReassertMute \/ StoreStreamCodecs \/ WriteStreamCodecs
    <2>1. Go("codec") \/ Go("write") \/ Go("tell")
      BY <1>10 DEF ReassertMute, StoreStreamCodecs, WriteStreamCodecs
    <2>2. handler.pc \in {"mute", "next", "write"}
      BY <1>10 DEF ReassertMute, StoreStreamCodecs, WriteStreamCodecs, Handling
    <2>3. QED BY <1>3, <1>6, <2>1, <2>2 DEF SetMicLevel, Handling
  <1>11. CASE TellEncoder
    <2>1. handler' = Idle /\ handler.pc = "tell"
      BY <1>11 DEF TellEncoder, Handling
    <2>2. QED BY <1>1, <1>6, <2>1 DEF SetMicLevel, Handling
  <1>12. QED BY <1>5, <1>7, <1>8, <1>9, <1>10, <1>11 DEF HandlerStep

LEMMA MicWishedHandler ==
  ASSUME MicInv, HandlerStep
  PROVE  MicWished'
  <1>1. TypeInv /\ MicWished /\ wish' = wish /\ handler.pc # "idle"
    BY HandlerShape, HandlerUp DEF MicInv
  <1>2. handler.mute = wish.mute /\ \E kind \in Kinds : handler.has = Carries(kind)
    BY <1>1 DEF MicWished
  <1>3. SetMicLevel => client'.mic = wish.mute
    BY <1>1, <1>2, HandlerMessage
  <1>4. ~SetMicLevel /\ "audio" \in handler.has => client'.mic = wish.mute
    BY <1>1, HandlerMessage DEF MicWished
  <1>5. handler'.pc \in {"connect", "mute"} => "dst" \in handler.has
    BY <1>1, HandlerMessage DEF MicWished
  <1>6. QED BY <1>1, <1>2, <1>3, <1>4, <1>5, HandlerMessage DEF MicWished

LEMMA MicStep ==
  ASSUME MicInv, [Next]_vars
  PROVE  MicInv'
  <1>1. TypeInv /\ Attended /\ TypeInv' /\ Attended'
    BY TypeStep, AttendedStep DEF MicInv
  <1>2. SUFFICES NewPath' /\ AsMute' /\ Bare' /\ MicWished'
    BY <1>1 DEF MicInv
  <1>3. client \in Clients /\ client.mic \in BOOLEAN /\ client.handle \in Nat /\ handler \in Handlers
    BY <1>1 DEF TypeInv, Clients
  <1>4. /\ Idle.pc = "idle" /\ NewClient.active = NoTarget /\ NewClient.handle = 0
        /\ NoClient.active = NoTarget /\ NoClient.handle = 0
    BY IdleTyped DEF NoClient, NewClient, Fresh
  <1>5. ASSUME UNCHANGED <<client, handler>>, wish' = wish
        PROVE  MicWished'
    BY <1>5 DEF MicInv, MicWished
  <1>6. ASSUME handler'.pc = "idle"
        PROVE  MicWished'
    BY <1>6 DEF MicWished
  <1>7. ASSUME NEW kind \in Kinds, NEW of \in SUBSET Channels, NEW w \in Wishes, Deliver(kind, of, w)
        PROVE  NewPath' /\ AsMute' /\ Bare' /\ MicWished'
    <2>1. UNCHANGED <<bridge, path, client>> /\ handler.pc = "idle" /\ wish' = w
      BY <1>7 DEF Deliver
    <2>2. /\ handler'.pc = IF "audio" \in Carries(kind) THEN "audio" ELSE "next"
          /\ handler'.has = Carries(kind) /\ handler'.mute = w.mute
      BY <1>7 DEF Deliver
    <2>3. QED BY <2>1, <2>2, MicQuiet DEF MicWished
  <1>8. CASE HandlerStep
    <2>1. MicWished'
      BY <1>8, MicWishedHandler
    <2>2. CASE NextTarget
      BY <2>1, <2>2, MicTarget
    <2>3. CASE \/ NextDisconnect \/ StartVideoStream \/ ReassertMute \/ SendChannelCodec
               \/ SetMicLevel /\ (client' # client \/ bridge' # bridge)
      <3>1. SetMicLevel => client' # client \/ bridge' # bridge
        BY <1>3, <2>3 DEF SetMicLevel, NextDisconnect, StartVideoStream, ReassertMute, SendChannelCodec,
           Handling
      <3>2. QED BY <2>1, <2>3, <3>1, MicSends
    <2>4. CASE \/ NextTypeOnly \/ StoreStreamCodecs \/ WriteStreamCodecs \/ TellEncoder
               \/ SetMicLevel /\ client' = client /\ bridge' = bridge
      <3>1. /\ UNCHANGED <<bridge, path>> /\ handler.pc \notin {"connect", "mute"}
            /\ client'.mic = client.mic /\ client'.handle = client.handle /\ client'.active = client.active
        BY <1>3, <2>4 DEF SetMicLevel, NextTypeOnly, StoreStreamCodecs, WriteStreamCodecs, TellEncoder,
           Handling, HandlerOnly, Clients
      <3>2. QED BY <2>1, <3>1, MicQuiet
    <2>5. QED BY <1>8, <2>2, <2>3, <2>4 DEF HandlerStep
  <1>9. CASE Reconnect
    <2>1. client' = Fresh(client.mic, client.handle) /\ UNCHANGED <<bridge, path, handler>>
          /\ handler.pc = "idle"
      BY <1>9 DEF Reconnect
    <2>2. client'.active = NoTarget /\ client'.handle = client.handle
      BY <1>3, <2>1, FreshTyped
    <2>3. QED BY <1>6, <2>1, <2>2, MicForgets
  <1>10. CASE ClientDies \/ StopClient
    <2>1. client' = NoClient /\ handler' = Idle /\ UNCHANGED <<bridge, path>>
      BY <1>10 DEF ClientDies, StopClient, Kill, WdOnly
    <2>2. QED BY <1>4, <1>6, <2>1, MicForgets
  <1>11. ASSUME UNCHANGED <<bridge, path, client, handler, wish>>
         PROVE  NewPath' /\ AsMute' /\ Bare' /\ MicWished'
    BY <1>5, <1>11, MicBridges
  <1>12. ASSUME UNCHANGED <<bridge, path, handler, wish>>, client' = AnyClient
         PROVE  NewPath' /\ AsMute' /\ Bare' /\ MicWished'
    <2>1. CASE client.up
      BY <1>11, <1>12, <2>1 DEF AnyClient
    <2>2. CASE ~client.up
      <3>1. client' = NewClient /\ handler'.pc = "idle"
        BY <1>1, <1>12, <2>2 DEF AnyClient, Attended
      <3>2. QED BY <1>4, <1>6, <1>12, <3>1, MicForgets
    <2>3. QED BY <2>1, <2>2
  <1>13. ASSUME UNCHANGED <<path, client, handler, wish>>, bridge' = Append(bridge, Started)
         PROVE  NewPath' /\ AsMute' /\ Bare' /\ MicWished'
    <2>1. /\ DOMAIN bridge' = DOMAIN bridge \cup {Len(bridge) + 1}
          /\ \A i \in DOMAIN bridge : bridge'[i] = bridge[i]
          /\ bridge'[Len(bridge) + 1].target = NoTarget
      BY <1>1, <1>13, Appended, StartedTyped
    <2>2. QED BY <1>5, <1>13, <2>1, MicBridges
  <1>14. ASSUME NEW i \in DOMAIN bridge, BridgeReady(i)
         PROVE  NewPath' /\ AsMute' /\ Bare' /\ MicWished'
    <2>1. UNCHANGED <<client, handler, wish>> /\ bridge[i].state = "starting" /\ path' = i
      BY <1>14 DEF BridgeReady
    <2>2. bridge[i].target = NoTarget
      BY <2>1 DEF MicInv, Bare
    <2>3. /\ DOMAIN bridge' = DOMAIN bridge
          /\ bridge'[i].target = NoTarget
          /\ \A j \in DOMAIN bridge \ {i} : bridge'[j] = bridge[j]
      BY <1>1, <1>14, <2>2, ReadyShape
    <2>4. QED BY <1>5, <2>1, <2>3, MicBridges
  <1>15. ASSUME NEW i \in DOMAIN bridge, BridgeDies(i)
         PROVE  NewPath' /\ AsMute' /\ Bare' /\ MicWished'
    <2>1. UNCHANGED <<path, client, handler, wish>>
      BY <1>15 DEF BridgeDies
    <2>2. /\ DOMAIN bridge' = DOMAIN bridge
          /\ bridge'[i].state = "dead"
          /\ \A j \in DOMAIN bridge \ {i} : bridge'[j] = bridge[j]
      BY <1>1, <1>15, DiesShape, StartedTyped
    <2>3. QED BY <1>5, <2>1, <2>2, MicBridges
  <1>16. CASE InitStarts
    <2>1. bridge' = Append(bridge, Started) /\ client' = AnyClient /\ UNCHANGED <<path, handler, wish>>
      BY <1>16 DEF InitStarts
    <2>2. CASE client.up
      BY <1>13, <2>1, <2>2 DEF AnyClient
    <2>3. CASE ~client.up
      <3>1. client' = NewClient /\ handler'.pc = "idle" /\ \A c \in Channels : client'.active[c] = None
        BY <1>1, <1>4, <2>1, <2>3 DEF AnyClient, Attended, NoTarget
      <3>2. NewPath' /\ AsMute'
        BY <1>4, <3>1 DEF NewPath, AsMute
      <3>3. Bare'
        BY <1>1, <2>1, Appended, StartedTyped DEF MicInv, Bare
      <3>4. QED BY <1>6, <3>1, <3>2, <3>3
    <2>4. QED BY <2>2, <2>3
  <1>17. CASE EnsureBridge
    <2>1. UNCHANGED <<path, client, handler, wish>>
      BY <1>17 DEF EnsureBridge, WdOnly
    <2>2. CASE Running = {}
      BY <1>13, <1>17, <2>1, <2>2 DEF EnsureBridge
    <2>3. CASE Running # {}
      <3>1. /\ DOMAIN bridge' = DOMAIN bridge
            /\ \A i \in DOMAIN bridge : bridge'[i] = bridge[i] \/ bridge'[i].state = "dead"
        BY <1>1, <1>17, <2>3, EnsureShape, StartedTyped
      <3>2. QED BY <1>5, <2>1, <3>1, MicBridges
    <2>4. QED BY <2>2, <2>3
  <1>18. CASE CliStopBridge
    <2>1. UNCHANGED <<path, client, handler, wish>>
      BY <1>18 DEF CliStopBridge, WdOnly
    <2>2. DOMAIN bridge' = DOMAIN bridge /\ \A i \in DOMAIN bridge' : bridge'[i].state = "dead"
      BY <1>1, <1>18, StopShape, StartedTyped
    <2>3. QED BY <1>5, <2>1, <2>2, MicBridges
  <1>19. CASE CliStartBridge
    BY <1>13, <1>19 DEF CliStartBridge, WdOnly
  <1>20. CASE EnsureClient \/ StartClient
    BY <1>12, <1>20 DEF EnsureClient, StartClient, WdOnly
  <1>21. CASE WdWakes \/ WdStarts \/ CliRestart \/ WdDies \/ UNCHANGED vars
    BY <1>11, <1>21 DEF WdWakes, WdStarts, CliRestart, WdDies, WdOnly, vars
  <1>22. QED
    BY <1>7, <1>8, <1>9, <1>10, <1>14, <1>15, <1>16, <1>17, <1>18, <1>19, <1>20, <1>21 DEF Next, WdStep

\* A running bridge is unmuted by the message of a controller that wants it so.
LEMMA MicUnmutes ==
  ASSUME "plain" \notin Kinds, MicInv, [Next]_vars, NEW i \in DOMAIN bridge,
         bridge[i].mute, ~bridge'[i].mute, bridge'[i].state = "up"
  PROVE  ~wish.mute
  <1>1. TypeInv /\ MicWished
    BY DEF MicInv
  <1>2. bridge[i] \in Bridges /\ bridge[i].mute \in BOOLEAN /\ i # 0
    BY <1>1, InBridge DEF Bridges
  <1>3. bridge'[i] # bridge[i] /\ bridge'[i] # Dead
    BY StartedTyped
  <1>4. CASE HandlerStep
    <2>1. i = Reach
      BY <1>1, <1>3, <1>4, HandlerShape
    <2>2. Reach # 0 /\ handler.mute \in BOOLEAN /\ client.mic \in BOOLEAN
      BY <1>1, <1>2, <2>1 DEF TypeInv, Handlers, Clients
    <2>3. ASSUME NEW m \in BOOLEAN, Written([bridge[Reach] EXCEPT !.mute = m])
          PROVE  bridge'[i].mute = m
      BY <1>1, <2>1, <2>2, <2>3, WroteTheMute
    <2>4. CASE SetMicLevel
      <3>1. handler.mute = wish.mute
        BY <1>1, <2>4 DEF SetMicLevel, Handling, MicWished
      <3>2. Written([bridge[Reach] EXCEPT !.mute = handler.mute])
        BY <1>3, <2>4 DEF SetMicLevel
      <3>3. QED BY <2>2, <2>3, <3>1, <3>2
    <2>5. CASE ReassertMute
      <3>1. "dst" \in handler.has /\ \E kind \in Kinds : handler.has = Carries(kind)
        BY <1>1, <2>5 DEF ReassertMute, Handling, MicWished
      <3>2. "audio" \in handler.has
        <4>1. PICK kind \in Kinds : handler.has = Carries(kind)
          BY <3>1
        <4>2. kind = "full" \/ kind = "types" \/ kind = "audio"
          OBVIOUS
        <4>3. Carries("types") = {"type"} /\ Carries("audio") = {"audio"}
              /\ Carries("full") = {"dst", "type", "audio"}
          BY DEF Carries
        <4>4. QED BY <3>1, <4>1, <4>2, <4>3
      <3>3. client.mic = wish.mute
        BY <1>1, <2>5, <3>2 DEF ReassertMute, Handling, MicWished
      <3>4. Written([bridge[Reach] EXCEPT !.mute = client.mic])
        BY <2>5 DEF ReassertMute
      <3>5. QED BY <2>2, <2>3, <3>3, <3>4
    <2>6. CASE NextDisconnect \/ StartVideoStream \/ SendChannelCodec
      <3>1. handler.todo # {} /\ handler \in Handlers
        BY <1>1, <2>6 DEF NextDisconnect, StartVideoStream, SendChannelCodec, Handling, TypeInv
      <3>2. c0 \in Channels /\ handler.dst[c0] \in Targets \cup {None} /\ handler.codec[c0] \in Codecs
        BY <1>1, <3>1, InTodo DEF Handlers, TargetMaps, CodecMaps
      <3>3. \/ \E t \in Targets \cup {None} : Written([bridge[Reach] EXCEPT !.target[c0] = t])
            \/ Written([bridge[Reach] EXCEPT !.codec[c0] = handler.codec[c0]])
        BY <2>2, <2>6, <3>2 DEF NextDisconnect, StartVideoStream, SendChannelCodec
      <3>4. bridge'[i].mute = bridge[i].mute
        BY <1>1, <2>1, <2>2, <3>2, <3>3, WroteTheMute
      <3>5. QED BY <3>4
    <2>7. CASE NextTypeOnly \/ NextTarget \/ StoreStreamCodecs \/ WriteStreamCodecs \/ TellEncoder
      BY <1>3, <2>7 DEF NextTypeOnly, NextTarget, StoreStreamCodecs, WriteStreamCodecs, TellEncoder
    <2>8. QED BY <1>4, <2>4, <2>5, <2>6, <2>7 DEF HandlerStep
  <1>5. ASSUME NEW j \in DOMAIN bridge, BridgeReady(j) PROVE FALSE
    <2>1. /\ bridge'[j] = [bridge[j] EXCEPT !.state = "up"]
          /\ \A k \in DOMAIN bridge \ {j} : bridge'[k] = bridge[k]
      BY <1>1, <1>5, ReadyShape
    <2>2. bridge[j] \in Bridges
      BY <1>1, InBridge
    <2>3. bridge'[j].mute = bridge[j].mute
      BY <2>1, <2>2 DEF Bridges
    <2>4. QED BY <1>3, <2>1, <2>3
  <1>6. ASSUME NEW j \in DOMAIN bridge, BridgeDies(j) PROVE FALSE
    BY <1>1, <1>3, <1>6, DiesShape
  <1>7. bridge' # Append(bridge, Started)
    BY <1>1, <1>3, Appended
  <1>8. ASSUME EnsureBridge PROVE FALSE
    <2>1. Running # {}
      BY <1>7, <1>8 DEF EnsureBridge
    <2>2. QED BY <1>1, <1>3, <1>8, <2>1, EnsureShape
  <1>9. ~CliStopBridge
    BY <1>1, <1>3, StopShape
  <1>10. bridge' # bridge
    BY <1>3
  <1>11. QED
    BY <1>4, <1>5, <1>6, <1>7, <1>8, <1>9, <1>10 DEF Next, Deliver, Reconnect, ClientDies, InitStarts,
       WdStep, WdWakes, EnsureClient, StopClient, StartClient, CliStartBridge, WdStarts, CliRestart,
       WdDies, vars

\* Between messages the bridge at the other end of the client's handle is as mute as the
\* client, once it has a destination that the client remembers (main.go:1717), however
\* often the bridges, the client or the supervisor die and start anew in the midst of a
\* message, and whatever the messages carry.
THEOREM MuteKeptHolds ==
  Spec => []MuteKept
  <1>1. Init => MicInv
    BY MicInit
  <1>2. MicInv /\ [Next]_vars => MicInv'
    BY MicStep
  <1>3. MicInv => MuteKept
    BY DEF MicInv, AsMute, Connecting, MuteKept, Settled
  <1>4. QED BY <1>1, <1>2, <1>3, PTL DEF Spec

\* The microphone plays when it was asked to and only then: MuteKept, and no running bridge
\* is unmuted while the controller wants it mute (main.go:1182).  The second part needs the
\* hypothesis: what a message with destinations but no audio settings connects is as mute
\* as the client is, and a client that has just been started is not.
THEOREM MicAsAskedHolds ==
  "plain" \notin Kinds => (Spec => MicAsAsked)
  <1> SUFFICES ASSUME "plain" \notin Kinds PROVE Spec => MicAsAsked
    OBVIOUS
  <1>1. Init => MicInv
    BY MicInit
  <1>2. MicInv /\ [Next]_vars => MicInv'
    BY MicStep
  <1>3. MicInv /\ [Next]_vars
        => [\A i \in DOMAIN bridge :
                bridge[i].mute /\ ~bridge'[i].mute /\ bridge'[i].state = "up" => ~wish.mute]_vars
    BY MicUnmutes
  <1>4. QED BY <1>1, <1>2, <1>3, MuteKeptHolds, PTL DEF Spec, MicAsAsked, UnmutedOnlyOnRequest

=============================================================================
