------------------------------ MODULE PushQueue ------------------------------
(***************************************************************************)
(* One channel's video queue in flv_bridge: the ring reader's thread       *)
(* (emitFrame in src/flv_bridge/main.cpp) detects lost frames and enqueues *)
(* the others, the connection's push threads pop them, and the connection  *)
(* manager connects and disconnects the channel meanwhile (FlvConn models  *)
(* it in full).  The reader looks at the connection before it takes the    *)
(* queue's mutex, so a connection may come or go between the two.          *)
(***************************************************************************)
EXTENDS Naturals, Sequences

CONSTANTS
    MaxQueueSize,   \* MAX_QUEUE_SIZE
    TrustAfter,     \* steps of one after which a stream counter is trusted
    PushThreads,    \* slots for pushThreadMain threads
    None,           \* no frame
    MaxFrames,      \* bound: frames the ring delivers
    MaxLost,        \* bound: frames lost at once
    MaxConnects     \* bound: connections installed

ASSUME SizeAssumption == MaxQueueSize \in Nat \ {0} /\ TrustAfter \in Nat \ {0}
ASSUME FrameBounds == MaxFrames \in Nat /\ MaxLost \in Nat /\ MaxConnects \in Nat

VARIABLES
    last,           \* stream counter of the last frame seen, 0 before the first
    run, trusted,   \* consecutive steps of one, and whether there were enough
    reader,         \* the reader's program counter and the frame it holds
    frames,         \* flvQueue.frame_queue
    dropUntilKey,   \* ChannelState.dropUntilKey
    active,         \* activeFd >= 0
    replacing,      \* doConnect has closed the connection it replaces
    generation,     \* ChannelState.generation
    span,           \* how often the reader found the channel inactive
    push,           \* push threads: program counter and generation
    popped,         \* the last frame a push thread took
    lossy,          \* a detected loss has had no keyframe since
    delivered       \* frames the ring has delivered

seenVars == <<last, run, trusted, lossy, delivered>>
gapVars == <<seenVars, span>>
queueVars == <<frames, dropUntilKey>>
linkVars == <<active, replacing, generation>>
vars == <<gapVars, reader, queueVars, linkVars, push, popped>>

\* A frame of the ring: its stream counter, whether it is a keyframe, whether it
\* follows a loss nobody could detect, and how often the reader had found the
\* channel inactive when it was queued.
Frame == [n : Nat, key : BOOLEAN, blind : BOOLEAN, span : Nat]
Frames == Frame \cup {None}

ASSUME NoneAssumption == None \notin Frame

Init ==
    /\ last = 0 /\ run = 0 /\ trusted = FALSE
    /\ reader = [pc |-> "idle", frame |-> None]
    /\ frames = <<>> /\ dropUntilKey = FALSE
    /\ active = FALSE /\ replacing = FALSE /\ generation = 0 /\ span = 0
    /\ push = [p \in PushThreads |-> [pc |-> "idle", gen |-> 0]]
    /\ popped = None
    /\ lossy = FALSE /\ delivered = 0

----------------------------------------------------------------------------
(* The reader's thread. *)

\* emitFrame is called with the frame after `lost` lost ones.
Emit(lost, key) ==
    /\ reader.pc = "idle"
    /\ delivered < MaxFrames
    /\ LET seen == last # 0
           step == lost = 0
           gap == seen /\ ~step /\ trusted
           n == last + lost + 1
       IN  /\ run' = CASE seen /\ step /\ ~trusted -> run + 1
                       [] seen /\ ~step /\ ~trusted -> 0
                       [] OTHER -> run
           /\ trusted' = (trusted \/ run' >= TrustAfter)
           /\ last' = n
           /\ lossy' = (~key /\ (lossy \/ gap))
           /\ reader' = [pc |-> IF gap THEN "gap" ELSE "offer",
                         frame |-> [n |-> n, key |-> key, span |-> 0,
                                    blind |-> seen /\ ~step /\ ~trusted]]
    /\ delivered' = delivered + 1
    /\ UNCHANGED <<span, queueVars, linkVars, push, popped>>

\* flvPushDiscontinuity: nothing to do on a channel that is not active.
DiscontinuityCheck ==
    /\ reader.pc = "gap"
    /\ reader' = [reader EXCEPT !.pc = IF active THEN "flush" ELSE "offer"]
    /\ span' = IF active THEN span ELSE span + 1
    /\ UNCHANGED <<seenVars, queueVars, linkVars, push, popped>>

\* ... and its locked section.
Discontinuity ==
    /\ reader.pc = "flush"
    /\ frames' = <<>>
    /\ dropUntilKey' = TRUE
    /\ reader' = [reader EXCEPT !.pc = "offer"]
    /\ UNCHANGED <<gapVars, linkVars, push, popped>>

\* emitFrame and flvPushEnqueue look at the connection; a frame of an inactive
\* channel is dropped here.
EnqueueCheck ==
    /\ reader.pc = "offer"
    /\ reader' = IF active THEN [reader EXCEPT !.pc = "enqueue"]
                           ELSE [pc |-> "idle", frame |-> None]
    /\ span' = IF active THEN span ELSE span + 1
    /\ UNCHANGED <<seenVars, queueVars, linkVars, push, popped>>

\* Wrong on purpose: an overflow drops the oldest frame, as the audio queues do.
MutEnqueueDropsOldest ==
    /\ reader.pc = "enqueue"
    /\ LET f == [reader.frame EXCEPT !.span = span]
           full == Len(frames) >= MaxQueueSize
       IN  \/ /\ dropUntilKey /\ ~f.key
              /\ UNCHANGED queueVars
           \/ /\ ~dropUntilKey \/ f.key
              /\ dropUntilKey' = FALSE
              /\ frames' = Append(IF full THEN Tail(frames) ELSE frames, f)
    /\ reader' = [pc |-> "idle", frame |-> None]
    /\ UNCHANGED <<gapVars, linkVars, push, popped>>

\* flvPushEnqueue's locked section.  While the channel is frozen only a keyframe
\* gets in.  An overflow flushes the backlog, and freezes the channel unless
\* the frame that met it is a keyframe.
Enqueue ==
    /\ reader.pc = "enqueue"
    /\ LET f == [reader.frame EXCEPT !.span = span]
           full == Len(frames) >= MaxQueueSize
       IN  \/ /\ dropUntilKey /\ ~f.key
              /\ UNCHANGED queueVars
           \/ /\ ~dropUntilKey \/ f.key
              /\ dropUntilKey' = (full /\ ~f.key)
              /\ frames' = IF ~full THEN Append(frames, f)
                           ELSE IF f.key THEN <<f>> ELSE <<>>
    /\ reader' = [pc |-> "idle", frame |-> None]
    /\ UNCHANGED <<gapVars, linkVars, push, popped>>

----------------------------------------------------------------------------
(* The connection, as FlvConn provides it, and its push threads. *)

\* doConnect has a new connection and closes the present one.  The stateMutex is
\* held until the new one is installed, but the reader looks without it.
Replace ==
    /\ active
    /\ generation < MaxConnects
    /\ \E p \in PushThreads : push[p].pc = "idle"
    /\ active' = FALSE
    /\ replacing' = TRUE
    /\ UNCHANGED <<gapVars, reader, queueVars, generation, push, popped>>

\* ... and installs the new one; the queue and dropUntilKey are left as they are.
Install(p) ==
    /\ ~active
    /\ generation < MaxConnects
    /\ push[p].pc = "idle"
    /\ active' = TRUE
    /\ replacing' = FALSE
    /\ generation' = generation + 1
    /\ push' = [push EXCEPT ![p] = [pc |-> "loop", gen |-> generation + 1]]
    /\ UNCHANGED <<gapVars, reader, queueVars, popped>>

\* doDisconnect of an active channel.
Disconnect ==
    /\ active
    /\ active' = FALSE
    /\ generation' = generation + 1
    /\ UNCHANGED <<gapVars, reader, queueVars, replacing, push, popped>>

\* Top of a push thread's loop.
PushCheck(p) ==
    /\ push[p].pc = "loop"
    /\ push' = [push EXCEPT ![p].pc = IF generation = push[p].gen THEN "body" ELSE "ending"]
    /\ UNCHANGED <<gapVars, reader, queueVars, linkVars, popped>>

\* Wrong on purpose: the queue is not checked for being empty.
MutPop(p) ==
    /\ push[p].pc = "body"
    /\ popped' = IF frames = <<>> THEN [n |-> 0] ELSE Head(frames)
    /\ frames' = IF frames = <<>> THEN <<>> ELSE Tail(frames)
    /\ push' = [push EXCEPT ![p].pc = "loop"]
    /\ UNCHANGED <<gapVars, reader, dropUntilKey, linkVars>>

\* The thread takes the oldest frame, if there is one, and writes it; a thread
\* superseded since its check takes one too.
Pop(p) ==
    /\ push[p].pc = "body"
    /\ \/ /\ frames = <<>>
          /\ UNCHANGED <<frames, popped>>
       \/ /\ frames # <<>>
          /\ popped' = Head(frames)
          /\ frames' = Tail(frames)
    /\ push' = [push EXCEPT ![p].pc = "loop"]
    /\ UNCHANGED <<gapVars, reader, dropUntilKey, linkVars>>

\* The peer is gone or a write failed.
PeerGone(p) ==
    /\ push[p].pc \in {"loop", "body"}
    /\ push' = [push EXCEPT ![p].pc = "ending"]
    /\ UNCHANGED <<gapVars, reader, queueVars, linkVars, popped>>

\* The exit section, under the stateMutex: the current thread deactivates the channel.
PushEnd(p) ==
    /\ push[p].pc = "ending"
    /\ ~replacing
    /\ active' = (active /\ generation # push[p].gen)
    /\ push' = [push EXCEPT ![p] = [pc |-> "idle", gen |-> 0]]
    /\ UNCHANGED <<gapVars, reader, queueVars, replacing, generation, popped>>

\* The bounds are used up and every thread has come to its end.
AtRest ==
    /\ delivered = MaxFrames /\ reader.pc = "idle"
    /\ \A p \in PushThreads : push[p].pc = "idle"
    /\ UNCHANGED vars

Next ==
    \/ \E lost \in 0..MaxLost, key \in BOOLEAN : Emit(lost, key)
    \/ DiscontinuityCheck \/ Discontinuity
    \/ EnqueueCheck \/ Enqueue
    \/ \E p \in PushThreads :
            Install(p) \/ PushCheck(p) \/ Pop(p) \/ PeerGone(p) \/ PushEnd(p)
    \/ Replace \/ Disconnect
    \/ AtRest

Spec == Init /\ [][Next]_vars

----------------------------------------------------------------------------
(* Properties. *)

\* Every variable holds a value the code can put there.
TypeOK ==
    /\ last \in Nat /\ run \in Nat /\ trusted \in BOOLEAN
    /\ lossy \in BOOLEAN /\ delivered \in Nat
    /\ reader \in [pc : {"idle", "gap", "flush", "offer", "enqueue"}, frame : Frames]
    /\ reader.pc # "idle" => reader.frame # None
    /\ frames \in Seq(Frame) /\ dropUntilKey \in BOOLEAN
    /\ active \in BOOLEAN /\ replacing \in BOOLEAN
    /\ generation \in Nat /\ span \in Nat
    /\ push \in [PushThreads -> [pc : {"idle", "loop", "body", "ending"}, gen : Nat]]
    /\ popped \in Frames

\* g can be decoded after f: it is a keyframe, or nothing between the two is
\* missing, as far as the reader could tell and while it found the channel active.
Follows(f, g) == g.key \/ g.n = f.n + 1 \/ g.blind \/ g.span # f.span

\* No queued frame predicts from a missing one: neither a detected loss nor an
\* overflow leaves a frame in the queue whose predecessor was dropped
\* (flvPushEnqueue, flvPushDiscontinuity), whoever popped the frames before it.
NoMissingReference ==
    /\ \A i \in 1..(Len(frames) - 1) : Follows(frames[i], frames[i + 1])
    /\ popped # None /\ frames # <<>> => Follows(popped, Head(frames))

\* FlvPush.h:41, "upstream frames were lost: ... refuse non-key frames until the
\* next keyframe": after a detected loss the next frame queued is a keyframe.
LossRefusesNonKey ==
    [][\A i \in 1..Len(frames') :
            Len(frames') > Len(frames) /\ lossy => frames'[Len(frames')].key]_vars
============================================================================
