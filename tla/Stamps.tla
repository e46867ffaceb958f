------------------------------- MODULE Stamps -------------------------------
(***************************************************************************)
(* The time stamps of one channel's FLV tags: pushThreadMain of            *)
(* src/flv_bridge/FlvPush.cpp maps the capture times of video, AAC and     *)
(* Opus packets onto the time since its connection began, with one anchor  *)
(* for the three, while their producers go on and its own writes may       *)
(* block for any time.  The queues outlive a connection.                   *)
(* Time is in steps of the Opus grid, 20 ms; nowSeconds, the time stamps   *)
(* of the ring and the stamps of the tags are of that clock.               *)
(***************************************************************************)
EXTENDS Integers, Sequences

CONSTANTS
    Window,         \* Opus packets in an AAC frame
    Interval,       \* between two pictures
    AudioSize,      \* MAX_AAC_QUEUE_SIZE
    OpusSize,       \* MAX_OPUS_QUEUE_SIZE
    VideoSize,      \* MAX_QUEUE_SIZE
    Late,           \* the three seconds beyond which captureElapsed anchors anew
    Dropout,        \* the 250 ms of the fallback's grid
    MaxTime,        \* bound: time
    MaxBlocks,      \* bound: writes that block
    MaxConns        \* bound: connections

VARIABLES
    now,            \* CLOCK_MONOTONIC
    due,            \* what the producers still hand over at this time
    active,         \* activeFd >= 0
    audioQueue, opusQueue, videoQueue,    \* capture times, oldest first
    push,           \* pushThreadMain: where it is and its locals
    sent,           \* the last stamps of audio and video, how far the last tag was ahead
    blocked,        \* the thread is held up in writeAll
    connsLeft, blocksLeft    \* what remains of the bounds

queueVars == <<audioQueue, opusQueue, videoQueue>>
boundVars == <<connsLeft, blocksLeft>>
stampVars == <<now, due, active, audioQueue, opusQueue, videoQueue, push, sent, blocked,
               connsLeft, blocksLeft>>

Never == -2 * MaxTime
NoTags == [audio |-> 0, video |-> -1, track |-> "none", ahead |-> 0]
NoThread ==
    [at |-> "none", start |-> 0, anchor |-> [set |-> FALSE, pts |-> 0, elapsed |-> 0],
     opusPrev |-> Never, opusPtsIndex |-> -1, lastAudioMs |-> 0, lastOpusMs |-> 0, stLastMs |-> -1]

Init ==
    /\ now = 2 * Window /\ due = {}
    /\ active = FALSE
    /\ audioQueue = <<>> /\ opusQueue = <<>> /\ videoQueue = <<>>
    /\ push = NoThread
    /\ sent = NoTags
    /\ blocked = FALSE
    /\ connsLeft = MaxConns /\ blocksLeft = MaxBlocks

----------------------------------------------------------------------------
(* The ring reader's thread: emitFrame. *)

\* What is ready at time t: an AAC frame, captured a window ago, is transcoded
\* after it was queued.
Ready(t) == (IF t % Window = 0 THEN {"aac"} ELSE {}) \cup (IF t % Interval = 0 THEN {"video"} ELSE {})

\* Time passes where the thread waits: for packets, for its start, in writeAll.
Waiting ==
    \/ push.at \in {"none", "start"} \/ blocked
    \/ push.at = "aac" /\ audioQueue = <<>> /\ opusQueue = <<>> /\ videoQueue = <<>>

Tick ==
    /\ due = {} /\ now < MaxTime /\ Waiting
    /\ now' = now + 1
    /\ due' = Ready(now + 1)
    /\ UNCHANGED <<active, queueVars, push, sent, blocked, boundVars>>

Newest(q, n) == IF Len(q) > n THEN SubSeq(q, Len(q) - n + 1, Len(q)) ELSE q

\* flvPushEnqueueAudio.
EnqueueAudio ==
    /\ "aac" \in due
    /\ audioQueue' = IF active THEN Newest(Append(audioQueue, now - Window), AudioSize) ELSE audioQueue
    /\ due' = (due \ {"aac"}) \cup {"opus"}
    /\ UNCHANGED <<now, active, opusQueue, videoQueue, push, sent, blocked, boundVars>>

\* transcodeAacToOpus: the packets of one AAC frame, one time step apart.
EnqueueOpus ==
    /\ "opus" \in due
    /\ opusQueue' = IF active
                    THEN Newest(opusQueue \o [i \in 1..Window |-> now - Window + i - 1], OpusSize)
                    ELSE opusQueue
    /\ due' = due \ {"opus"}
    /\ UNCHANGED <<now, active, audioQueue, videoQueue, push, sent, blocked, boundVars>>

\* flvPushEnqueue: a full queue is flushed, the picture taken for a keyframe;
\* PushQueue has what is refused otherwise.
EnqueueVideo ==
    /\ "video" \in due
    /\ videoQueue' = IF ~active THEN videoQueue
                     ELSE Append(IF Len(videoQueue) >= VideoSize THEN <<>> ELSE videoQueue, now - 1)
    /\ due' = due \ {"video"}
    /\ UNCHANGED <<now, active, audioQueue, opusQueue, push, sent, blocked, boundVars>>

----------------------------------------------------------------------------
(* The push thread. *)

NowElapsed == now - push.start

\* Wrong on purpose: the anchor is never pulled back.
MutAnchored(a, pts) ==
    IF ~a.set \/ a.elapsed + pts - a.pts < NowElapsed - Late
    THEN [set |-> TRUE, pts |-> pts, elapsed |-> NowElapsed]
    ELSE a

\* captureElapsed: the anchor it leaves behind for a packet captured at pts.
Anchored(a, pts) ==
    LET e == a.elapsed + pts - a.pts
    IN  IF ~a.set \/ e < NowElapsed - Late THEN [set |-> TRUE, pts |-> pts, elapsed |-> NowElapsed]
        ELSE IF e > NowElapsed THEN [a EXCEPT !.elapsed = @ - (e - NowElapsed)]
        ELSE a

Mapped(a, pts) == a.elapsed + pts - a.pts

\* A tag is written: how far ahead of the time is its stamp?
Tagged(track, ms) ==
    sent' = [audio |-> IF track = "video" THEN sent.audio ELSE ms,
             video |-> IF track = "video" THEN ms ELSE sent.video,
             track |-> track, ahead |-> ms - NowElapsed]

\* (uint32_t) of a double; below zero the camera's ARM core gives zero.
Ms(elapsed) == IF elapsed < 0 THEN 0 ELSE elapsed

\* tsutil.h.
MonotonicMs(last, ms) == IF ms < last THEN last ELSE ms

\* doConnect has installed a socket; the thread starts and writes its header.
Connect ==
    /\ ~active /\ connsLeft > 0
    /\ active' = TRUE /\ connsLeft' = connsLeft - 1
    /\ push' = [NoThread EXCEPT !.at = "start"]
    /\ UNCHANGED <<now, due, queueVars, sent, blocked, blocksLeft>>

Start ==
    /\ push.at = "start"
    /\ push' = [push EXCEPT !.at = "aac", !.start = now]
    /\ sent' = NoTags
    /\ UNCHANGED <<now, due, active, queueVars, blocked, boundVars>>

\* The peer is gone, or a write has failed.  What is queued stays queued.
Lose ==
    /\ active
    /\ active' = FALSE /\ push' = NoThread /\ blocked' = FALSE
    /\ UNCHANGED <<now, due, queueVars, sent, boundVars>>

\* The peer takes nothing for a while; then it does again.
Block ==
    /\ push.at \in {"aac", "opus", "video"} /\ ~blocked /\ blocksLeft > 0
    /\ blocked' = TRUE /\ blocksLeft' = blocksLeft - 1
    /\ UNCHANGED <<now, due, active, queueVars, push, sent, connsLeft>>

Unblock ==
    /\ blocked
    /\ blocked' = FALSE
    /\ UNCHANGED <<now, due, active, queueVars, push, sent, boundVars>>

\* The first AAC packet's sequence header goes the same way at the same time.
PushAac ==
    /\ push.at = "aac" /\ ~blocked
    /\ IF audioQueue = <<>>
       THEN push' = [push EXCEPT !.at = "opus"] /\ UNCHANGED <<audioQueue, sent>>
       ELSE LET a == Anchored(push.anchor, Head(audioQueue))
                ms == MonotonicMs(push.lastAudioMs, Ms(Mapped(a, Head(audioQueue))))
            IN  /\ audioQueue' = Tail(audioQueue)
                /\ push' = [push EXCEPT !.anchor = a, !.lastAudioMs = ms]
                /\ Tagged("aac", ms)
    /\ UNCHANGED <<now, due, active, opusQueue, videoQueue, blocked, boundVars>>

Larger(a, b) == IF a < b THEN b ELSE a

\* Wrong on purpose: it looks at its own track only.
MutOpusMs(elapsed) ==
    IF push.lastOpusMs > 0 THEN Larger(Ms(elapsed), push.lastOpusMs + 1) ELSE Ms(elapsed)

\* Ahead of the AAC tags written so far, and a step beyond the packet before.
OpusMs(elapsed) ==
    LET ms == Larger(Ms(elapsed), push.lastAudioMs)
    IN  IF push.lastOpusMs > 0 THEN Larger(ms, push.lastOpusMs + 1) ELSE ms

\* The grid for packets that come before anything has set the anchor.
PtsIndex ==
    IF push.opusPtsIndex < 0 \/ push.opusPtsIndex < NowElapsed - Dropout
    THEN NowElapsed ELSE push.opusPtsIndex

OpusTag(elapsed) ==
    LET ms == OpusMs(elapsed)
    IN  /\ Tagged("opus", ms)
        /\ push' = [push EXCEPT
               !.opusPrev = IF push.anchor.set THEN elapsed ELSE @,
               !.opusPtsIndex = IF push.anchor.set THEN @ ELSE PtsIndex + 1,
               !.lastOpusMs = ms, !.lastAudioMs = ms]

PushOpus ==
    /\ push.at = "opus" /\ ~blocked
    /\ IF opusQueue = <<>>
       THEN push' = [push EXCEPT !.at = "video"] /\ UNCHANGED <<opusQueue, sent>>
       ELSE /\ opusQueue' = Tail(opusQueue)
            /\ OpusTag(IF push.anchor.set
                       THEN Larger(Mapped(push.anchor, Head(opusQueue)), push.opusPrev)
                       ELSE PtsIndex)
    /\ UNCHANGED <<now, due, active, audioQueue, videoQueue, blocked, boundVars>>

\* One picture a round: strictly later than the one before.
PushVideo ==
    /\ push.at = "video" /\ ~blocked
    /\ IF videoQueue = <<>>
       THEN push' = [push EXCEPT !.at = "aac"] /\ UNCHANGED <<videoQueue, sent>>
       ELSE LET a == Anchored(push.anchor, Head(videoQueue))
                ms == Larger(Ms(Mapped(a, Head(videoQueue))), push.stLastMs + 1)
            IN  /\ videoQueue' = Tail(videoQueue)
                /\ push' = [push EXCEPT !.at = "aac", !.anchor = a, !.stLastMs = ms]
                /\ Tagged("video", ms)
    /\ UNCHANGED <<now, due, active, audioQueue, opusQueue, blocked, boundVars>>

Next ==
    \/ Tick \/ EnqueueAudio \/ EnqueueOpus \/ EnqueueVideo
    \/ Connect \/ Start \/ Lose \/ Block \/ Unblock
    \/ PushAac \/ PushOpus \/ PushVideo

Spec == Init /\ [][Next]_stampVars

----------------------------------------------------------------------------

TypeOK ==
    /\ now \in 0..MaxTime /\ due \subseteq {"aac", "opus", "video"} /\ blocked \in BOOLEAN
    /\ connsLeft \in 0..MaxConns /\ blocksLeft \in 0..MaxBlocks
    /\ Len(audioQueue) <= AudioSize /\ Len(opusQueue) <= OpusSize /\ Len(videoQueue) <= VideoSize
    /\ push.at \in {"none", "start", "aac", "opus", "video"} /\ active = (push.at # "none")
    /\ push.anchor.set \in BOOLEAN /\ push.start \in 0..now

\* The tags of a connection's two audio tracks are one sequence that never steps
\* back, and a picture is later than the one before: a step back ends the ingest,
\* two equal pictures smear (FlvPush.cpp:760, 1017, tsutil.h).
StampsOrdered ==
    [][push.at \in {"aac", "opus", "video"} /\ active' =>
        /\ sent.audio <= sent'.audio
        /\ videoQueue' # videoQueue /\ push' # push => sent.video < sent'.video]_stampVars

\* However long its writes block, a tag is stamped at most one full queue of its
\* track after the time at which it is written; an audio tag of a connection that
\* finds the queues as the one before has left them may be stamped later.
LeadBounded ==
    sent.ahead <= IF sent.track = "video" THEN VideoSize ELSE OpusSize + Window

----------------------------------------------------------------------------
(* What the comments promise and the code does not keep. *)

\* FlvPush.cpp:656: stamps are "never ahead of write time".
NeverAhead == sent.track = "aac" => sent.ahead <= 0
=============================================================================
