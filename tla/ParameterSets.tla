---------------------------- MODULE ParameterSets ----------------------------
(***************************************************************************)
(* One channel's sequence headers: pushThreadMain of                       *)
(* src/flv_bridge/FlvPush.cpp collects the parameter sets of the stream,   *)
(* keeps them for the next connection and sends a header made of them,     *)
(* while the encoder is restarted with other geometry or another codec,    *)
(* CODEC commands change how NAL units are read, and connections come and  *)
(* go.  A ring frame is a picture, preceded by its parameter sets if it is *)
(* a keyframe; a connection may begin at any of them.                      *)
(***************************************************************************)
EXTENDS Naturals, Sequences

CONSTANTS
    Geometries,     \* what the encoder may be restarted with
    None,           \* no parameter set, no header
    MaxFrames,      \* bound: ring frames
    MaxQueue,       \* bound: ring frames that wait for the push thread
    MaxEncoders,    \* bound: restarts of the encoder
    MaxCodecs,      \* bound: CODEC commands
    MaxConns        \* bound: connections

VARIABLES
    encoder,        \* its codec and geometry, and whether its next frame is a keyframe
    codec,          \* g_channelCodec
    cached,         \* ChannelState: cachedVps, cachedSps, cachedPps, haveCachedSpsPps
    active,         \* a push thread runs
    queue,          \* flvQueue, as what produced each frame and whether it is a keyframe
    nals,           \* the NAL units of the frame at hand that are still to be muxed
    local,          \* the thread's sets, haveVps, haveSps, havePps, sentSeqHeader
    header,         \* the last sequence header of the connection
    picture,        \* the last picture sent on it: what produced it, and how it was labelled
    keyed,          \* whose keyframe was muxed last, and whether it was all its codec's way
    misread,        \* a header of the connection was made of the other codec's sets
    left            \* what remains of the bounds

setVars == <<encoder, codec, cached, active, queue, nals, local, header, picture, keyed, misread, left>>

Codecs == {"h264", "h265"}
Encoders == [codec : Codecs, geometry : Geometries]

\* The sets of a stream: geometry is in its SPS.
SetOf(kind, e) == <<kind, e.codec, IF kind = "sps" THEN e.geometry ELSE "any">>

\* splitAnnexB of a ring frame.
Keyframe(e) == (IF e.codec = "h265" THEN <<SetOf("vps", e)>> ELSE <<>>)
               \o <<SetOf("sps", e), SetOf("pps", e), <<"idr", e.codec, e.geometry>>>>
Nals(f) == IF f.key THEN Keyframe(f.of) ELSE <<<<"slice", f.of.codec, f.of.geometry>>>>

NoSets == [vps |-> None, sps |-> None, pps |-> None]
Fresh == [sets |-> NoSets, have |-> {}, sentSeqHeader |-> FALSE]

Init ==
    /\ encoder \in [of : Encoders, key : {TRUE}]
    /\ codec = "h264"
    /\ cached = [sets |-> NoSets, haveSpsPps |-> FALSE]
    /\ active = FALSE /\ queue = <<>> /\ nals = <<>>
    /\ local = Fresh /\ header = None /\ picture = None
    /\ keyed = None /\ misread = FALSE
    /\ left = [frames |-> MaxFrames, encoders |-> MaxEncoders, codecs |-> MaxCodecs, conns |-> MaxConns]

----------------------------------------------------------------------------
(* The encoder, the ring reader, the control thread. *)

\* A ring frame; whatever the encoder likes is a keyframe, its first one is.
Produce(key) ==
    /\ left.frames > 0 /\ Len(queue) < MaxQueue
    /\ encoder.key => key
    /\ queue' = IF active THEN Append(queue, [of |-> encoder.of, key |-> key]) ELSE queue
    /\ encoder' = [encoder EXCEPT !.key = FALSE]
    /\ left' = [left EXCEPT !.frames = @ - 1]
    /\ UNCHANGED <<codec, cached, active, nals, local, header, picture, keyed, misread>>

\* mediad restarts, or is told another codec.
EncoderRestarts(e) ==
    /\ left.encoders > 0 /\ e # encoder.of
    /\ encoder' = [of |-> e, key |-> TRUE]
    /\ left' = [left EXCEPT !.encoders = @ - 1]
    /\ UNCHANGED <<codec, cached, active, queue, nals, local, header, picture, keyed, misread>>

\* flvPushSetChannelCodec: nothing but the variable changes.
SetChannelCodec(c) ==
    /\ left.codecs > 0 /\ c # codec
    /\ codec' = c
    /\ keyed' = None
    /\ left' = [left EXCEPT !.codecs = @ - 1]
    /\ UNCHANGED <<encoder, cached, active, queue, nals, local, header, picture, misread>>

----------------------------------------------------------------------------
(* The push thread. *)

HeaderOf(label, sets) ==
    [codec |-> label, sets |-> IF label = "h265" THEN sets ELSE [sets EXCEPT !.vps = None]]

\* Made of a set that is no such set of that codec.
Foreign(h) == \E k \in {"vps", "sps", "pps"} : h.sets[k] # None /\ ~(h.sets[k][1] = k /\ h.sets[k][2] = h.codec)

Needed(label) == IF label = "h265" THEN {"vps", "sps", "pps"} ELSE {"sps", "pps"}

\* The initial write: the header of the cached sets, if there are enough of them.
ConnStart ==
    /\ ~active /\ left.conns > 0
    /\ LET haveVps == cached.sets.vps # None
           sets == [vps |-> cached.sets.vps,
                    sps |-> IF cached.haveSpsPps THEN cached.sets.sps ELSE None,
                    pps |-> IF cached.haveSpsPps THEN cached.sets.pps ELSE None]
           enough == cached.haveSpsPps /\ (codec = "h265" => haveVps)
           h == HeaderOf(codec, sets)
       IN  /\ local' = [sets |-> sets, have |-> IF enough THEN Needed(codec) ELSE {},
                        sentSeqHeader |-> enough]
           /\ header' = IF enough THEN h ELSE None
           /\ misread' = (enough /\ Foreign(h))
    /\ active' = TRUE /\ picture' = None /\ keyed' = None /\ nals' = <<>>
    /\ left' = [left EXCEPT !.conns = @ - 1]
    /\ UNCHANGED <<encoder, codec, cached, queue>>

\* The connection ends; what is queued stays queued.
ConnEnds ==
    /\ active
    /\ active' = FALSE /\ nals' = <<>> /\ local' = Fresh
    /\ header' = None /\ picture' = None /\ keyed' = None /\ misread' = FALSE
    /\ UNCHANGED <<encoder, codec, cached, queue, left>>

Pop ==
    /\ active /\ nals = <<>> /\ queue # <<>>
    /\ nals' = Nals(Head(queue))
    /\ queue' = Tail(queue)
    /\ UNCHANGED <<encoder, codec, cached, active, local, header, picture, keyed, misread, left>>

\* What a NAL unit is taken for: its own codec's masks are right.  Those of H.265
\* take an H.264 slice (0x41) for a VPS, those of H.264 an H.265 IDR_N_LP (0x28)
\* for a PPS; nothing else is taken for a set or an IDR.
KindOf(nal, label) ==
    IF nal[2] = label THEN nal[1]
    ELSE CASE nal[1] = "slice" /\ label = "h265" -> "vps"
           [] nal[1] = "idr" /\ label = "h264" -> "pps"
           [] OTHER -> "slice"

\* Wrong on purpose: a set that has changed is kept, the header is not sent anew.
MutWithSet(l, kind, nal) ==
    [l EXCEPT !.sets = [@ EXCEPT ![kind] = nal], !.have = @ \cup {kind}]

\* A parameter set that differs from the one the thread has makes it send its
\* header anew; the first of its kind does not.
WithSet(l, kind, nal) ==
    [sets |-> [l.sets EXCEPT ![kind] = nal], have |-> l.have \cup {kind},
     sentSeqHeader |-> l.sentSeqHeader /\ ~(kind \in l.have /\ l.sets[kind] # nal)]

CacheSet(kind, nal, have) ==
    [sets |-> [cached.sets EXCEPT ![kind] = nal],
     haveSpsPps |-> CASE kind = "sps" -> "pps" \in have
                      [] kind = "pps" -> "sps" \in have
                      [] OTHER -> cached.haveSpsPps]

\* The header if it is due, and the NAL unit, but for an H.264 set, which the
\* header alone carries.
Emit(l, nal, inline) ==
    LET ready == l.sentSeqHeader \/ Needed(codec) \subseteq l.have
        h == HeaderOf(codec, l.sets)
    IN  IF ~inline \/ ~ready
        THEN local' = l /\ UNCHANGED <<header, picture, misread>>
        ELSE /\ local' = [l EXCEPT !.sentSeqHeader = TRUE]
             /\ header' = IF l.sentSeqHeader THEN header ELSE h
             /\ misread' = (misread \/ (~l.sentSeqHeader /\ Foreign(h)))
             /\ picture' = IF nal[1] \in {"idr", "slice"}
                           THEN [of |-> [codec |-> nal[2], geometry |-> nal[3]], codec |-> codec]
                           ELSE picture

\* A keyframe counts if all its NAL units were read under its own codec.
Keyed(nal) ==
    IF nal[2] # codec THEN None
    ELSE IF Len(nals) = Len(Keyframe([codec |-> codec, geometry |-> "any"])) THEN [of |-> None, whole |-> FALSE]
    ELSE IF nal[1] = "idr" /\ keyed # None
         THEN [of |-> [codec |-> nal[2], geometry |-> nal[3]], whole |-> TRUE]
    ELSE keyed

\* One NAL unit of the frame, read as the channel's codec says at that moment.
Mux ==
    /\ active /\ nals # <<>>
    /\ LET nal == Head(nals)
           kind == KindOf(nal, codec)
           isSet == kind \in Needed(codec)
           l == IF isSet THEN WithSet(local, kind, nal) ELSE local
       IN  /\ cached' = IF isSet THEN CacheSet(kind, nal, l.have) ELSE cached
           /\ Emit(l, nal, ~isSet \/ codec = "h265")
           /\ keyed' = Keyed(nal)
    /\ nals' = Tail(nals)
    /\ UNCHANGED <<encoder, codec, active, queue, left>>

Next ==
    \/ \E key \in BOOLEAN : Produce(key)
    \/ \E e \in Encoders : EncoderRestarts(e)
    \/ \E c \in Codecs : SetChannelCodec(c)
    \/ ConnStart \/ ConnEnds \/ Pop \/ Mux

Spec == Init /\ [][Next]_setVars

----------------------------------------------------------------------------

SetKinds == {"vps", "sps", "pps"}

TypeOK ==
    /\ encoder.of \in Encoders /\ codec \in Codecs
    /\ active \in BOOLEAN /\ Len(queue) <= MaxQueue /\ Len(nals) <= 4
    /\ local.have \subseteq SetKinds /\ \A k \in local.have : local.sets[k] # None
    /\ cached.haveSpsPps => cached.sets.sps # None /\ cached.sets.pps # None
    /\ misread \in BOOLEAN

HeaderFor(e) == HeaderOf(e.codec, [k \in SetKinds |-> SetOf(k, e)])
Decodable == header = HeaderFor(picture.of) /\ picture.codec = picture.of.codec
KeyedPicture == picture # None /\ keyed # None /\ keyed.whole /\ picture.of = keyed.of

\* FlvPush.cpp:952: once a keyframe has gone out, it and the pictures that follow
\* it from the same encoder are sent under the header of their own parameter sets,
\* whatever was cached, however encoder and codec have changed before; unless a
\* header was made of sets of the other codec (see HeaderResent).
HeaderInForce == KeyedPicture /\ ~misread => Decodable

----------------------------------------------------------------------------
(* What the comments promise and the code does not keep. *)

\* FlvPush.cpp:952, a changed parameter set "re-sends the sequence header; else the
\* controller keeps decoding with the old one".
HeaderResent == KeyedPicture => Decodable

\* FlvPush.cpp:726, parameter sets "cached from a prior connection" go out first:
\* they are those of the pictures that follow.
CachedHeaderFits == picture # None /\ ~misread => Decodable
=============================================================================
