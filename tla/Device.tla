------------------------------- MODULE Device -------------------------------
(***************************************************************************)
(* The small machines of the bridge and the client that share no state     *)
(* with one another: the bridge's self-healing exit (Starvation, which     *)
(* this module extends), ring reader, time stamps and sequence headers, and the client's motion events,   *)
(* night vision, motor, snapshots, clock and encoder controls.  Each is independent  *)
(* of the others, so a behaviour of this module is a behaviour of one of   *)
(* them, chosen at the start, with the others at rest.                     *)
(***************************************************************************)
EXTENDS Starvation, Integers, Sequences, FiniteSets

CONSTANTS
    MaxConns, MaxMessages, MaxMotionFails,
    ExternalIr, MaxSettings,
    Moves, Slots, Names, Indexed, None, MaxCommands,
    Requests, Nobody, Resolutions, MinTimeout, MaxTimeout, Granted, CacheTTL, MaxClock,
    Delays, MaxError, MaxSamples, MaxDrifts, MaxClockFails,
    MaxObjects, MaxConnects, MaxRestarts, MaxPins,
    Size, Batch, Lengths, MaxFrames, MaxResyncs, Mishaps,
    Window, Interval, AudioSize, OpusSize, VideoSize, Late, Dropout, MaxStampTime, MaxBlocks, MaxStampConns,
    Geometries, MaxPictures, MaxQueue, MaxEncoders, MaxCodecs, MaxMuxers

\* Delays are times, slots are numbers and neither they nor names are nothing, a
\* request's deadline lies between its limits, and connections can be counted.
ASSUME ClockAssumption == Delays \subseteq Nat /\ MaxError \in Nat
ASSUME PresetAssumption == Slots \subseteq Nat /\ None \notin Slots \cup Names
ASSUME LightAssumption == ExternalIr \subseteq BOOLEAN
ASSUME RequestAssumption ==
    /\ IsFiniteSet(Requests) /\ Nobody \notin Requests
    /\ MinTimeout \in Nat /\ MaxTimeout \in Nat /\ MinTimeout <= MaxTimeout /\ MaxClock \in Nat
ASSUME ConnectionAssumption == MaxConns \in Nat
\* The ring holds the frames that are written to it, a batch a frame at least.
ASSUME RingAssumption ==
    /\ Size \in Nat \ {0} /\ Batch \in Nat \ {0} /\ MaxFrames \in Nat
    /\ Lengths \subseteq 1..(Size - 1)
\* Queues have room, packets follow one another.
ASSUME StampAssumption ==
    /\ Window \in Nat \ {0} /\ Interval \in Nat \ {0}
    /\ AudioSize \in Nat \ {0} /\ OpusSize \in Nat \ {0} /\ VideoSize \in Nat \ {0}
    /\ Late \in Nat /\ Dropout \in Nat /\ MaxStampTime \in Nat

VARIABLES
    component,                                                  \* the one that runs
    queue, live, st, watcher, failsafe, sent, motionLeft,       \* Motion
    mode, handler, poller, hardware, asked, mixed, luxLeft,     \* Lux
    motor, held, move, preset, conf, ptzLeft,                   \* Ptz
    clock, grab, request, cache,                                \* Snapshot
    error, clockSynced, pendingOffset, late, good, clockLeft,   \* TimeSync
    encoder, refuses, known, fresh, locked, wanted, unsent, ctlLeft,                    \* Controls
    ring, frames, fields, deposited, reader, emitted, lost, resyncsLeft,                \* RingReader
    time, due, linked, audioQueue, opusQueue, videoQueue, push, stamps, blocked,
    connsLeft, blocksLeft,                                                              \* Stamps
    source, codec, cached, muxing, pictures, nals, local, header, picture, keyed, misread, setsLeft  \* ParameterSets

\* A clock may lose time between two samples, or gain some.
Drifts == {-9, 7}

Motion == INSTANCE Motion WITH MaxFails <- MaxMotionFails, left <- motionLeft
Lux == INSTANCE Lux WITH left <- luxLeft
Ptz == INSTANCE Ptz WITH left <- ptzLeft
Snapshot == INSTANCE Snapshot WITH now <- clock, MaxTime <- MaxClock
Controls == INSTANCE Controls
RingReader == INSTANCE RingReader
Stamps == INSTANCE Stamps WITH now <- time, active <- linked, sent <- stamps,
                               MaxTime <- MaxStampTime, MaxConns <- MaxStampConns
ParameterSets == INSTANCE ParameterSets WITH encoder <- source, active <- muxing, queue <- pictures,
                                             left <- setsLeft, MaxFrames <- MaxPictures, MaxConns <- MaxMuxers
\* A NAL unit is something.
ASSUME SetsAssumption ==
    \A k \in ParameterSets!SetKinds, e \in ParameterSets!Encoders : ParameterSets!SetOf(k, e) # None
TimeSync == INSTANCE TimeSync WITH left <- clockLeft, MaxFails <- MaxClockFails

Components == {"starvation", "motion", "lux", "ptz", "snapshot", "timesync", "controls", "ring",
               "stamps", "sets"}
motionVars == <<queue, live, st, watcher, failsafe, sent, motionLeft>>
luxVars == <<mode, handler, poller, hardware, asked, mixed, luxLeft>>
ptzVars == <<motor, held, move, preset, conf, ptzLeft>>
snapshotVars == <<clock, grab, request, cache>>
clockVars == <<error, clockSynced, pendingOffset, late, good, clockLeft>>
ctlVars == <<encoder, refuses, known, fresh, locked, wanted, unsent, ctlLeft>>
ringVars == <<ring, frames, fields, deposited, reader, emitted, lost, resyncsLeft>>
stampVars == <<time, due, linked, audioQueue, opusQueue, videoQueue, push, stamps, blocked,
               connsLeft, blocksLeft>>
setVars == <<source, codec, cached, muxing, pictures, nals, local, header, picture, keyed, misread, setsLeft>>
muxVars == <<stampVars, setVars>>
deviceVars ==
    <<component, vars, motionVars, luxVars, ptzVars, snapshotVars, clockVars, ctlVars, ringVars, muxVars>>

DeviceInit ==
    /\ component \in Components
    /\ Init /\ Motion!Init /\ Ptz!Init /\ Snapshot!Init
    /\ Lux!Init /\ (component # "lux" => ~hardware.filter /\ ~hardware.led)
    /\ TimeSync!Init /\ (component # "timesync" => error = 0)
    /\ Controls!Init /\ (component # "controls" => ~refuses)
    /\ RingReader!Init
    /\ Stamps!Init
    /\ ParameterSets!Init /\ (component # "sets" => source.of = CHOOSE e \in ParameterSets!Encoders : TRUE)

DeviceNext ==
    /\ UNCHANGED component
    /\ \/ /\ component = "starvation" /\ Next
          /\ UNCHANGED <<motionVars, luxVars, ptzVars, snapshotVars, clockVars, ctlVars, ringVars, muxVars>>
       \/ /\ component = "motion" /\ Motion!Next
          /\ UNCHANGED <<vars, luxVars, ptzVars, snapshotVars, clockVars, ctlVars, ringVars, muxVars>>
       \/ /\ component = "lux" /\ Lux!Next
          /\ UNCHANGED <<vars, motionVars, ptzVars, snapshotVars, clockVars, ctlVars, ringVars, muxVars>>
       \/ /\ component = "ptz" /\ Ptz!Next
          /\ UNCHANGED <<vars, motionVars, luxVars, snapshotVars, clockVars, ctlVars, ringVars, muxVars>>
       \/ /\ component = "snapshot" /\ Snapshot!Next
          /\ UNCHANGED <<vars, motionVars, luxVars, ptzVars, clockVars, ctlVars, ringVars, muxVars>>
       \/ /\ component = "timesync" /\ TimeSync!Next
          /\ UNCHANGED <<vars, motionVars, luxVars, ptzVars, snapshotVars, ctlVars, ringVars, muxVars>>
       \/ /\ component = "controls" /\ Controls!Next
          /\ UNCHANGED <<vars, motionVars, luxVars, ptzVars, snapshotVars, clockVars, ringVars, muxVars>>
       \/ /\ component = "ring" /\ RingReader!Next
          /\ UNCHANGED <<vars, motionVars, luxVars, ptzVars, snapshotVars, clockVars, ctlVars, muxVars>>
       \/ /\ component = "stamps" /\ Stamps!Next
          /\ UNCHANGED <<vars, motionVars, luxVars, ptzVars, snapshotVars, clockVars, ctlVars, ringVars, setVars>>
       \/ /\ component = "sets" /\ ParameterSets!Next
          /\ UNCHANGED <<vars, motionVars, luxVars, ptzVars, snapshotVars, clockVars, ctlVars, ringVars, stampVars>>

DeviceSpec == DeviceInit /\ [][DeviceNext]_deviceVars

\* A step of the motion component.
MotionStep(A) ==
    /\ component = "motion" /\ A
    /\ UNCHANGED <<component, vars, luxVars, ptzVars, snapshotVars, clockVars, ctlVars, ringVars, muxVars>>

\* Goroutines run, and five minutes pass.
DeviceFairness ==
    \A c \in 1..MaxConns :
        /\ WF_deviceVars(MotionStep(Motion!WatcherStep(c)))
        /\ WF_deviceVars(MotionStep(Motion!FailsafeStep(c)))
        /\ WF_deviceVars(MotionStep(Motion!EventAges(c)))

FairDeviceSpec == DeviceSpec /\ DeviceFairness

----------------------------------------------------------------------------
(* The components' properties; their modules say what they mean. *)

\* Every variable of every component holds a value the code can put there.
DeviceTypeOK ==
    /\ TypeOK /\ Motion!TypeOK /\ Lux!TypeOK /\ Ptz!TypeOK /\ Snapshot!TypeOK /\ TimeSync!TypeOK
    /\ Controls!TypeOK /\ RingReader!TypeOK /\ Stamps!TypeOK /\ ParameterSets!TypeOK

\* motion_mq.go: no event is started or stopped twice, or stopped unstarted.
EventPaired == Motion!EventPaired
\* motion_mq.go: an event the controller has seen start is stopped.
EventStopped == Motion!EventStopped
\* lux.go: the hardware is where the light sensor's poller believes it is.
LuxApplied == Lux!LuxApplied
\* ptz.go: the motor does not turn for ever, the client's file names the presets.
AsBooked == Ptz!AsBooked
\* main.go: a snapshot request is answered once those before it are.
AnsweredInTurn == Snapshot!AnsweredInTurn
\* mediad_ctl.go: the picture is the one that was asked for.
PictureFollows == Controls!PictureFollows
\* FshareReader.cpp: frames come whole, in order, once, and none is left out.
FramesWholeInOrder == RingReader!FramesWholeInOrder
\* FlvPush.cpp: a tag is stamped at most a full queue after the time it is written.
LeadBounded == Stamps!LeadBounded
\* FlvPush.cpp: the stamps of the audio tags never step back, pictures' are distinct.
StampsOrdered == Stamps!StampsOrdered
\* FlvPush.cpp: pictures follow the sequence header of their own parameter sets.
HeaderInForce == ParameterSets!HeaderInForce
\* timesync.go: a clock that has been set right is not set wrong by old messages.
AccurateStays == TimeSync!AccurateStays

\* motion_mq.go: the failsafe stops no event younger than five minutes.
FailsafeStopsOldOnly == Motion!FailsafeStopsOldOnly
\* motion_mq.go: no stop reaches the controller before its start.
StopFollowsStart == Motion!StopFollowsStart
\* main.go: nothing changes the hardware after a manual setting.
ManualPrevails == Lux!ManualPrevails
\* ptz.go: writing one slot leaves the others' coordinates.
OthersKept == Ptz!OthersKept
\* main.go: a snapshot request is answered before the controller gives up.
AnsweredBeforeDeadline == Snapshot!AnsweredBeforeDeadline
\* ptz.go: the client's file names the presets, which it reads back by an index.
SlotsMirrored == Ptz!SlotsMirrored
\* mediad_ctl.go: the LED is off while the controller wants it off, and no longer.
LedFollows == Controls!LedFollows
\* mediad_ctl.go: the overlay's master switch reaches the encoder.
OverlayFollows == Controls!OverlayFollows
\* webui.go: a setting that is handed back is Protect's again.
UnpinHandsBack == Controls!UnpinHandsBack
\* FshareReader.cpp: sync is lost to a lap or a garbage header only.
SyncKept == RingReader!SyncKept
\* FshareReader.cpp: the reader starts where a frame starts.
SeededAtBoundary == RingReader!SeededAtBoundary
\* FlvPush.cpp: an AAC tag is not stamped ahead of the time it is written.
NeverAhead == Stamps!NeverAhead
\* FlvPush.cpp: the header goes out anew when it has to.
HeaderResent == ParameterSets!HeaderResent
\* FlvPush.cpp: a connection's first pictures are those of the cached sets.
CachedHeaderFits == ParameterSets!CachedHeaderFits
=============================================================================
