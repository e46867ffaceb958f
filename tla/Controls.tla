------------------------------ MODULE Controls ------------------------------
(***************************************************************************)
(* From the controller's settings objects and the camera's own settings    *)
(* page to what mediad, the encoder daemon, shows: the mapping of fields   *)
(* to controls, the per-category deltas, pinned keys and keys the daemon   *)
(* does not take (src/goclient/mediad_ctl.go, webui.go; main.go hands the  *)
(* objects over).  Objects are handled one at a time by a daemon that      *)
(* answers: what happens when they overlap or it does not is MediadDelta's *)
(* subject.                                                                *)
(***************************************************************************)
EXTENDS Integers

CONSTANTS
    MaxObjects,     \* bound: settings objects
    MaxConnects,    \* bound: reconnects
    MaxRestarts,    \* bound: restarts of the daemon
    MaxPins         \* bound: values saved on the page

VARIABLES
    encoder,        \* mediad: the values it holds, and the pinned keys
    refuses,        \* mediad's answer to a set of a pinned key: an error, or ok
    known,          \* mediadDelta.last, over the three categories
    fresh,          \* mediadDelta.seed, pending: per category, how its next object is taken
    locked,         \* mediadLocked
    wanted,         \* per aspect of the picture: what the last object asked for
    unsent,         \* keys whose value the daemon has not been told
    ctlLeft         \* what remains of the bounds

vars == <<encoder, refuses, known, fresh, locked, wanted, unsent, ctlLeft>>

\* TLC's operators on functions, which the provers need in full.
f @@ g == [k \in DOMAIN f \cup DOMAIN g |-> IF k \in DOMAIN f THEN f[k] ELSE g[k]]
k :> v == [i \in {k} |-> v]
NoControls == [k \in {} |-> 0]
Has(obj, field) == field \in DOMAIN obj
Get(obj, field, default) == IF Has(obj, field) THEN obj[field] ELSE default
When(cond, controls) == IF cond THEN controls ELSE NoControls
Bit(b) == IF b THEN 1 ELSE 0
Clamp(v, lo, hi) == IF v < lo THEN lo ELSE IF v > hi THEN hi ELSE v

----------------------------------------------------------------------------
(* The mapping of fields to controls. *)

\* scaleLinear: Protect's 0..100 onto [lo, hi], rounded.
ScaleLinear(v, lo, hi) == Clamp((100 * lo + v * (hi - lo) + 50) \div 100, lo, hi)

Strength(wdr) == IF wdr = 2 THEN 128 ELSE IF wdr = 3 THEN 255 ELSE 0

\* Wrong on purpose: the module is not enabled again once it has been disabled.
MutHdr(wdr) ==
    When(wdr = 0, "pltm" :> 0)
        @@ ("wdr" :> Strength(wdr))

\* HDR is a module to enable and a strength.
Hdr(wdr) ==
    ("pltm" :> Bit(wdr # 0))
        @@ ("wdr" :> Strength(wdr))

\* aeModeToFlicker, and the numeric frequency without an aeMode.
Flicker(obj) ==
    IF Has(obj, "aeMode")
    THEN "flicker" :> IF obj.aeMode = "flick50" THEN 1 ELSE IF obj.aeMode = "flick60" THEN 2
                      ELSE 3
    ELSE When(Has(obj, "frequency"),
              "flicker" :> IF Get(obj, "frequency", 0) \in {1, 2} THEN obj.frequency ELSE 3)

\* ispControlMap; enable3dnr is taken with MEDIAD_3DNR only.
Scaled == {"brightness", "contrast", "hue", "saturation", "denoise"}
IspControlMap(obj) ==
    [k \in Scaled \cap DOMAIN obj |-> ScaleLinear(obj[k], 0, 100)]
        @@ When(Has(obj, "sharpness"), "sharpness" :> ScaleLinear(Get(obj, "sharpness", 0), 0, 10))
        @@ When(Has(obj, "wdr"), Hdr(Get(obj, "wdr", 0)))
        @@ [k \in {"mirror", "flip"} \cap DOMAIN obj |-> Bit(obj[k] # 0)]
        @@ Flicker(obj)

\* customValueToLux: 0..10 onto 1..30, rounded.
CustomValueToLux(v) == Clamp(1 + (v * 29 + 5) \div 10, 1, 30)

\* nightVisionControls.
NightVisionControls(obj) ==
    LET mode == Get(obj, "irLedMode", "")
        level == Get(obj, "irLedLevel", 0)
    IN  When(mode = "manual", "nightvision" :> Bit(level > 0))
            @@ When(mode = "auto", "nightvision" :> 2)
            @@ When(mode = "auto" /\ Get(obj, "icrSwitchMode", "") = "lux",
                    "night_lux" :> CustomValueToLux(Get(obj, "icrCustomValue", 0)))
            @@ When(mode = "auto" /\ (Get(obj, "enableExternalIr", 0) # 0 \/ level = 0),
                    "ir_led" :> 0)

\* osdControlMap: the first of the per-stream objects ("_1", here stream1) stands
\* for all, and is where every switch is looked for, the overlay's as well.
OsdControlMap(obj) ==
    LET src == Get(obj, "stream1", obj)
        Switch(field, key) == When(Has(src, field), key :> Bit(Get(src, field, 0) # 0))
        Scale(field, key) == When(Has(obj, field), key :> Clamp(Get(obj, field, 0), 0, 100))
    IN  Switch("enableOverlay", "osd") @@ Switch("enableDate", "osd_date")
            @@ Switch("enableLogo", "osd_logo") @@ Switch("enableStreamerStatsLevel", "osd_bitrate")
            @@ When(Has(src, "tag"), "osd_name" :> Bit(Get(src, "tag", "") # ""))
            @@ Scale("textScale", "osd_text_scale") @@ Scale("logoScale", "osd_logo_scale")
            @@ When(Has(obj, "overlayColorId"), "osd_color" :> Get(obj, "overlayColorId", 0))

\* shutterControls, videoStreamBitrate and clampBitrate, in kbit/s.
Shutters == [default |-> 0, sport |-> 1, slowShutter |-> 2]
VideoStreamBitrate(obj) ==
    IF Get(obj, "bitRateCbrAvg", 0) > 0 THEN obj.bitRateCbrAvg ELSE Get(obj, "bitRateVbrMax", 0)
VideoControls(obj) ==
    LET mode == Get(obj, "videoMode", "")
        bps == VideoStreamBitrate(obj)
    IN  When(mode \in DOMAIN Shutters, "shutter" :> Shutters[mode])
            @@ When(bps > 0, "bitrate" :> Clamp(bps, 48, 3000))

Categories == {"isp", "vid", "osd"}
ControlMap(cat, obj) ==
    CASE cat = "isp" -> IspControlMap(obj) @@ NightVisionControls(obj)
      [] cat = "vid" -> VideoControls(obj)
      [] cat = "osd" -> OsdControlMap(obj)

----------------------------------------------------------------------------
(* The objects that are sent, and what they ask of the picture. *)

Night == <<[irLedMode |-> "manual", irLedLevel |-> 0], [irLedMode |-> "manual", irLedLevel |-> 215],
           [irLedMode |-> "auto", irLedLevel |-> 0],
           [irLedMode |-> "auto", irLedLevel |-> 1, icrSwitchMode |-> "lux", icrCustomValue |-> 10]>>
Objects ==
    [isp |-> {[wdr |-> 2 * (i % 2)] @@ Night[i] : i \in DOMAIN Night} \cup [denoise : {0, 100}]
                 \cup [aeMode : {"auto"}, frequency : {2}] \cup [frequency : {2}],
     vid |-> [videoMode : {"default", "sport"}, bitRateVbrMax : {9000}],
     osd |-> [enableOverlay : {0}, stream1 : [tag : {"", "name"}]]]

\* What an object asks for, aspect by aspect; of the night: on, off, by itself, or
\* by itself at a level of light.
NightAsked(obj) ==
    IF Get(obj, "irLedMode", "") = "manual" THEN Bit(obj.irLedLevel > 0) - 2
    ELSE IF Get(obj, "icrSwitchMode", "") = "lux" THEN obj.icrCustomValue ELSE -3
LedAsked(obj) == Bit(Get(obj, "irLedLevel", 0) > 0)
FlickerAsked(obj) == IF Has(obj, "aeMode") THEN 3 ELSE Get(obj, "frequency", 0)
ShutterAsked(obj) == Bit(Get(obj, "videoMode", "") = "sport")
NameAsked(obj) == Bit(Get(obj, "stream1", obj).tag # "")
Asks(obj) ==
    When(Has(obj, "wdr"), "hdr" :> Get(obj, "wdr", 0))
        @@ When(Has(obj, "denoise"), "denoise" :> Get(obj, "denoise", 0))
        @@ When(Has(obj, "irLedMode"), "night" :> NightAsked(obj))
        @@ When(Get(obj, "irLedMode", "") = "auto", "led" :> LedAsked(obj))
        @@ When(Has(obj, "aeMode") \/ Has(obj, "frequency"), "flicker" :> FlickerAsked(obj))
        @@ When(Has(obj, "videoMode"), "shutter" :> ShutterAsked(obj))
        @@ When(Has(obj, "stream1"),
                ("name" :> NameAsked(obj)) @@ ("overlay" :> Get(obj, "enableOverlay", 0)))

\* What the daemon shows of an aspect, and by which keys.
KeysOf == [hdr |-> {"pltm", "wdr"}, denoise |-> {"denoise"}, night |-> {"nightvision", "night_lux"},
           led |-> {"ir_led"}, flicker |-> {"flicker"}, shutter |-> {"shutter"},
           name |-> {"osd_name"}, overlay |-> {"osd"}]
Strengths == <<0, 128, 255>>
Shown(val, aspect) ==
    CASE aspect = "hdr" -> IF val["pltm"] = 0 THEN 0 ELSE CHOOSE level \in 1..3 : Strengths[level] = val["wdr"]
      [] aspect = "night" -> IF val["nightvision"] # 2 THEN val["nightvision"] - 2
                             ELSE IF wanted.night = -3 THEN -3
                             ELSE ((val["night_lux"] - 1) * 10) \div 29
      [] aspect = "denoise" -> val["denoise"]
      [] aspect = "led" -> val["ir_led"]
      [] aspect = "flicker" -> val["flicker"]
      [] aspect = "shutter" -> val["shutter"]
      [] aspect = "name" -> val["osd_name"]
      [] aspect = "overlay" -> val["osd"]

\* What a daemon that starts holds: the stock picture.
KeysIn == [isp |-> {"pltm", "wdr", "denoise", "nightvision", "night_lux", "ir_led", "flicker"},
           vid |-> {"shutter", "bitrate"}, osd |-> {"osd", "osd_name"}]
Keys == UNION {KeysIn[c] : c \in Categories}
Stock == [k \in Keys |-> CASE k \in {"pltm", "ir_led", "osd", "osd_name"} -> 1
                           [] k = "nightvision" -> 2 [] k = "night_lux" -> 5
                           [] k = "bitrate" -> 2000 [] k = "flicker" -> 3 [] OTHER -> 0]
PageKeys == {"denoise"}

----------------------------------------------------------------------------

Init ==
    /\ encoder = [val |-> Stock, pins |-> {}]
    /\ refuses \in BOOLEAN
    /\ known = NoControls
    /\ fresh = [c \in Categories |-> "pending"]
    /\ locked = {}
    /\ wanted = NoControls
    /\ unsent = Keys
    /\ ctlLeft = [objects |-> MaxObjects, connects |-> MaxConnects,
                  restarts |-> MaxRestarts, pins |-> MaxPins]

Restrict(f, S) == [k \in DOMAIN f \cap S |-> f[k]]

\* Wrong on purpose: only an object with a key that is not known is sent.
MutChanged(controls) == {k \in DOMAIN controls : k \notin DOMAIN known}
Changed(controls) == {k \in DOMAIN controls : k \notin DOMAIN known \/ known[k] # controls[k]}

\* mediadSet, for each of the controls that goes out: a pinned key keeps its value,
\* and the daemon says ok all the same, or says so and is not asked again.
Done(out) == out \ encoder.pins
Refused(out) == IF refuses THEN out \cap encoder.pins ELSE {}

\* A settings object, through mediadDropLocked, filter and mediadSet: the first
\* of a connection is recorded; one after a reset of the delta is sent whole; of
\* any other what has changed is.
Settings(cat, obj) ==
    /\ ctlLeft.objects > 0
    /\ ctlLeft' = [ctlLeft EXCEPT !.objects = @ - 1]
    /\ LET controls == [k \in DOMAIN ControlMap(cat, obj) \ locked |-> ControlMap(cat, obj)[k]]
           out == CASE fresh[cat] = "seed"    -> {}
                    [] fresh[cat] = "pending" -> DOMAIN controls
                    [] fresh[cat] = "no"      -> Changed(controls)
           seeded == IF fresh[cat] = "seed" THEN DOMAIN controls ELSE {}
       IN  /\ ControlMap(cat, obj) # NoControls
           /\ encoder' = [encoder EXCEPT !.val = Restrict(controls, Done(out)) @@ @]
           /\ locked' = locked \cup Refused(out)
           /\ known' = Restrict(controls, seeded \cup (out \ Refused(out))) @@ known
           /\ unsent' = (unsent \ Done(out))
                            \cup {k \in seeded : encoder.val[k] # controls[k]}
    /\ fresh' = [fresh EXCEPT ![cat] = "no"]
    /\ wanted' = Asks(obj) @@ wanted
    /\ UNCHANGED refuses

\* A reconnect: resetMediadDelta; a full send that is due stays due.
Connect ==
    /\ ctlLeft.connects > 0
    /\ ctlLeft' = [ctlLeft EXCEPT !.connects = @ - 1]
    /\ known' = NoControls
    /\ fresh' = [c \in Categories |-> IF fresh[c] = "pending" THEN "pending" ELSE "seed"]
    /\ UNCHANGED <<encoder, refuses, locked, wanted, unsent>>

\* Wrong on purpose: a daemon that starts anew is not told what is known.
MutTold == {}

\* mediadReapplyKnown: every key that is known and not locked.
Told == DOMAIN known \ locked

\* mediad starts anew with its pins, and is told what is known; the next
\* object of a category of which nothing is known is sent whole.
Restart ==
    /\ ctlLeft.restarts > 0
    /\ ctlLeft' = [ctlLeft EXCEPT !.restarts = @ - 1]
    /\ encoder' = [encoder EXCEPT !.val = Restrict(@, encoder.pins)
                                              @@ Restrict(known, Done(Told)) @@ Stock]
    /\ locked' = locked \cup Refused(Told)
    /\ fresh' = [c \in Categories |-> IF KeysIn[c] \cap DOMAIN known = {} THEN "pending" ELSE fresh[c]]
    /\ unsent' = (Keys \ DOMAIN known) \cup encoder.pins \cup locked
    /\ UNCHANGED <<refuses, known, wanted>>

\* handleWebuiDenoise: "pin key value".
Pin(k, v) ==
    /\ ctlLeft.pins > 0
    /\ ctlLeft' = [ctlLeft EXCEPT !.pins = @ - 1]
    /\ encoder' = [val |-> [encoder.val EXCEPT ![k] = v], pins |-> encoder.pins \cup {k}]
    /\ unsent' = unsent \cup {k}
    /\ UNCHANGED <<refuses, known, fresh, locked, wanted>>

\* handleWebuiUnpin, "Let Protect control": the daemon keeps the value.
Unpin(k) ==
    /\ k \in encoder.pins
    /\ encoder' = [encoder EXCEPT !.pins = @ \ {k}]
    /\ UNCHANGED <<refuses, known, fresh, locked, wanted, unsent, ctlLeft>>

Next ==
    \/ \E cat \in Categories : \E obj \in Objects[cat] : Settings(cat, obj)
    \/ Connect
    \/ Restart
    \/ \E k \in PageKeys : Pin(k, 50) \/ Unpin(k)

Spec == Init /\ [][Next]_vars

----------------------------------------------------------------------------
(* Properties. *)

\* The daemon and the client hold values that exist.
TypeOK ==
    /\ DOMAIN encoder.val = Keys /\ encoder.pins \subseteq PageKeys
    /\ DOMAIN known \subseteq Keys /\ locked \subseteq Keys
    /\ fresh \in [Categories -> {"seed", "pending", "no"}]
    /\ DOMAIN wanted \subseteq DOMAIN KeysOf

Follows(aspects) ==
    \A a \in aspects \cap DOMAIN wanted :
        KeysOf[a] \cap unsent = {} => Shown(encoder.val, a) = wanted[a]

\* The picture is the one the last settings object that speaks of it asked for,
\* aspect by aspect, through any sequence of whole and partial objects, repeats,
\* reconnects, restarts of the daemon and pins, but for values that are recorded
\* unsent on purpose: the fields' mapping and the per-key delta together lose no
\* change (ispControlMap, nightVisionControls, mediadApplyControls).
PictureFollows == Follows({"hdr", "night", "denoise", "flicker", "shutter", "name"})

----------------------------------------------------------------------------
(* What the comments promise and the code does not keep. *)

\* mediad_ctl.go:651, "filter only, no LED": the LED is off while the last
\* object wants it off, and no longer.
LedFollows == Follows({"led"})

\* mediad_ctl.go:583: "enableOverlay is the top-level master switch".
OverlayFollows ==
    "overlay" \in DOMAIN wanted /\ fresh["osd"] = "no" /\ "osd_name" \notin unsent
        => Shown(encoder.val, "overlay") = wanted.overlay

\* webui.go:224, "Protect now controls this setting": once a key is handed back
\* and Protect has sent it again, the daemon holds what Protect sent.
UnpinHandsBack ==
    [][\A cat \in Categories, obj \in Objects.isp :
           "denoise" \in DOMAIN obj /\ encoder.pins = {} /\ fresh["isp"] = "no" /\ Settings("isp", obj)
               => encoder'.val["denoise"] = obj.denoise]_vars
=============================================================================
