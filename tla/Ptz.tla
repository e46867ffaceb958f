--------------------------------- MODULE Ptz ---------------------------------
(***************************************************************************)
(* The motor and its presets (src/goclient/ptz.go): a relative move runs   *)
(* in a goroutine of its own that stops the motor 300 ms later, whatever   *)
(* else has moved it meanwhile; the client keeps the slots of the firmware *)
(* in a file, because ipc_cmd does not say which slot it picked.           *)
(***************************************************************************)
EXTENDS Naturals, FiniteSets

CONSTANTS
    Moves,          \* slots for goroutines of relative moves
    Slots,          \* preset slots, 0..7
    Names,          \* names of presets
    Indexed,        \* whether a "set" may name the slot of an existing preset
    None,           \* no preset, no coordinates
    MaxCommands     \* bound: commands of the controller

VARIABLES
    motor,          \* whether it turns
    held,           \* the last continuous move was not a stop
    move,           \* goroutines of relative moves
    preset,         \* what the firmware holds in its slots: preset ids
    conf,           \* ptz_presets.conf: preset id and coordinates per slot
    left            \* commands still to come

vars == <<motor, held, move, preset, conf, left>>

Empty == [name |-> None, at |-> None]

Init ==
    /\ motor = FALSE /\ held = FALSE
    /\ move = [m \in Moves |-> "idle"]
    /\ preset = [s \in Slots |-> None]
    /\ conf = [s \in Slots |-> Empty]
    /\ left = MaxCommands

Command == left > 0 /\ left' = left - 1

----------------------------------------------------------------------------
(* Moves. *)

\* handleContinuousMove: a direction, or a stop for the vector (0, 0).
ContinuousMove(turn) ==
    /\ Command
    /\ motor' = turn /\ held' = turn
    /\ UNCHANGED <<move, preset, conf>>

\* handleRelativePosition outside its dead band.
RelativePosition(m) ==
    /\ Command
    /\ move[m] = "idle"
    /\ move' = [move EXCEPT ![m] = "go"]
    /\ UNCHANGED <<motor, held, preset, conf>>

\* Wrong on purpose: a goroutine that finds the motor turning leaves it to the
\* others to stop it.
MutRelativeStops(m) ==
    /\ move[m] = "stop"
    /\ motor' = (motor /\ \E n \in Moves \ {m} : move[n] # "idle")
    /\ move' = [n \in Moves |-> IF n = m \/ move[n] = "stop" THEN "idle" ELSE move[n]]
    /\ UNCHANGED <<held, preset, conf, left>>

RelativeGoes(m) ==
    /\ move[m] = "go"
    /\ motor' = TRUE
    /\ move' = [move EXCEPT ![m] = "stop"]
    /\ UNCHANGED <<held, preset, conf, left>>

RelativeStops(m) ==
    /\ move[m] = "stop"
    /\ motor' = FALSE
    /\ move' = [move EXCEPT ![m] = "idle"]
    /\ UNCHANGED <<held, preset, conf, left>>

----------------------------------------------------------------------------
(* Presets.  The firmware takes the lowest free slot, as ptz_presets.sh does. *)

EmptySlots(slots) == {s \in Slots : slots[s].name = None}
\* Wrong on purpose: the highest free slot.
MutFirstAvailable(slots) ==
    CHOOSE s \in EmptySlots(slots) : \A r \in EmptySlots(slots) : s >= r
FirstAvailable(slots) == CHOOSE s \in EmptySlots(slots) : \A r \in EmptySlots(slots) : s <= r

\* ptzPresetSlots and ptzWritePresetSlot: the names are read, one slot is changed
\* and all are written, without the coordinates that were read along with them.
Rewritten(slot, entry) ==
    [s \in Slots |-> IF s = slot THEN entry ELSE [conf[s] EXCEPT !.at = None]]

SlotFor(index) == IF index \in Slots /\ conf[index].name # None
                  THEN index ELSE FirstAvailable(conf)

\* "set": ipc_cmd -P stores the position, then the file follows.  With no slot free in
\* the file, or none in the firmware, nothing is written.
PresetSet(name, index) ==
    /\ Command
    /\ EmptySlots(conf) # {} \/ (index \in Slots /\ conf[index].name # None)
    /\ \E s \in Slots :
        /\ preset[s] = None /\ \A r \in Slots : r < s => preset[r] # None
        /\ preset' = [preset EXCEPT ![s] = name]
    /\ conf' = Rewritten(SlotFor(index), [name |-> name, at |-> name])
    /\ UNCHANGED <<motor, held, move>>

\* "delete": ipc_cmd -R, then the file.
PresetDelete(index) ==
    /\ Command
    /\ preset' = [preset EXCEPT ![index] = None]
    /\ conf' = Rewritten(index, Empty)
    /\ UNCHANGED <<motor, held, move>>

MoveStep(m) == RelativeGoes(m) \/ RelativeStops(m)

Next ==
    \/ \E turn \in BOOLEAN : ContinuousMove(turn)
    \/ \E m \in Moves : RelativePosition(m) \/ MoveStep(m)
    \/ \E name \in Names, index \in (IF Indexed THEN Slots ELSE {}) \cup {None} :
            PresetSet(name, index)
    \/ \E index \in Slots : PresetDelete(index)

----------------------------------------------------------------------------
(* Properties. *)

\* Every variable holds a value the code can put there.
TypeOK ==
    /\ motor \in BOOLEAN /\ held \in BOOLEAN
    /\ move \in [Moves -> {"idle", "go", "stop"}]
    /\ preset \in [Slots -> Names \cup {None}]
    /\ conf \in [Slots -> [name : Names \cup {None}, at : Names \cup {None}]]

\* The motor never turns for ever by itself: either a continuous move is being held,
\* or a goroutine is still going to stop it, however moves and stops overlap.
NoRunaway == motor => held \/ \E m \in Moves : move[m] = "stop"

\* ptz.go:149, "ipc_cmd -P can't report which slot it picked, so we mirror it": the
\* file names in every slot the preset that the firmware has there.
SlotsMirrored == \A s \in Slots : conf[s].name = preset[s]

\* The camera is where the client's bookkeeping has it, its motor and its presets.
AsBooked == NoRunaway /\ SlotsMirrored

\* ptz.go:189, "keeping our bookkeeping in sync with the stock script's file format":
\* setting or clearing a slot leaves the coordinates of the others.
OthersKept ==
    [][Cardinality({s \in Slots : conf'[s] # conf[s]}) <= 1]_vars
==============================================================================
