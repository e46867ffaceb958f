--------------------------------- MODULE Lux ---------------------------------
(***************************************************************************)
(* Night vision with the stock encoder: the handler of ChangeIspSettings   *)
(* (src/goclient/main.go) and the light sensor's poller (lux.go) both      *)
(* drive the IR-cut filter and the LED.  The mutex protects the mode, not  *)
(* the commands that follow from it.                                       *)
(***************************************************************************)
EXTENDS Naturals, Sequences

CONSTANTS
    ExternalIr,     \* the values enableExternalIr may have
    MaxSettings     \* bound: settings messages

VARIABLES
    mode,           \* icrLuxEnabled, slider in range, icrLuxExtOnly, icrLuxNeedSync
    handler,        \* commands the settings handler has still to run
    poller,         \* runIcrLuxPoller: program counter, locals, commands to run
    hardware,       \* IR-cut filter and LED array: set for the night
    asked,          \* what the last settings message was about
    mixed,          \* icrLuxExtOnly has been set
    left            \* settings messages still to come

vars == <<mode, handler, poller, hardware, asked, mixed, left>>

\* debounceCount
Debounce == 3

Init ==
    /\ mode = [enabled |-> FALSE, usable |-> FALSE, ext |-> FALSE, sync |-> FALSE]
    /\ handler = <<>>
    /\ poller = [pc |-> "none", night |-> FALSE, cross |-> 0, todo |-> <<>>]
    /\ hardware \in [filter : BOOLEAN, led : BOOLEAN]
    /\ asked = "none" /\ mixed = FALSE
    /\ left = MaxSettings

\* One cpld_ctl: "ircut out" and "led 100" for the night, "ircut in" and "led 0" for the day.
Command(part, night) == [part |-> part, night |-> night]

\* The order in which both goroutines switch, with or without the LED.
Switch(night, ext) ==
    LET led == IF ext THEN <<>> ELSE <<Command("led", night)>>
        filter == <<Command("filter", night)>>
    IN  IF night THEN filter \o led ELSE led \o filter

Run(cmd) == hardware' = [hardware EXCEPT ![cmd.part] = cmd.night]

----------------------------------------------------------------------------
(* handleIspSettings, on the read loop. *)

\* Wrong on purpose: enabling the mode does not ask for a resync.
MutSetIcrLuxMode(enabled, usable, ext) ==
    /\ mode' = [enabled |-> enabled, usable |-> usable, ext |-> ext, sync |-> mode.sync]
    /\ poller' = IF poller.pc = "none" THEN [poller EXCEPT !.pc = "sleep"] ELSE poller

\* setIcrLuxMode: a transition to enabled asks for a resync; the poller starts on
\* the first use.
SetIcrLuxMode(enabled, usable, ext) ==
    /\ mode' = [enabled |-> enabled, usable |-> usable, ext |-> ext,
                sync |-> mode.sync \/ (enabled /\ ~mode.enabled)]
    /\ poller' = IF poller.pc = "none" THEN [poller EXCEPT !.pc = "sleep"] ELSE poller

Message(about) ==
    /\ handler = <<>> /\ left > 0
    /\ left' = left - 1
    /\ asked' = about
    /\ UNCHANGED hardware

\* "manual": the poller is disabled before the hardware is driven.
Manual(night) ==
    /\ Message("manual")
    /\ SetIcrLuxMode(FALSE, FALSE, FALSE)
    /\ handler' = Switch(night, FALSE)
    /\ UNCHANGED mixed

\* "auto" with a lux threshold; a slider outside 1-30 is stored like any other.
Custom(usable, ext) ==
    /\ Message("custom")
    /\ SetIcrLuxMode(TRUE, usable, ext)
    /\ mixed' = (mixed \/ ext)
    /\ UNCHANGED handler

\* Plain "auto", or an encoder that does its own night vision.
Auto ==
    /\ Message("auto")
    /\ SetIcrLuxMode(FALSE, FALSE, FALSE)
    /\ UNCHANGED <<handler, mixed>>

HandlerRuns ==
    /\ handler # <<>>
    /\ Run(Head(handler)) /\ handler' = Tail(handler)
    /\ UNCHANGED <<mode, poller, asked, mixed, left>>

----------------------------------------------------------------------------
(* runIcrLuxPoller. *)

\* The poll finds nothing to do: the mode is off or the slider is out of range,
\* or the reading fails or is not conclusive yet.
PollSkips ==
    /\ poller.pc = "sleep"
    /\ \/ ~(mode.enabled /\ mode.usable) /\ poller' = [poller EXCEPT !.cross = 0]
       \/ mode.enabled /\ mode.usable /\ UNCHANGED poller
    /\ UNCHANGED <<mode, handler, hardware, asked, mixed, left>>

\* A reading that says night or day, judged with the mode as it is now.  The poller
\* works with this snapshot until it sleeps again.
PollReads(night) ==
    /\ poller.pc = "sleep"
    /\ mode.enabled /\ mode.usable
    /\ LET cross == IF night # poller.night THEN poller.cross + 1 ELSE 0
           switch == mode.sync \/ cross = Debounce
       IN  poller' =
            IF switch
            THEN [pc |-> IF mode.sync THEN "clear" ELSE "switch", night |-> night,
                  cross |-> 0, todo |-> Switch(night, mode.ext)]
            ELSE [poller EXCEPT !.cross = cross]
    /\ UNCHANGED <<mode, handler, hardware, asked, mixed, left>>

\* The resync is marked done, before the commands it consists of.
PollClears ==
    /\ poller.pc = "clear"
    /\ mode' = [mode EXCEPT !.sync = FALSE]
    /\ poller' = [poller EXCEPT !.pc = "switch"]
    /\ UNCHANGED <<handler, hardware, asked, mixed, left>>

PollSwitches ==
    /\ poller.pc = "switch"
    /\ IF poller.todo # <<>>
       THEN Run(Head(poller.todo)) /\ poller' = [poller EXCEPT !.todo = Tail(@)]
       ELSE poller' = [poller EXCEPT !.pc = "sleep"] /\ UNCHANGED hardware
    /\ UNCHANGED <<mode, handler, asked, mixed, left>>

----------------------------------------------------------------------------

\* The stock encoder's own day and night switching, before any setting and in
\* plain "auto".
NativeSwitches(night) ==
    /\ asked \in {"none", "auto"}
    /\ hardware' = [filter |-> night, led |-> night]
    /\ UNCHANGED <<mode, handler, poller, asked, mixed, left>>

Next ==
    \/ \E night \in BOOLEAN : Manual(night) \/ PollReads(night) \/ NativeSwitches(night)
    \/ \E usable \in BOOLEAN, ext \in ExternalIr : Custom(usable, ext)
    \/ Auto \/ HandlerRuns
    \/ PollSkips \/ PollClears \/ PollSwitches

----------------------------------------------------------------------------
(* Properties. *)

Commands == [part : {"filter", "led"}, night : BOOLEAN]

\* Every variable holds a value the code can put there.
TypeOK ==
    /\ mode \in [enabled : BOOLEAN, usable : BOOLEAN, ext : BOOLEAN, sync : BOOLEAN]
    /\ handler \in Seq(Commands) /\ Len(handler) <= 2
    /\ poller \in [pc : {"none", "sleep", "clear", "switch"}, night : BOOLEAN,
                   cross : 0..(Debounce - 1), todo : UNION {[1..n -> Commands] : n \in 0..2}]
    /\ hardware \in [filter : BOOLEAN, led : BOOLEAN]

\* lux.go, the resync on re-enabling: when the lux mode is on, no resync is due and
\* nothing is on its way, the filter is where the poller believes it is, and so is
\* the LED unless it has been left to an external one: otherwise the poller, which
\* only acts on a change, would leave the camera blind at night.
LuxApplied ==
    mode.enabled /\ ~mode.sync /\ handler = <<>> /\ poller.pc = "sleep" =>
        /\ hardware.filter = poller.night
        /\ ~mixed => hardware.led = poller.night

\* main.go:1045, "Manual takes precedence over any lux-threshold state": once a
\* manual setting has been carried out nothing changes the hardware.
ManualPrevails == [][asked = "manual" /\ handler = <<>> => hardware' = hardware]_vars
==============================================================================
