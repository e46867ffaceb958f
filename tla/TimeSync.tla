------------------------------ MODULE TimeSync ------------------------------
(***************************************************************************)
(* The camera's clock (src/goclient/timesync.go): the controller's time in *)
(* a timeSync message may be old by the time the message is handled, so a  *)
(* clock that has been set once is only stepped when two samples in a row  *)
(* agree.  Times are in units of 100 ms.                                   *)
(***************************************************************************)
EXTENDS Integers

CONSTANTS
    Delays,         \* how late a message may be handled
    Drifts,         \* how far the camera's clock may run away at once
    MaxError,       \* bound: how wrong the clock is at the start
    MaxSamples,     \* bound: timeSync messages
    MaxDrifts,      \* bound: drifts
    MaxFails        \* bound: settimeofday calls that fail

VARIABLES
    error,          \* the controller's clock less the camera's
    clockSynced,    \* the atomic of the same name
    pendingOffset,  \* pendingOffsetMs, 0 if none
    late,           \* the delay of the last sample
    good,           \* the clock has been set right, and has not drifted since
    left            \* what remains of the bounds

vars == <<error, clockSynced, pendingOffset, late, good, left>>

\* 500 ms and 200 ms.
Tolerance == 5
Agreement == 2

Within(d, limit) == d <= limit /\ d >= -limit

Init ==
    /\ error \in (-MaxError)..MaxError
    /\ clockSynced = FALSE /\ pendingOffset = 0
    /\ late = 0 /\ good = FALSE
    /\ left = [samples |-> MaxSamples, drifts |-> MaxDrifts, fails |-> MaxFails]

\* Wrong on purpose: a single sample out of tolerance is enough.
MutNeedsStep(offset) == ~clockSynced \/ ~Within(offset, Tolerance)

\* needsStep: the first sample always, then two that agree.
NeedsStep(offset) ==
    \/ ~clockSynced
    \/ /\ ~Within(offset, Tolerance)
       /\ pendingOffset # 0
       /\ Within(offset - pendingOffset, Agreement)

\* What needsStep leaves pending when it does not step.
Pending(offset) == IF Within(offset, Tolerance) THEN 0 ELSE offset

\* handleTimeSync: a message is handled that is `delay` old.  Two messages are sent
\* half a minute apart, so two old ones that are handled together do not agree.
HandleTimeSync(delay, works) ==
    LET offset == error - delay
    IN  /\ left.samples > 0
        /\ delay # 0 /\ late # 0 => ~Within(delay - late, Agreement)
        /\ ~works => left.fails > 0 /\ NeedsStep(offset)
        /\ late' = delay
        /\ IF NeedsStep(offset)
           THEN /\ pendingOffset' = 0
                /\ error' = IF works THEN delay ELSE error
                /\ clockSynced' = (clockSynced \/ works)
                /\ good' = (good \/ (works /\ Within(delay, Tolerance)))
           ELSE /\ pendingOffset' = Pending(offset)
                /\ UNCHANGED <<error, clockSynced, good>>
        /\ left' = [left EXCEPT !.samples = @ - 1, !.fails = @ - (IF works THEN 0 ELSE 1)]

\* No real-time clock of its own: the camera's time runs away.
Drift(d) ==
    /\ left.drifts > 0
    /\ error' = error + d
    /\ good' = FALSE
    /\ left' = [left EXCEPT !.drifts = @ - 1]
    /\ UNCHANGED <<clockSynced, pendingOffset, late>>

Next ==
    \/ \E delay \in Delays, works \in BOOLEAN : HandleTimeSync(delay, works)
    \/ \E d \in Drifts : Drift(d)

----------------------------------------------------------------------------
(* Properties. *)

\* Every variable holds a value the code can put there.
TypeOK ==
    /\ error \in Int /\ clockSynced \in BOOLEAN /\ pendingOffset \in Int
    /\ late \in Delays /\ good \in BOOLEAN
    /\ ~clockSynced => ~good

\* timesync.go:23, an old message "must not step alone": once the clock has been set
\* right nothing but a drift makes it wrong again, however late messages are handled.
AccurateStays == good => Within(error, Tolerance)
=============================================================================
