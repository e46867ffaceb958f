----------------------------- MODULE RingReader -----------------------------
(***************************************************************************)
(* The reader of the stock encoder's frame ring in shared memory           *)
(* (src/flv_bridge/FshareReader.cpp): finding the producer's end from      *)
(* fields that change one by one, walking the frame headers up to it,      *)
(* holding the newest frame back, copying the rest out, resynchronising.   *)
(* The ring is a circle of Size cells; a frame is a header of one cell and *)
(* its payload.  Reads that straddle the wrap are put together rightly     *)
(* (copyFromRing); frames are all of a known type and have no prefix.      *)
(***************************************************************************)
EXTENDS Integers, Sequences

CONSTANTS
    Size,           \* cells of the ring, size_ - offset_
    Batch,          \* kMaxBatch
    Lengths,        \* payload lengths, in cells
    MaxFrames,      \* bound: frames the encoder writes
    MaxResyncs,     \* bound: times five seconds pass without a frame
    Mishaps         \* what may happen: "lap", "exact", "seed"

VARIABLES
    ring,           \* per cell: the number of the frame that wrote it last, or 0
    frames,         \* the frames written so far, [at, len]
    fields,         \* the producer's start, len and end, and how many of them it has set
    deposited,      \* the newest frame's payload is in the ring
    reader,         \* run(): where it is, the fields it has read, endPrev, cur, the batch
    emitted,        \* the frames handed to the queues, [id, whole]
    lost,           \* the reader has skipped to the producer's end
    resyncsLeft     \* what remains of the bound

ringVars == <<ring, frames, fields, deposited, reader, emitted, lost, resyncsLeft>>

Wrap(p) == IF p >= Size THEN p - Size ELSE p
CellsOf(f) == {Wrap(f.at + i) : i \in 1..f.len}
PayloadWhole(id, f) == \A c \in CellsOf(f) : ring[c] = id

\* Wrong on purpose: a pointer that passes the end is left there.
MutMovePtr(p, delta) == IF p + delta > Size THEN Size ELSE p + delta

\* movePtr: wraps a pointer beyond the end of the ring, not one at its end.
MovePtr(p, delta) == IF p + delta > Size THEN p + delta - Size ELSE p + delta

\* The producer's end, where run() computes it: at the end of the ring it wraps.
ProducerEnd(start, len) == Wrap(start + len)

Init ==
    /\ ring = [c \in 0..(Size - 1) |-> 0]
    /\ frames = <<>>
    /\ fields = [start |-> 0, len |-> 0, end |-> 0, set |-> 3]
    /\ deposited = TRUE
    /\ reader = [at |-> "attach", start |-> 0, end |-> 0, prev |-> 0, cur |-> 0, steps |-> 0, batch |-> <<>>]
    /\ emitted = <<>>
    /\ lost = FALSE
    /\ resyncsLeft = MaxResyncs

----------------------------------------------------------------------------
(* The encoder. *)

Newest == frames[Len(frames)]

\* The oldest cell the reader still needs, and the cells from there to the end.
Oldest == IF reader.batch # <<>> THEN Wrap(reader.batch[1].at) ELSE Wrap(reader.prev)
InUse == (fields.end - Oldest + Size) % Size

\* The encoder starts a frame: the header is in the ring before the end moves.
Begin(len) ==
    /\ Len(frames) < MaxFrames /\ fields.set = 3 /\ deposited
    /\ "lap" \in Mishaps \/ reader.at = "attach" \/ InUse + 1 + len < Size
    /\ "exact" \in Mishaps \/ fields.end + 1 + len # Size
    /\ frames' = Append(frames, [at |-> fields.end, len |-> len])
    /\ ring' = [ring EXCEPT ![fields.end] = Len(frames) + 1]
    /\ fields' = [fields EXCEPT !.set = 0]
    /\ deposited' = FALSE
    /\ UNCHANGED <<reader, emitted, lost, resyncsLeft>>

\* It sets the three fields one after the other.
Publish ==
    /\ fields.set < 3
    /\ fields' = CASE fields.set = 0 -> [fields EXCEPT !.set = 1, !.start = Newest.at]
                   [] fields.set = 1 -> [fields EXCEPT !.set = 2, !.len = Newest.len + 1]
                   [] fields.set = 2 -> [fields EXCEPT !.set = 3, !.end = Wrap(Newest.at + Newest.len + 1)]
    /\ UNCHANGED <<ring, frames, deposited, reader, emitted, lost, resyncsLeft>>

\* The payload may follow later, but before the next frame.
Deposit ==
    /\ ~deposited
    /\ deposited' = TRUE
    /\ ring' = [c \in DOMAIN ring |-> IF c \in CellsOf(Newest) THEN Len(frames) ELSE ring[c]]
    /\ UNCHANGED <<frames, fields, reader, emitted, lost, resyncsLeft>>

----------------------------------------------------------------------------
(* run(). *)

\* The cursor is put at the producer's end, from fields that are not compared.
Attach ==
    /\ reader.at = "attach"
    /\ "seed" \in Mishaps \/ fields.set = 3
    /\ reader' = [reader EXCEPT !.at = "start", !.prev = ProducerEnd(fields.start, fields.len)]
    /\ UNCHANGED <<ring, frames, fields, deposited, emitted, lost, resyncsLeft>>

\* start is read, then len, and then end is compared.
ReadStart ==
    /\ reader.at = "start"
    /\ reader' = [reader EXCEPT !.at = "len", !.start = fields.start]
    /\ UNCHANGED <<ring, frames, fields, deposited, emitted, lost, resyncsLeft>>

ReadLen ==
    /\ reader.at = "len"
    /\ reader' = [reader EXCEPT !.at = "compare", !.end = ProducerEnd(reader.start, fields.len)]
    /\ UNCHANGED <<ring, frames, fields, deposited, emitted, lost, resyncsLeft>>

\* Wrong on purpose: the end is not compared.
MutAgrees == TRUE
Agrees == reader.end = fields.end

\* Fields that do not agree are read again, and so are fields that have not moved.
Compare ==
    /\ reader.at = "compare"
    /\ reader' = IF ~Agrees \/ reader.end = reader.prev THEN [reader EXCEPT !.at = "start"]
                 ELSE [reader EXCEPT !.at = "walk", !.cur = reader.prev, !.steps = 0, !.batch = <<>>]
    /\ UNCHANGED <<ring, frames, fields, deposited, emitted, lost, resyncsLeft>>

\* Five seconds have passed without a frame: endPrev goes to the producer's end.
Resync ==
    /\ reader.at = "compare" /\ Agrees
    /\ resyncsLeft > 0
    /\ resyncsLeft' = resyncsLeft - 1
    /\ reader' = [reader EXCEPT !.at = "start", !.prev = reader.end]
    /\ lost' = TRUE
    /\ UNCHANGED <<ring, frames, fields, deposited, emitted>>

\* readHeader: what a cell says when it is read as a header.  A cell of a payload,
\* or one that was never written, says anything.
TooLong == Size
Headers(c) ==
    LET id == ring[c]
    IN  IF id # 0 /\ frames[id].at = c THEN {[id |-> id, len |-> frames[id].len]}
        ELSE {[id |-> 0, len |-> len] : len \in Lengths \cup {TooLong}}

\* Wrong on purpose: the newest frame is not held back.
MutHeld(batch) == 0
Held(batch) == 1

\* The walk is over: the last frame is where the next pass starts, and alone it is
\* not emitted at all.
Collected(r) ==
    IF Len(r.batch) <= 1 THEN [r EXCEPT !.at = "start", !.batch = <<>>]
    ELSE [r EXCEPT !.at = "copy", !.batch = SubSeq(@, 1, Len(@) - Held(@)),
                   !.prev = IF Held(r.batch) = 1 THEN r.batch[Len(r.batch)].at ELSE r.cur]

LoseSync(r) == [r EXCEPT !.at = "start", !.prev = r.end, !.batch = <<>>]

\* One round of the walk from endPrev to the end.
Walk ==
    /\ reader.at = "walk"
    /\ LET bound == Size + 2
       IN  IF reader.cur = reader.end
           THEN reader' = Collected(reader) /\ lost' = lost
           ELSE \E h \in Headers(Wrap(reader.cur)) :
                    IF reader.steps = bound \/ h.len > Size - 1
                    THEN reader' = LoseSync(reader) /\ lost' = TRUE
                    ELSE LET found == Append(reader.batch, [id |-> h.id, at |-> reader.cur, len |-> h.len])
                             next == [reader EXCEPT !.cur = MovePtr(@, 1 + h.len), !.steps = @ + 1,
                                                    !.batch = found]
                         IN  /\ reader' = IF Len(found) = Batch THEN Collected(next) ELSE next
                             /\ lost' = lost
    /\ UNCHANGED <<ring, frames, fields, deposited, emitted, resyncsLeft>>

\* copyFromRing and emit, one frame of the batch.
Copy ==
    /\ reader.at = "copy"
    /\ LET f == Head(reader.batch)
           rest == Tail(reader.batch)
       IN  /\ emitted' = Append(emitted, [id |-> f.id, whole |-> f.id # 0 /\ PayloadWhole(f.id, f)])
           /\ reader' = [reader EXCEPT !.at = IF rest = <<>> THEN "start" ELSE "copy", !.batch = rest]
    /\ UNCHANGED <<ring, frames, fields, deposited, lost, resyncsLeft>>

Next ==
    \/ \E len \in Lengths : Begin(len)
    \/ Publish \/ Deposit
    \/ Attach \/ ReadStart \/ ReadLen \/ Compare \/ Resync \/ Walk \/ Copy

Spec == Init /\ [][Next]_ringVars

----------------------------------------------------------------------------
(* Properties. *)

\* The pointers stay in the ring, one beyond its last cell included.
TypeOK ==
    /\ ring \in [0..(Size - 1) -> 0..MaxFrames]
    /\ frames \in Seq([at : 0..(Size - 1), len : Lengths])
    /\ fields.set \in 0..3 /\ fields.start \in 0..(Size - 1) /\ fields.end \in 0..(Size - 1)
    /\ reader.prev \in 0..Size /\ reader.cur \in 0..Size /\ reader.end \in 0..(Size - 1)
    /\ Len(reader.batch) <= Batch
    /\ lost \in BOOLEAN /\ deposited \in BOOLEAN

\* FshareReader.cpp:195, 240: every frame that reaches the queues is whole, frames
\* come in the order they were written and none twice, and none is left out
\* unless the reader has skipped on purpose - with the producer's fields changing
\* under the reader, payloads that arrive after them, and full batches.
FramesWholeInOrder ==
    /\ \A i \in DOMAIN emitted : emitted[i].whole
    /\ \A i \in DOMAIN emitted \ {1} :
           /\ emitted[i].id > emitted[i - 1].id
           /\ lost \/ emitted[i].id = emitted[i - 1].id + 1

----------------------------------------------------------------------------
(* What the comments promise and the code does not keep. *)

\* FshareReader.cpp:228, "The writer lapped us (or a header is garbage)": with
\* neither, sync is not lost ("exact" in Mishaps).
SyncKept == lost => resyncsLeft < MaxResyncs

\* FshareReader.cpp:149, "Seed the cursor at the current producer end": the
\* cursor starts where a frame starts ("seed" in Mishaps).
SeededAtBoundary ==
    [][reader.at = "attach" /\ reader'.at = "start" =>
           reader'.prev \in {fields.end} \cup {Wrap(f.at + f.len + 1) : f \in {frames[i] : i \in DOMAIN frames}}]_ringVars
=============================================================================
