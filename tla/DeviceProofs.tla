---------------------------- MODULE DeviceProofs ----------------------------
(***************************************************************************)
(* Theorems about the parts of Device, for any values of its constants:    *)
(* each part's invariant is inductive, and Device runs one part at a time. *)
(***************************************************************************)
EXTENDS Device, FiniteSetTheorems, SequenceTheorems, TLAPS

----------------------------------------------------------------------------
(* Device runs one of its parts at a time. *)

LEMMA PartInit ==
  DeviceInit => /\ Init /\ Motion!Init /\ Lux!Init /\ Ptz!Init /\ Snapshot!Init /\ TimeSync!Init
                /\ Stamps!Init /\ ParameterSets!Init /\ RingReader!Init /\ Controls!Init
  BY DEF DeviceInit

\* A step of Device is, for each part, a step of it or leaves it alone.
LEMMA PartStep ==
  ASSUME [DeviceNext]_deviceVars
  PROVE  /\ [Next]_vars
         /\ [Motion!Next]_motionVars
         /\ [Lux!Next]_luxVars
         /\ [Ptz!Next]_ptzVars
         /\ [Snapshot!Next]_snapshotVars
         /\ [TimeSync!Next]_clockVars
         /\ [Stamps!Next]_stampVars
         /\ [ParameterSets!Next]_setVars
         /\ [RingReader!Next]_ringVars
         /\ [Controls!Next]_ctlVars
  BY DEF DeviceNext, deviceVars, muxVars

----------------------------------------------------------------------------
(* The reader of the frame ring. *)

\* The ring is a circle of cells; a frame is a header cell and the cells of its payload.
RingFrames == [at : 0..(Size - 1), len : Lengths]
Cells == 0..(Size - 1)

\* How far cell c is from cell o in the direction of writing.
Ahead(o, c) == IF c >= o THEN c - o ELSE c - o + Size

\* Where the frame after the newest goes, and where frame k starts, that one included.
Tip(fr) == IF fr = <<>> THEN 0 ELSE RingReader!Wrap(fr[Len(fr)].at + fr[Len(fr)].len + 1)
Boundary(fr, k) == IF k <= Len(fr) THEN fr[k].at ELSE Tip(fr)

\* The frames from frame w on, which is at o, follow one another without a gap and
\* leave at least a cell of the ring free; none ends at the ring's last cell.
Spaced(fr, o, w) ==
    /\ o = Boundary(fr, w)
    /\ \A k \in w..Len(fr) :
           /\ Boundary(fr, k + 1) = RingReader!Wrap(fr[k].at + fr[k].len + 1)
           /\ fr[k].at + fr[k].len + 1 # Size
           /\ Ahead(o, fr[k].at) + fr[k].len + 1 < Size
    /\ \A i, j \in w..Len(fr) : i < j =>
           /\ Ahead(o, fr[i].at) + fr[i].len + 1 <= Ahead(o, fr[j].at)
           /\ j - i <= Ahead(o, fr[j].at) - Ahead(o, fr[i].at)

LEMMA RingConstants ==
  Size \in Nat \ {0} /\ Batch \in Nat \ {0} /\ MaxFrames \in Nat /\ \A l \in Lengths : l \in 1..(Size - 1)
  BY RingAssumption

\* InUse is the distance from the oldest cell to the end.
LEMMA AheadMod ==
  ASSUME NEW a \in Cells, NEW b \in Cells
  PROVE  (a - b + Size) % Size = Ahead(b, a)
  BY RingConstants DEF Cells, Ahead

LEMMA AheadType ==
  ASSUME NEW a \in Cells, NEW b \in Cells
  PROVE  Ahead(b, a) \in Cells /\ Ahead(a, a) = 0
  BY RingConstants DEF Cells, Ahead

\* Distances add up as long as they do not go round.
LEMMA AheadOn ==
  ASSUME NEW o \in Cells, NEW a \in Cells, NEW n \in Nat, Ahead(o, a) + n < Size
  PROVE  /\ RingReader!Wrap(a + n) \in Cells
         /\ Ahead(o, RingReader!Wrap(a + n)) = Ahead(o, a) + n
  BY RingConstants DEF Cells, Ahead, RingReader!Wrap

LEMMA AheadFrom ==
  ASSUME NEW o \in Cells, NEW a \in Cells, NEW b \in Cells, Ahead(o, a) <= Ahead(o, b)
  PROVE  Ahead(a, b) = Ahead(o, b) - Ahead(o, a)
  BY RingConstants DEF Cells, Ahead

\* Every frame is in the ring, and so is where the next goes.
LEMMA FrameTypes ==
  ASSUME NEW fr \in Seq(RingFrames), NEW k \in 1..(Len(fr) + 1)
  PROVE  /\ Len(fr) \in Nat /\ Boundary(fr, k) \in Cells /\ Tip(fr) \in Cells
         /\ k <= Len(fr) => /\ fr[k] \in RingFrames /\ fr[k].at \in Cells /\ fr[k].len \in 1..(Size - 1)
                            /\ fr[k].len \in Lengths /\ fr[k].len \in Nat /\ fr[k].at \in Nat
  <1>1. Len(fr) \in Nat /\ \A i \in 1..Len(fr) : fr[i] \in RingFrames
    OBVIOUS
  <1>2. \A i \in 1..Len(fr) : fr[i].at \in Cells /\ fr[i].len \in Lengths /\ fr[i].len \in 1..(Size - 1)
    BY <1>1, RingConstants DEF RingFrames, Cells
  <1>3. Tip(fr) \in Cells
    <2>1. CASE fr = <<>>
      BY <2>1, RingConstants DEF Tip, Cells
    <2>2. CASE fr # <<>>
      <3>1. Len(fr) \in 1..Len(fr)
        BY <2>2, <1>1, EmptySeq
      <3>2. QED BY <2>2, <3>1, <1>2, RingConstants DEF Tip, Cells, RingReader!Wrap
    <2>3. QED BY <2>1, <2>2
  <1>4. QED BY <1>1, <1>2, <1>3, RingConstants DEF Boundary, Cells

\* Arithmetic of distances in the ring, a fact at a time.
LEMMA Regrouped ==
  ASSUME NEW a \in Cells, NEW b \in Cells, NEW l \in 1..(Size - 1)
  PROVE  l + 1 \in Nat /\ a + l + 1 = a + (l + 1) /\ b + l + 1 = b + (l + 1)
  BY RingConstants DEF Cells

LEMMA Between ==
  ASSUME NEW a \in Cells, NEW b \in Cells, NEW l \in 1..(Size - 1), NEW m \in 1..(Size - 1),
         NEW k \in Nat, NEW n \in Nat, a + l + 1 <= b, n - k <= b - a
  PROVE  a + l + 1 <= b + m + 1 /\ n + 1 - k <= (b + m + 1) - a
  BY RingConstants DEF Cells

LEMMA InRange ==
  ASSUME NEW a \in Cells, NEW l \in 1..(Size - 1), NEW i \in 1..l, a + l + 1 < Size
  PROVE  i \in Nat /\ a + i < Size /\ a < a + i /\ a + i <= a + l
  BY RingConstants DEF Cells

LEMMA Adjacent ==
  ASSUME NEW a \in Cells, NEW l \in 1..(Size - 1)
  PROVE  a <= a /\ a + l + 1 <= a + l + 1 /\ 1 <= (a + l + 1) - a
  BY RingConstants DEF Cells

LEMMA AtMost ==
  ASSUME NEW a \in Cells, NEW b \in Cells, NEW l \in 1..(Size - 1), a + l + 1 <= b
  PROVE  a <= b
  BY RingConstants DEF Cells

LEMMA Less ==
  ASSUME NEW a \in Cells, NEW b \in Cells, NEW l \in 1..(Size - 1), NEW d, d = b - a, b + l + 1 < Size
  PROVE  d + l + 1 < Size
  BY RingConstants DEF Cells

LEMMA Shifted ==
  ASSUME NEW a \in Cells, NEW b \in Cells, NEW o \in Cells, NEW l \in 1..(Size - 1),
         NEW i \in Nat, NEW j \in Nat, a + l + 1 <= b, j - i <= b - a
  PROVE  (a - o) + l + 1 <= b - o /\ j - i <= (b - o) - (a - o)
  BY RingConstants DEF Cells

\* A frame that is begun where the newest ends, and leaves a cell free, fits.
Begins(new, fr, len) == new = Append(fr, [at |-> Tip(fr), len |-> len])

LEMMA SpacedBegins ==
  ASSUME NEW fr \in Seq(RingFrames), NEW o \in Cells, NEW w \in 1..(Len(fr) + 1), Spaced(fr, o, w),
         NEW len \in Lengths, Ahead(o, Tip(fr)) + 1 + len < Size, Tip(fr) + 1 + len # Size,
         NEW new, Begins(new, fr, len)
  PROVE  /\ new \in Seq(RingFrames) /\ Len(new) = Len(fr) + 1
         /\ \A k \in 1..Len(fr) : new[k] = fr[k]
         /\ new[Len(fr) + 1].at = Tip(fr) /\ new[Len(fr) + 1].len = len
         /\ \A k \in 1..(Len(fr) + 1) : Boundary(new, k) = Boundary(fr, k)
         /\ Spaced(new, o, w)
  <1> DEFINE n == Len(fr)
             f == [at |-> Tip(fr), len |-> len]
  <1>1. n \in Nat /\ Tip(fr) \in Cells /\ f \in RingFrames /\ n + 1 \in 1..(n + 1)
    <2>1. n \in Nat /\ 1 \in 1..(n + 1)
      OBVIOUS
    <2>2. Tip(fr) \in Cells
      BY <2>1, FrameTypes
    <2>3. QED BY <2>1, <2>2 DEF RingFrames, Cells
  <1>2. /\ new \in Seq(RingFrames) /\ Len(new) = n + 1
        /\ \A k \in 1..n : new[k] = fr[k]
        /\ new[n + 1] = f
    BY <1>1 DEF Begins
  <1>3. new[n + 1].at = Tip(fr) /\ new[n + 1].len = len
    BY <1>2
  <1>4. \A k \in 1..(n + 1) : Boundary(new, k) = Boundary(fr, k)
    BY <1>1, <1>2, <1>3 DEF Boundary
  <1>5. Boundary(new, n + 2) = RingReader!Wrap(Tip(fr) + len + 1)
    <2>1. new # <<>>
      BY <1>1, <1>2, EmptySeq
    <2>2. QED BY <1>1, <1>2, <1>3, <2>1 DEF Boundary, Tip
  <1>6. \A k \in w..n : Ahead(o, fr[k].at) + fr[k].len + 1 <= Ahead(o, Tip(fr))
                        /\ n + 1 - k <= Ahead(o, Tip(fr)) - Ahead(o, fr[k].at)
    <2> SUFFICES ASSUME NEW k \in w..n
                 PROVE  Ahead(o, fr[k].at) + fr[k].len + 1 <= Ahead(o, Tip(fr))
                        /\ n + 1 - k <= Ahead(o, Tip(fr)) - Ahead(o, fr[k].at)
      OBVIOUS
    <2>1. n \in w..n /\ k \in 1..n /\ n \in 1..n
      BY <1>1
    <2>2. /\ fr[n].at \in Cells /\ fr[n].len \in 1..(Size - 1) /\ fr[k].at \in Cells
          /\ fr[k].len \in 1..(Size - 1)
      BY <2>1, <1>1, FrameTypes
    <2>3. Tip(fr) = RingReader!Wrap(fr[n].at + fr[n].len + 1)
      BY <2>1, <1>1, EmptySeq DEF Tip
    <2>4. Ahead(o, fr[n].at) + fr[n].len + 1 < Size
      BY <2>1 DEF Spaced
    <2>5. fr[n].len + 1 \in Nat /\ fr[n].at + fr[n].len + 1 = fr[n].at + (fr[n].len + 1)
          /\ Ahead(o, fr[n].at) + fr[n].len + 1 = Ahead(o, fr[n].at) + (fr[n].len + 1)
      <3>1. Ahead(o, fr[n].at) \in Cells
        BY <2>2, AheadType
      <3>2. QED BY <2>2, <3>1, Regrouped, Zenon
    <2>6. Ahead(o, Tip(fr)) = Ahead(o, fr[n].at) + fr[n].len + 1
      BY <2>2, <2>3, <2>4, <2>5, AheadOn
    <2>7. k < n => /\ Ahead(o, fr[k].at) + fr[k].len + 1 <= Ahead(o, fr[n].at)
                   /\ n - k <= Ahead(o, fr[n].at) - Ahead(o, fr[k].at)
      BY <2>1 DEF Spaced
    <2>8. Ahead(o, fr[n].at) \in Cells /\ Ahead(o, fr[k].at) \in Cells
      BY <2>2, AheadType
    <2>9. CASE k = n
      <3>1. n + 1 - n = 1
        BY <1>1
      <3>2. QED BY <2>2, <2>6, <2>8, <2>9, <3>1, Adjacent, Zenon
    <2>10. CASE k < n
      <3>1. k \in Nat /\ n \in Nat
        BY <1>1
      <3>2. /\ Ahead(o, fr[k].at) + fr[k].len + 1 <= Ahead(o, fr[n].at) + fr[n].len + 1
            /\ n + 1 - k <= (Ahead(o, fr[n].at) + fr[n].len + 1) - Ahead(o, fr[k].at)
        BY <2>2, <2>7, <2>8, <2>10, <3>1, Between, Zenon
      <3>3. QED BY <2>6, <3>2, Zenon
    <2>11. QED BY <1>1, <2>1, <2>9, <2>10
  <1>7. o = Boundary(new, w)
    BY <1>1, <1>4 DEF Spaced
  <1>8. ASSUME NEW k \in w..(n + 1)
        PROVE  /\ Boundary(new, k + 1) = RingReader!Wrap(new[k].at + new[k].len + 1)
               /\ new[k].at + new[k].len + 1 # Size
               /\ Ahead(o, new[k].at) + new[k].len + 1 < Size
    <2>1. CASE k = n + 1
      <3>1. Tip(fr) + len + 1 = Tip(fr) + 1 + len /\ Ahead(o, Tip(fr)) + len + 1 = Ahead(o, Tip(fr)) + 1 + len
        <4>1. Ahead(o, Tip(fr)) \in Cells
          BY <1>1, AheadType
        <4>2. QED BY <1>1, <4>1, RingConstants DEF Cells
      <3>2. k + 1 = n + 2
        BY <1>1, <2>1
      <3>3. QED BY <1>3, <1>5, <2>1, <3>1, <3>2
    <2>2. CASE k # n + 1
      <3>1. k \in w..n /\ k + 1 \in 1..(n + 1) /\ k \in 1..n
        BY <1>1, <2>2
      <3>2. new[k] = fr[k] /\ Boundary(new, k + 1) = Boundary(fr, k + 1)
        BY <1>2, <1>4, <3>1
      <3>3. QED BY <3>1, <3>2 DEF Spaced
    <2>3. QED BY <2>1, <2>2
  <1>9. ASSUME NEW i \in w..(n + 1), NEW j \in w..(n + 1), i < j
        PROVE  /\ Ahead(o, new[i].at) + new[i].len + 1 <= Ahead(o, new[j].at)
               /\ j - i <= Ahead(o, new[j].at) - Ahead(o, new[i].at)
    <2>1. i \in w..n /\ i \in 1..n /\ new[i] = fr[i]
      BY <1>1, <1>2, <1>9
    <2>2. CASE j = n + 1
      BY <1>3, <1>6, <2>1, <2>2
    <2>3. CASE j # n + 1
      <3>1. j \in w..n /\ j \in 1..n /\ new[j] = fr[j]
        BY <1>1, <1>2, <2>3
      <3>2. QED BY <1>9, <2>1, <3>1 DEF Spaced
    <2>4. QED BY <2>2, <2>3
  <1>10. Spaced(new, o, w)
    BY <1>2, <1>7, <1>8, <1>9 DEF Spaced
  <1>11. QED BY <1>2, <1>3, <1>4, <1>10

\* Frames that follow one another do so from any of them on.
LEMMA SpacedMoves ==
  ASSUME NEW fr \in Seq(RingFrames), NEW o \in Cells, NEW w \in 1..(Len(fr) + 1), Spaced(fr, o, w),
         NEW v \in w..(Len(fr) + 1)
  PROVE  Spaced(fr, Boundary(fr, v), v)
  <1> DEFINE n == Len(fr)
             p == Boundary(fr, v)
  <1>1. n \in Nat /\ p \in Cells /\ v \in 1..(n + 1)
    BY FrameTypes
  <1>2. ASSUME NEW k \in v..n
        PROVE  /\ k \in w..n /\ fr[k].at \in Cells /\ fr[k].len \in 1..(Size - 1)
               /\ Ahead(p, fr[k].at) = Ahead(o, fr[k].at) - Ahead(o, p)
               /\ Ahead(o, p) \in Cells /\ Ahead(o, fr[k].at) \in Cells
    <2>1. k \in w..n /\ k \in 1..n /\ v \in w..n /\ v \in 1..n
      BY <1>1
    <2>2. p = fr[v].at
      BY <2>1, <1>1 DEF Boundary
    <2>3. /\ fr[k].at \in Cells /\ fr[k].len \in 1..(Size - 1) /\ fr[v].at \in Cells
          /\ fr[v].len \in 1..(Size - 1)
      BY <1>1, <2>1, FrameTypes
    <2>4. Ahead(o, p) \in Cells /\ Ahead(o, fr[k].at) \in Cells
      BY <1>1, <2>3, AheadType
    <2>5. v < k => Ahead(o, fr[v].at) + fr[v].len + 1 <= Ahead(o, fr[k].at)
      BY <2>1 DEF Spaced
    <2>6. Ahead(o, p) <= Ahead(o, fr[k].at)
      <3>1. CASE v = k
        BY <2>2, <2>3, <2>4, <3>1, Adjacent, Zenon
      <3>2. CASE v < k
        BY <2>2, <2>3, <2>4, <2>5, <3>2, AtMost, Zenon
      <3>3. QED BY <1>1, <2>1, <3>1, <3>2
    <2>7. QED BY <1>1, <2>1, <2>3, <2>4, <2>6, AheadFrom
  <1>3. ASSUME NEW k \in v..n
        PROVE  /\ Boundary(fr, k + 1) = RingReader!Wrap(fr[k].at + fr[k].len + 1)
               /\ fr[k].at + fr[k].len + 1 # Size
               /\ Ahead(p, fr[k].at) + fr[k].len + 1 < Size
    <2>1. Ahead(o, fr[k].at) + fr[k].len + 1 < Size
          /\ Boundary(fr, k + 1) = RingReader!Wrap(fr[k].at + fr[k].len + 1)
          /\ fr[k].at + fr[k].len + 1 # Size
      BY <1>2 DEF Spaced
    <2>2. QED BY <1>2, <2>1, Less
  <1>4. ASSUME NEW i \in v..n, NEW j \in v..n, i < j
        PROVE  /\ Ahead(p, fr[i].at) + fr[i].len + 1 <= Ahead(p, fr[j].at)
               /\ j - i <= Ahead(p, fr[j].at) - Ahead(p, fr[i].at)
    <2>1. /\ Ahead(o, fr[i].at) + fr[i].len + 1 <= Ahead(o, fr[j].at)
          /\ j - i <= Ahead(o, fr[j].at) - Ahead(o, fr[i].at)
      BY <1>2, <1>4 DEF Spaced
    <2>2. /\ Ahead(p, fr[i].at) = Ahead(o, fr[i].at) - Ahead(o, p)
          /\ Ahead(p, fr[j].at) = Ahead(o, fr[j].at) - Ahead(o, p)
          /\ Ahead(o, p) \in Cells /\ Ahead(o, fr[i].at) \in Cells /\ Ahead(o, fr[j].at) \in Cells
          /\ fr[i].len \in 1..(Size - 1) /\ i \in Nat /\ j \in Nat
      BY <1>1, <1>2
    <2>3. (Ahead(o, fr[i].at) - Ahead(o, p)) + fr[i].len + 1 <= Ahead(o, fr[j].at) - Ahead(o, p)
          /\ j - i <= (Ahead(o, fr[j].at) - Ahead(o, p)) - (Ahead(o, fr[i].at) - Ahead(o, p))
      BY <2>1, <2>2, Shifted, Zenon
    <2>4. QED BY <2>2, <2>3, Zenon
  <1>5. QED BY <1>3, <1>4 DEF Spaced

\* Each cell of a frame lies between its header and the next frame's.
LEMMA FrameCells ==
  ASSUME NEW fr \in Seq(RingFrames), NEW o \in Cells, NEW w \in 1..(Len(fr) + 1), Spaced(fr, o, w),
         NEW k \in w..Len(fr), NEW c \in RingReader!CellsOf(fr[k])
  PROVE  /\ c \in Cells
         /\ Ahead(o, fr[k].at) < Ahead(o, c) /\ Ahead(o, c) <= Ahead(o, fr[k].at) + fr[k].len
  <1>1. PICK i \in 1..fr[k].len : c = RingReader!Wrap(fr[k].at + i)
    BY DEF RingReader!CellsOf
  <1>2. k \in 1..Len(fr)
    BY FrameTypes
  <1>3. fr[k].at \in Cells /\ fr[k].len \in 1..(Size - 1)
    BY <1>2, FrameTypes
  <1>4. Ahead(o, fr[k].at) + fr[k].len + 1 < Size /\ Ahead(o, fr[k].at) \in Cells
    BY <1>3, AheadType DEF Spaced
  <1>5. i \in Nat /\ Ahead(o, fr[k].at) + i < Size /\ 0 < i /\ i <= fr[k].len
    <2>1. i \in Nat /\ 0 < i /\ i <= fr[k].len
      BY <1>1, <1>3, RingConstants
    <2>2. QED BY <1>1, <1>3, <1>4, <2>1, InRange, Zenon
  <1>6. c \in Cells /\ Ahead(o, c) = Ahead(o, fr[k].at) + i
    BY <1>1, <1>3, <1>5, AheadOn
  <1>7. QED BY <1>1, <1>3, <1>4, <1>6, InRange, Zenon

\* The ring still has the headers of the frames from w on, and the payloads of those
\* but for the newest's if that is yet to come.
Stored(fr, rg, dep, w) ==
    \A k \in w..Len(fr) :
        /\ rg[fr[k].at] = k
        /\ k < Len(fr) \/ dep => \A c \in RingReader!CellsOf(fr[k]) : rg[c] = k

\* A cell of a frame is not in the next, nor is the next's header.
LEMMA Short ==
  ASSUME NEW a \in Cells, NEW b \in Cells, NEW c \in Cells, NEW l \in 1..(Size - 1),
         a + l + 1 <= b, c <= a + l
  PROVE  c # b /\ ~(b < c)
  BY RingConstants DEF Cells

LEMMA Before ==
  ASSUME NEW a \in Cells, NEW b \in Cells, NEW l \in 1..(Size - 1), a + l + 1 <= b
  PROVE  a # b /\ ~(b < a)
  BY RingConstants DEF Cells

LEMMA Irreflexive ==
  ASSUME NEW a \in Cells
  PROVE  ~(a < a)
  BY RingConstants DEF Cells

LEMMA StoredBegins ==
  ASSUME NEW fr \in Seq(RingFrames), NEW o \in Cells, NEW w \in 1..(Len(fr) + 1),
         NEW new \in Seq(RingFrames), Len(new) = Len(fr) + 1, \A k \in 1..Len(fr) : new[k] = fr[k],
         new[Len(fr) + 1].at = Tip(fr), Spaced(new, o, w),
         NEW rg \in [Cells -> 0..MaxFrames], Stored(fr, rg, TRUE, w),
         NEW rg2, rg2 = [rg EXCEPT ![Tip(fr)] = Len(fr) + 1]
  PROVE  Stored(new, rg2, FALSE, w)
  <1> DEFINE n == Len(fr)
  <1>1. n \in Nat /\ Tip(fr) \in Cells /\ w \in 1..(Len(new) + 1) /\ o \in Cells /\ n + 1 \in 1..Len(new)
    <2>1. n \in Nat /\ 1 \in 1..(n + 1)
      OBVIOUS
    <2>2. QED BY <2>1, FrameTypes
  <1>2. rg2[Tip(fr)] = n + 1 /\ \A c \in Cells : c # Tip(fr) => rg2[c] = rg[c]
    BY <1>1
  <1>3. ASSUME NEW k \in w..n
        PROVE  rg2[new[k].at] = k /\ \A c \in RingReader!CellsOf(new[k]) : rg2[c] = k
    <2>1. k \in 1..n /\ new[k] = fr[k] /\ k \in w..Len(new) /\ n + 1 \in w..Len(new) /\ k < n + 1 /\ k \in 1..Len(new)
      BY <1>1
    <2>2. rg[new[k].at] = k /\ \A c \in RingReader!CellsOf(new[k]) : rg[c] = k
      BY <2>1 DEF Stored
    <2>3. new[k].at \in Cells /\ new[k].len \in 1..(Size - 1)
      BY <2>1, FrameTypes
    <2>4. /\ Ahead(o, new[k].at) + new[k].len + 1 <= Ahead(o, new[n + 1].at)
          /\ Ahead(o, new[k].at) \in Cells /\ Ahead(o, new[n + 1].at) \in Cells
      BY <1>1, <2>1, <2>3, AheadType DEF Spaced
    <2>5. new[k].at # Tip(fr)
      BY <1>1, <2>3, <2>4, Before, Zenon
    <2>6. ASSUME NEW c \in RingReader!CellsOf(new[k]) PROVE c \in Cells /\ c # Tip(fr)
      <3>1. c \in Cells /\ Ahead(o, c) <= Ahead(o, new[k].at) + new[k].len
        BY <1>1, <2>1, FrameCells
      <3>2. Ahead(o, c) \in Cells
        BY <3>1, AheadType
      <3>3. Ahead(o, c) # Ahead(o, new[n + 1].at)
        BY <2>3, <2>4, <3>1, <3>2, Short, Zenon
      <3>4. QED BY <1>1, <3>1, <3>3, Zenon
    <2>7. QED BY <1>2, <2>2, <2>3, <2>5, <2>6
  <1>4. \A k \in w..Len(new) : k # n + 1 => k \in w..n
    BY <1>1
  <1>5. ~(n + 1 < Len(new)) /\ n + 1 = Len(new)
    BY <1>1
  <1>6. QED BY <1>1, <1>2, <1>3, <1>4, <1>5 DEF Stored

LEMMA StoredDeposits ==
  ASSUME NEW fr \in Seq(RingFrames), NEW o \in Cells, NEW w \in 1..(Len(fr) + 1), Spaced(fr, o, w),
         NEW rg \in [Cells -> 0..MaxFrames], Stored(fr, rg, FALSE, w),
         NEW rg2, rg2 = [c \in DOMAIN rg |-> IF c \in RingReader!CellsOf(fr[Len(fr)]) THEN Len(fr) ELSE rg[c]]
  PROVE  Stored(fr, rg2, TRUE, w)
  <1> DEFINE n == Len(fr)
             new == RingReader!CellsOf(fr[n])
  <1>1. n \in Nat
    OBVIOUS
  <1>2. \A c \in Cells : rg2[c] = IF c \in new THEN n ELSE rg[c]
    OBVIOUS
  <1>3. ASSUME NEW k \in w..n
        PROVE  rg2[fr[k].at] = k /\ \A c \in RingReader!CellsOf(fr[k]) : rg2[c] = k
    <2>1. k \in 1..n /\ n \in w..n /\ n \in 1..n
      BY <1>1
    <2>2. /\ fr[k].at \in Cells /\ fr[k].len \in 1..(Size - 1)
          /\ fr[n].at \in Cells /\ fr[n].len \in 1..(Size - 1)
      BY <2>1, FrameTypes
    <2>3. Ahead(o, fr[k].at) \in Cells /\ Ahead(o, fr[n].at) \in Cells
      BY <2>2, AheadType
    <2>4. \A c \in new : Ahead(o, fr[n].at) < Ahead(o, c)
      BY <2>1, FrameCells
    <2>5. k < n => Ahead(o, fr[k].at) + fr[k].len + 1 <= Ahead(o, fr[n].at)
      BY <2>1 DEF Spaced
    <2>6. fr[k].at \notin new
      <3>1. CASE k = n
        BY <2>3, <2>4, <3>1, Irreflexive, Zenon
      <3>2. CASE k < n
        BY <2>2, <2>3, <2>4, <2>5, <3>2, Before, Zenon
      <3>3. QED BY <1>1, <2>1, <3>1, <3>2
    <2>7. rg[fr[k].at] = k /\ (k < n => \A c \in RingReader!CellsOf(fr[k]) : rg[c] = k)
      BY DEF Stored
    <2>8. ASSUME NEW c \in RingReader!CellsOf(fr[k]) PROVE rg2[c] = k
      <3>1. c \in Cells /\ Ahead(o, c) <= Ahead(o, fr[k].at) + fr[k].len
        BY FrameCells
      <3>2. Ahead(o, c) \in Cells
        BY <3>1, AheadType
      <3>3. CASE k = n
        BY <1>2, <3>1, <3>3
      <3>4. CASE k < n
        <4>1. c \notin new
          BY <2>2, <2>3, <2>4, <2>5, <3>1, <3>2, <3>4, Short, Zenon
        <4>2. QED BY <1>2, <2>7, <3>1, <3>4, <4>1
      <3>5. QED BY <1>1, <2>1, <3>3, <3>4
    <2>9. QED BY <1>2, <2>2, <2>6, <2>7, <2>8
  <1>4. QED BY <1>3 DEF Stored

RingEntries == [id : Nat, at : Cells, len : Lengths]

RingFields == [start : Cells, len : 0..Size, end : Cells, set : 0..3]

Ats == {"attach", "start", "len", "compare", "walk", "copy"}
Readers == [at : Ats, start : Cells, end : Cells, prev : Cells, cur : Cells, steps : Nat,
            batch : Seq(RingEntries)]

RingTypes ==
    /\ ring \in [Cells -> 0..MaxFrames]
    /\ frames \in Seq(RingFrames) /\ Len(frames) <= MaxFrames
    /\ fields \in RingFields
    /\ deposited \in BOOLEAN /\ lost \in BOOLEAN
    /\ reader \in Readers
    /\ Len(reader.batch) <= Batch
    /\ emitted \in Seq([id : Nat, whole : BOOLEAN])

\* What the producer's fields say while it sets them one by one.
FieldsAs(f, fr) ==
    /\ f.set < 3 => fr # <<>> /\ f.end = fr[Len(fr)].at
    /\ f.set = 3 => f.end = Tip(fr)
    /\ fr = <<>> => f.start = 0 /\ f.len = 0
    /\ fr # <<>> /\ f.set >= 1 => f.start = fr[Len(fr)].at
    /\ fr # <<>> /\ f.set >= 2 => f.len = fr[Len(fr)].len + 1

\* The batch holds the frames from w on.
BatchFrom(b, fr, w) ==
    \A i \in 1..Len(b) : b[i] = [id |-> w + i - 1, at |-> fr[w + i - 1].at, len |-> fr[w + i - 1].len]

\* The reader has yet to emit frame w, and is where a frame starts.
ReaderFrom(r, fr, w) ==
    /\ r.at \in {"start", "len", "compare"} => r.batch = <<>> /\ r.prev = Boundary(fr, w)
    /\ r.at = "walk" =>
           /\ r.prev = Boundary(fr, w) /\ r.cur = Boundary(fr, w + Len(r.batch))
           /\ r.steps = Len(r.batch) /\ Len(r.batch) < Batch
           /\ \E e \in (w + Len(r.batch))..(Len(fr) + 1) : r.end = Boundary(fr, e)
           /\ BatchFrom(r.batch, fr, w)
    /\ r.at = "copy" =>
           /\ r.batch # <<>> /\ w + Len(r.batch) <= Len(fr)
           /\ r.prev = Boundary(fr, w + Len(r.batch))
           /\ BatchFrom(r.batch, fr, w)

\* What was emitted is whole, in order, and what comes before frame w.
EmittedTo(e, w, l) ==
    /\ \A i \in 1..Len(e) : e[i].whole
    /\ \A i \in 2..Len(e) : e[i].id > e[i - 1].id /\ (l \/ e[i].id = e[i - 1].id + 1)
    /\ e # <<>> => e[Len(e)].id < w /\ (l \/ e[Len(e)].id = w - 1)

\* The frames from w on are in the ring as they were written.
InRing(w) ==
    /\ Spaced(frames, Boundary(frames, w), w)
    /\ Stored(frames, ring, deposited, w)
    /\ fields.set < 3 => w <= Len(frames)

\* An attached reader goes on from a frame that is in the ring, as are those after it.
RingInv ==
    /\ RingTypes /\ FieldsAs(fields, frames)
    /\ reader.at = "attach" => emitted = <<>> /\ reader.batch = <<>>
    /\ reader.at # "attach" =>
           \E w \in 1..(Len(frames) + 1) :
               InRing(w) /\ ReaderFrom(reader, frames, w) /\ EmittedTo(emitted, w, lost)

\* The reader goes on from frame w.
Onward(w) == InRing(w) /\ ReaderFrom(reader, frames, w) /\ EmittedTo(emitted, w, lost)

LEMMA FrameCount == RingTypes => Len(frames) \in Nat /\ Len(frames) + 1 \in 1..(Len(frames) + 1)
  BY DEF RingTypes

LEMMA WrapCell == \A c \in Cells : RingReader!Wrap(c) = c
  BY RingConstants DEF Cells, RingReader!Wrap

\* The reader's oldest cell is where frame w starts.
LEMMA OldestIs ==
  ASSUME RingTypes, NEW w \in 1..(Len(frames) + 1), ReaderFrom(reader, frames, w), reader.at # "attach"
  PROVE  RingReader!Oldest = Boundary(frames, w)
  <1>1. Boundary(frames, w) \in Cells
    BY FrameTypes DEF RingTypes
  <1>2. CASE reader.batch = <<>>
    <2>1. reader.at \in {"start", "len", "compare", "walk"}
      BY <1>2 DEF RingTypes, ReaderFrom, Readers, Ats
    <2>2. reader.prev = Boundary(frames, w)
      BY <2>1 DEF ReaderFrom
    <2>3. QED BY <1>1, <1>2, <2>2, WrapCell DEF RingReader!Oldest
  <1>3. CASE reader.batch # <<>>
    <2>1. reader.at \in {"walk", "copy"} /\ BatchFrom(reader.batch, frames, w)
      BY <1>3 DEF RingTypes, ReaderFrom, Readers, Ats
    <2>2. Len(reader.batch) \in Nat /\ 1 \in 1..Len(reader.batch)
      BY <1>3, EmptySeq DEF RingTypes, Readers
    <2>3. w + Len(reader.batch) <= Len(frames) + 1
      BY <2>1, <2>2, FrameCount DEF ReaderFrom
    <2>4. w <= Len(frames) /\ w + 1 - 1 = w
      BY <2>2, <2>3, FrameCount
    <2>5. reader.batch[1].at = Boundary(frames, w)
      <3>1. reader.batch[1] = [id |-> w + 1 - 1, at |-> frames[w + 1 - 1].at, len |-> frames[w + 1 - 1].len]
        BY <2>1, <2>2, Zenon DEF BatchFrom
      <3>2. QED BY <2>4, <3>1 DEF Boundary
    <2>6. QED BY <1>1, <1>3, <2>5, WrapCell DEF RingReader!Oldest
  <1>4. QED BY <1>2, <1>3

----------------------------------------------------------------------------
(* The encoder's steps. *)

\* A reader that is where frame w starts stays there when a frame is begun.
LEMMA ReaderStays ==
  ASSUME NEW r, NEW fr, NEW new, NEW w \in 1..(Len(fr) + 1), ReaderFrom(r, fr, w),
         Len(fr) \in Nat, Len(r.batch) \in Nat, Len(new) = Len(fr) + 1,
         \A k \in 1..Len(fr) : new[k] = fr[k],
         \A k \in 1..(Len(fr) + 1) : Boundary(new, k) = Boundary(fr, k)
  PROVE  ReaderFrom(r, new, w)
  <1>1. Boundary(new, w) = Boundary(fr, w)
    OBVIOUS
  <1>2. w + Len(r.batch) <= Len(fr) + 1 /\ BatchFrom(r.batch, fr, w) => BatchFrom(r.batch, new, w)
    <2> SUFFICES ASSUME w + Len(r.batch) <= Len(fr) + 1, BatchFrom(r.batch, fr, w), NEW i \in 1..Len(r.batch)
                 PROVE  r.batch[i] = [id |-> w + i - 1, at |-> new[w + i - 1].at, len |-> new[w + i - 1].len]
      BY DEF BatchFrom
    <2>1. w + i - 1 \in 1..Len(fr)
      OBVIOUS
    <2>2. new[w + i - 1] = fr[w + i - 1]
      BY <2>1
    <2>3. QED BY <2>2 DEF BatchFrom
  <1>3. ASSUME r.at = "walk"
        PROVE  /\ r.prev = Boundary(new, w) /\ r.cur = Boundary(new, w + Len(r.batch))
               /\ r.steps = Len(r.batch) /\ Len(r.batch) < Batch
               /\ \E e \in (w + Len(r.batch))..(Len(new) + 1) : r.end = Boundary(new, e)
               /\ BatchFrom(r.batch, new, w)
    <2>1. PICK e \in (w + Len(r.batch))..(Len(fr) + 1) : r.end = Boundary(fr, e)
      BY <1>3 DEF ReaderFrom
    <2>2. e \in 1..(Len(fr) + 1) /\ w + Len(r.batch) \in 1..(Len(fr) + 1)
          /\ e \in (w + Len(r.batch))..(Len(new) + 1) /\ w + Len(r.batch) <= Len(fr) + 1
      OBVIOUS
    <2>3. r.end = Boundary(new, e)
      BY <2>1, <2>2
    <2>4. QED BY <1>1, <1>2, <1>3, <2>2, <2>3 DEF ReaderFrom
  <1>4. ASSUME r.at = "copy"
        PROVE  /\ r.batch # <<>> /\ w + Len(r.batch) <= Len(new)
               /\ r.prev = Boundary(new, w + Len(r.batch))
               /\ BatchFrom(r.batch, new, w)
    <2>1. w + Len(r.batch) <= Len(fr) /\ w + Len(r.batch) \in 1..(Len(fr) + 1)
      BY <1>4 DEF ReaderFrom
    <2>2. QED BY <1>2, <1>4, <2>1 DEF ReaderFrom
  <1>5. QED BY <1>1, <1>3, <1>4 DEF ReaderFrom

\* The producer sets the next of its three fields.
LEMMA FieldSet ==
  ASSUME NEW f \in RingFields, NEW a \in Cells, NEW l \in 0..Size
  PROVE  /\ [f EXCEPT !.set = 1, !.start = a] \in RingFields
         /\ [f EXCEPT !.set = 2, !.len = l] \in RingFields
         /\ [f EXCEPT !.set = 3, !.end = a] \in RingFields
  <1>1. [f EXCEPT !.set = 1, !.start = a] \in RingFields
    <2> DEFINE g == [f EXCEPT !.set = 1]
    <2>1. g \in RingFields
      BY DEF RingFields
    <2>2. [f EXCEPT !.set = 1, !.start = a] = [g EXCEPT !.start = a]
      OBVIOUS
    <2> HIDE DEF g
    <2>3. [g EXCEPT !.start = a] \in RingFields
      BY <2>1 DEF RingFields
    <2>4. QED BY <2>2, <2>3
  <1>2. [f EXCEPT !.set = 2, !.len = l] \in RingFields
    <2> DEFINE g == [f EXCEPT !.set = 2]
    <2>1. g \in RingFields
      BY DEF RingFields
    <2>2. [f EXCEPT !.set = 2, !.len = l] = [g EXCEPT !.len = l]
      OBVIOUS
    <2> HIDE DEF g
    <2>3. [g EXCEPT !.len = l] \in RingFields
      BY <2>1 DEF RingFields
    <2>4. QED BY <2>2, <2>3
  <1>3. [f EXCEPT !.set = 3, !.end = a] \in RingFields
    <2> DEFINE g == [f EXCEPT !.set = 3]
    <2>1. g \in RingFields
      BY DEF RingFields
    <2>2. [f EXCEPT !.set = 3, !.end = a] = [g EXCEPT !.end = a]
      OBVIOUS
    <2> HIDE DEF g
    <2>3. [g EXCEPT !.end = a] \in RingFields
      BY <2>1 DEF RingFields
    <2>4. QED BY <2>2, <2>3
  <1>4. QED BY <1>1, <1>2, <1>3

LEMMA PublishKeeps ==
  ASSUME RingInv, RingReader!Publish
  PROVE  RingInv'
  <1> DEFINE n == Len(frames)
  <1>1. /\ fields.set < 3 /\ UNCHANGED <<ring, frames, deposited, reader, emitted, lost>>
        /\ fields' = CASE fields.set = 0 -> [fields EXCEPT !.set = 1, !.start = frames[n].at]
                       [] fields.set = 1 -> [fields EXCEPT !.set = 2, !.len = frames[n].len + 1]
                       [] fields.set = 2 -> [fields EXCEPT !.set = 3,
                                                !.end = RingReader!Wrap(frames[n].at + frames[n].len + 1)]
    BY DEF RingReader!Publish, RingReader!Newest
  <1>2. fields \in RingFields /\ n \in Nat
        /\ frames # <<>> /\ fields.end = frames[n].at
    BY <1>1 DEF RingInv, RingTypes, FieldsAs
  <1>3. n \in 1..n /\ frames \in Seq(RingFrames)
    BY <1>2, EmptySeq DEF RingInv, RingTypes
  <1>4. frames[n].at \in Cells /\ frames[n].len + 1 \in 0..Size
        /\ Tip(frames) = RingReader!Wrap(frames[n].at + frames[n].len + 1) /\ Tip(frames) \in Cells
    <2>1. frames[n].at \in Cells /\ frames[n].len \in 1..(Size - 1)
      BY <1>3, FrameTypes
    <2>2. Tip(frames) \in Cells
      BY <1>3, FrameTypes
    <2>3. QED BY <1>2, <2>1, <2>2, RingConstants DEF Tip
  <1>5. fields' \in RingFields /\ FieldsAs(fields', frames)
    <2>1. CASE fields.set = 0
      <3>1. fields' = [fields EXCEPT !.set = 1, !.start = frames[n].at]
        BY <1>1, <2>1
      <3>2. /\ fields' \in RingFields
            /\ fields'.set = 1 /\ fields'.start = frames[n].at /\ fields'.end = frames[n].at
        BY <1>2, <1>4, <3>1, FieldSet DEF RingFields
      <3>3. QED BY <1>2, <3>2 DEF FieldsAs
    <2>2. CASE fields.set = 1
      <3>1. fields' = [fields EXCEPT !.set = 2, !.len = frames[n].len + 1]
        BY <1>1, <2>2
      <3>2. fields.start = frames[n].at
        BY <1>2, <2>2 DEF RingInv, FieldsAs
      <3>3. /\ fields' \in RingFields
            /\ fields'.set = 2 /\ fields'.start = frames[n].at /\ fields'.end = frames[n].at
            /\ fields'.len = frames[n].len + 1
        BY <1>2, <1>4, <3>1, <3>2, FieldSet DEF RingFields
      <3>4. QED BY <1>2, <3>3 DEF FieldsAs
    <2>3. CASE fields.set = 2
      <3>1. fields' = [fields EXCEPT !.set = 3, !.end = Tip(frames)]
        BY <1>1, <1>4, <2>3
      <3>2. fields.start = frames[n].at /\ fields.len = frames[n].len + 1
        BY <1>2, <2>3 DEF RingInv, FieldsAs
      <3>3. /\ fields' \in RingFields
            /\ fields'.set = 3 /\ fields'.start = frames[n].at /\ fields'.end = Tip(frames)
            /\ fields'.len = frames[n].len + 1
        BY <1>2, <1>4, <3>1, <3>2, FieldSet DEF RingFields
      <3>4. QED BY <1>2, <3>3 DEF FieldsAs
    <2>4. fields.set \in {0, 1, 2}
      <3>1. fields.set \in 0..3 /\ fields.set < 3
        BY <1>1, <1>2 DEF RingFields
      <3>2. QED BY <3>1
    <2>5. QED BY <2>1, <2>2, <2>3, <2>4
  <1>6. RingTypes' /\ FieldsAs(fields, frames)'
    BY <1>1, <1>5 DEF RingInv, RingTypes
  <1>7. \A w : fields.set < 3 /\ InRing(w) => InRing(w)'
    BY <1>1 DEF InRing
  <1>8. QED BY <1>1, <1>5, <1>6, <1>7 DEF RingInv

LEMMA DepositKeeps ==
  ASSUME RingInv, RingReader!Deposit
  PROVE  RingInv'
  <1> DEFINE n == Len(frames)
  <1>1. /\ deposited = FALSE /\ deposited' = TRUE
        /\ UNCHANGED <<frames, fields, reader, emitted, lost>>
        /\ ring' = [c \in DOMAIN ring |-> IF c \in RingReader!CellsOf(frames[n]) THEN n ELSE ring[c]]
    BY DEF RingReader!Deposit, RingReader!Newest, RingInv, RingTypes
  <1>2. ring' \in [Cells -> 0..MaxFrames]
    BY <1>1, RingConstants DEF RingInv, RingTypes
  <1>3. RingTypes' /\ FieldsAs(fields, frames)'
    BY <1>1, <1>2 DEF RingInv, RingTypes, FieldsAs
  <1>4. ASSUME NEW w \in 1..(n + 1), InRing(w) PROVE InRing(w)'
    <2>1. Boundary(frames, w) \in Cells /\ frames \in Seq(RingFrames) /\ ring \in [Cells -> 0..MaxFrames]
      BY FrameTypes DEF RingInv, RingTypes
    <2>2. Spaced(frames, Boundary(frames, w), w) /\ Stored(frames, ring, FALSE, w)
      BY <1>1, <1>4 DEF InRing
    <2>3. Stored(frames, ring', TRUE, w)
      BY <1>1, <2>1, <2>2, StoredDeposits
    <2>4. QED BY <1>1, <1>4, <2>3 DEF InRing
  <1>5. QED BY <1>1, <1>3, <1>4 DEF RingInv

\* The producer begins a frame without running over one that is still to be read.
LEMMA BeginKeeps ==
  ASSUME Mishaps = {}, RingInv, NEW len \in Lengths, RingReader!Begin(len)
  PROVE  RingInv'
  <1> DEFINE n == Len(frames)
  <1>1. /\ n < MaxFrames /\ fields.set = 3 /\ deposited = TRUE
        /\ reader.at = "attach" \/ RingReader!InUse + 1 + len < Size
        /\ fields.end + 1 + len # Size
        /\ frames' = Append(frames, [at |-> fields.end, len |-> len])
        /\ ring' = [ring EXCEPT ![fields.end] = n + 1]
        /\ fields' = [fields EXCEPT !.set = 0]
        /\ deposited' = FALSE
        /\ UNCHANGED <<reader, emitted, lost>>
    BY DEF RingReader!Begin, RingInv, RingTypes
  <1>2. /\ fields.end = Tip(frames) /\ frames \in Seq(RingFrames) /\ n \in Nat /\ RingTypes
        /\ ring \in [Cells -> 0..MaxFrames] /\ Tip(frames) \in Cells
    <2>1. RingTypes /\ fields.end = Tip(frames)
      BY <1>1 DEF RingInv, FieldsAs
    <2>2. QED BY <2>1, FrameTypes, FrameCount DEF RingTypes
  <1>3. /\ frames' \in Seq(RingFrames) /\ Len(frames') = n + 1 /\ frames' # <<>>
        /\ frames'[n + 1].at = Tip(frames)
        /\ \A k \in 1..n : frames'[k] = frames[k]
    <2>1. [at |-> fields.end, len |-> len] \in RingFrames
      BY <1>2 DEF RingFrames, Cells
    <2>2. frames' \in Seq(RingFrames) /\ Len(frames') = n + 1 /\ frames'[n + 1] = [at |-> fields.end, len |-> len]
          /\ \A k \in 1..n : frames'[k] = frames[k]
      BY <1>1, <1>2, <2>1
    <2>3. QED BY <1>2, <2>2, EmptySeq
  <1>4. RingTypes'
    <2>1. ring' \in [Cells -> 0..MaxFrames]
      BY <1>1, <1>2, RingConstants
    <2>2. fields' \in RingFields
      <3>1. fields \in RingFields /\ fields' = [fields EXCEPT !.set = 0]
        BY <1>1, <1>2 DEF RingTypes
      <3>2. QED BY <3>1 DEF RingFields
    <2>3. n + 1 <= MaxFrames
      BY <1>1, <1>2, RingConstants
    <2>4. QED BY <1>1, <1>2, <1>3, <2>1, <2>2, <2>3 DEF RingTypes
  <1>5. FieldsAs(fields, frames)'
    BY <1>1, <1>2, <1>3 DEF FieldsAs, RingTypes
  <1>6. ASSUME NEW w \in 1..(n + 1), Onward(w), reader.at # "attach"
        PROVE  w \in 1..(Len(frames') + 1) /\ Onward(w)'
    <2>1. RingReader!Oldest = Boundary(frames, w) /\ Boundary(frames, w) \in Cells
      BY <1>2, <1>6, OldestIs, FrameTypes DEF Onward
    <2>2. RingReader!InUse = Ahead(Boundary(frames, w), Tip(frames))
      BY <1>2, <2>1, AheadMod DEF RingReader!InUse
    <2>3. Spaced(frames, Boundary(frames, w), w) /\ Stored(frames, ring, TRUE, w)
      BY <1>1, <1>6 DEF Onward, InRing
    <2>4. /\ \A k \in 1..(n + 1) : Boundary(frames', k) = Boundary(frames, k)
          /\ Spaced(frames', Boundary(frames, w), w)
      <3>1. Begins(frames', frames, len)
        BY <1>1, <1>2 DEF Begins
      <3>2. Ahead(Boundary(frames, w), Tip(frames)) + 1 + len < Size /\ Tip(frames) + 1 + len # Size
        BY <1>1, <1>2, <1>6, <2>2
      <3>3. QED BY <1>2, <2>1, <2>3, <3>1, <3>2, SpacedBegins
    <2>5. Stored(frames', ring', FALSE, w)
      BY <1>1, <1>2, <1>3, <2>1, <2>3, <2>4, StoredBegins
    <2>6. InRing(w)'
      <3>1. Boundary(frames', w) = Boundary(frames, w) /\ w <= Len(frames')
        BY <1>2, <1>3, <2>4
      <3>2. Stored(frames', ring', deposited', w)
        BY <1>1, <2>5
      <3>3. QED BY <2>4, <3>1, <3>2 DEF InRing
    <2>7. Len(reader.batch) \in Nat /\ ReaderFrom(reader, frames, w)
      BY <1>2, <1>6 DEF RingTypes, Readers, Onward
    <2>8. ReaderFrom(reader, frames', w)
      BY <1>2, <1>3, <2>4, <2>7, ReaderStays
    <2>9. QED BY <1>1, <1>2, <1>3, <1>6, <2>6, <2>8 DEF Onward
  <1>7. QED BY <1>1, <1>4, <1>5, <1>6 DEF RingInv, Onward

----------------------------------------------------------------------------
(* The reader's steps. *)

\* Readers whose fields have changed are readers.
LEMMA ReaderField ==
  ASSUME NEW r \in Readers, NEW at \in Ats, NEW x \in Cells, NEW k \in Nat, NEW b \in Seq(RingEntries)
  PROVE  /\ [r EXCEPT !.at = at] \in Readers
         /\ [r EXCEPT !.start = x] \in Readers /\ [r EXCEPT !.end = x] \in Readers
         /\ [r EXCEPT !.prev = x] \in Readers /\ [r EXCEPT !.cur = x] \in Readers
         /\ [r EXCEPT !.steps = k] \in Readers /\ [r EXCEPT !.batch = b] \in Readers
  BY DEF Readers

LEMMA ReaderMoves ==
  ASSUME NEW r \in Readers, NEW at \in Ats, NEW x \in Cells
  PROVE  /\ [r EXCEPT !.at = at] \in Readers
         /\ [r EXCEPT !.at = at, !.start = x] \in Readers
         /\ [r EXCEPT !.at = at, !.end = x] \in Readers
         /\ [r EXCEPT !.at = at, !.prev = x] \in Readers
  <1> DEFINE a == [r EXCEPT !.at = at]
  <1>1. /\ [r EXCEPT !.at = at, !.start = x] = [a EXCEPT !.start = x]
        /\ [r EXCEPT !.at = at, !.end = x] = [a EXCEPT !.end = x]
        /\ [r EXCEPT !.at = at, !.prev = x] = [a EXCEPT !.prev = x]
    OBVIOUS
  <1>2. a \in Readers /\ 0 \in Nat /\ <<>> \in Seq(RingEntries)
    BY DEF Readers
  <1> HIDE DEF a
  <1>3. /\ [a EXCEPT !.start = x] \in Readers /\ [a EXCEPT !.end = x] \in Readers
        /\ [a EXCEPT !.prev = x] \in Readers
    BY <1>2, ReaderField, Zenon
  <1>4. QED BY <1>1, <1>2, <1>3 DEF a

LEMMA ReaderBatches ==
  ASSUME NEW r \in Readers, NEW at \in Ats, NEW x \in Cells, NEW b \in Seq(RingEntries)
  PROVE  /\ [r EXCEPT !.at = at, !.batch = b] \in Readers
         /\ [r EXCEPT !.at = at, !.batch = b, !.prev = x] \in Readers
  <1> DEFINE a == [r EXCEPT !.at = at]
             ab == [a EXCEPT !.batch = b]
  <1>1. /\ [r EXCEPT !.at = at, !.batch = b] = [a EXCEPT !.batch = b]
        /\ [r EXCEPT !.at = at, !.batch = b, !.prev = x] = [ab EXCEPT !.prev = x]
    OBVIOUS
  <1>2. a \in Readers /\ 0 \in Nat
    BY DEF Readers
  <1> HIDE DEF a
  <1>3. ab \in Readers
    BY <1>2, ReaderField, Zenon
  <1>4. [a EXCEPT !.batch = b] \in Readers
    BY <1>3
  <1> HIDE DEF ab
  <1>5. [ab EXCEPT !.prev = x] \in Readers
    BY <1>2, <1>3, ReaderField, Zenon
  <1>6. QED BY <1>1, <1>4, <1>5

LEMMA ReaderWalks ==
  ASSUME NEW r \in Readers, NEW at \in Ats, NEW x \in Cells, NEW k \in Nat, NEW b \in Seq(RingEntries)
  PROVE  /\ [r EXCEPT !.cur = x, !.steps = k, !.batch = b] \in Readers
         /\ [r EXCEPT !.at = at, !.cur = x, !.steps = k, !.batch = b] \in Readers
  <1> DEFINE c == [r EXCEPT !.cur = x]
             cs == [c EXCEPT !.steps = k]
             a == [r EXCEPT !.at = at]
             ac == [a EXCEPT !.cur = x]
             acs == [ac EXCEPT !.steps = k]
  <1>1. /\ [r EXCEPT !.cur = x, !.steps = k, !.batch = b] = [cs EXCEPT !.batch = b]
        /\ [r EXCEPT !.at = at, !.cur = x, !.steps = k, !.batch = b] = [acs EXCEPT !.batch = b]
    OBVIOUS
  <1>2. a \in Readers /\ c \in Readers
    BY ReaderField
  <1> HIDE DEF a, c
  <1>3. cs \in Readers /\ ac \in Readers
    BY <1>2, ReaderField
  <1> HIDE DEF cs, ac
  <1>4. acs \in Readers
    BY <1>3, ReaderField
  <1> HIDE DEF acs
  <1>5. QED BY <1>1, <1>2, <1>3, <1>4, ReaderField

\* Nothing but the reader, what it has emitted and whether it has skipped changes.
Reads == UNCHANGED <<ring, frames, fields, deposited>>

LEMMA InRingStays == ASSUME Reads PROVE \A w : InRing(w) => InRing(w)'
  BY DEF Reads, InRing

LEMMA AttachKeeps ==
  ASSUME Mishaps = {}, RingInv, RingReader!Attach
  PROVE  RingInv'
  <1> DEFINE n == Len(frames)
             p == RingReader!ProducerEnd(fields.start, fields.len)
  <1>1. /\ reader.at = "attach" /\ fields.set = 3 /\ Reads /\ UNCHANGED <<emitted, lost>>
        /\ reader' = [reader EXCEPT !.at = "start", !.prev = p]
    BY DEF RingReader!Attach, Reads
  <1>2. RingTypes /\ FieldsAs(fields, frames) /\ emitted = <<>> /\ reader.batch = <<>> /\ n \in Nat
        /\ reader \in Readers /\ frames \in Seq(RingFrames) /\ n + 1 \in 1..(n + 1)
    BY <1>1, FrameCount DEF RingInv, RingTypes
  <1>3. p = Tip(frames) /\ p \in Cells
    <2>1. CASE frames = <<>>
      BY <1>1, <1>2, <2>1, RingConstants DEF FieldsAs, Tip, RingReader!ProducerEnd, RingReader!Wrap, Cells
    <2>2. CASE frames # <<>>
      <3>1. n \in 1..n
        BY <1>2, <2>2, EmptySeq
      <3>2. frames[n].at \in Cells /\ frames[n].len \in 1..(Size - 1)
        BY <1>2, <3>1, FrameTypes
      <3>3. fields.start = frames[n].at /\ fields.len = frames[n].len + 1
        BY <1>1, <1>2, <2>2 DEF FieldsAs
      <3>4. frames[n].at + (frames[n].len + 1) = frames[n].at + frames[n].len + 1
        BY <3>2, Regrouped
      <3>5. p = Tip(frames)
        BY <2>2, <3>3, <3>4 DEF Tip, RingReader!ProducerEnd
      <3>6. QED BY <1>2, <3>5, FrameTypes
    <2>3. QED BY <2>1, <2>2
  <1> HIDE DEF p
  <1>4. reader' \in Readers /\ reader'.at = "start" /\ reader'.prev = Tip(frames) /\ reader'.batch = <<>>
    <2>1. "start" \in Ats
      BY DEF Ats
    <2>2. reader' \in Readers
      BY <1>1, <1>2, <1>3, <2>1, ReaderMoves, Zenon
    <2>3. QED BY <1>1, <1>2, <1>3, <2>2 DEF Readers
  <1>5. RingTypes' /\ FieldsAs(fields, frames)'
    BY <1>1, <1>2, <1>4 DEF RingTypes, Reads
  <1>6. Boundary(frames, n + 1) = Tip(frames)
    BY <1>2 DEF Boundary
  <1>7. InRing(n + 1)'
    BY <1>1, <1>2, <1>6 DEF InRing, Spaced, Stored, Reads
  <1>8. ReaderFrom(reader', frames, n + 1) /\ EmittedTo(emitted, n + 1, lost)
    BY <1>2, <1>4, <1>6 DEF ReaderFrom, EmittedTo
  <1>9. Len(frames') + 1 \in 1..(Len(frames') + 1) /\ Onward(n + 1)' /\ reader'.at # "attach"
    BY <1>1, <1>2, <1>4, <1>7, <1>8 DEF Onward, Reads
  <1>10. QED BY <1>1, <1>5, <1>9 DEF RingInv, Onward, Reads

LEMMA ReadStartKeeps ==
  ASSUME RingInv, RingReader!ReadStart \/ RingReader!ReadLen
  PROVE  RingInv'
  <1>1. /\ reader.at \in {"start", "len"} /\ Reads /\ UNCHANGED <<emitted, lost>>
        /\ reader' = [reader EXCEPT !.at = "len", !.start = fields.start]
           \/ reader' = [reader EXCEPT !.at = "compare", !.end = RingReader!ProducerEnd(reader.start, fields.len)]
    BY DEF RingReader!ReadStart, RingReader!ReadLen, Reads
  <1>2. RingTypes /\ reader \in Readers /\ fields.start \in Cells /\ reader.start \in Cells /\ fields.len \in 0..Size
    BY DEF RingInv, RingTypes, RingFields, Readers
  <1>3. RingReader!ProducerEnd(reader.start, fields.len) \in Cells
    BY <1>2, RingConstants DEF RingReader!ProducerEnd, RingReader!Wrap, Cells
  <1>4. /\ reader' \in Readers /\ reader'.at \in {"len", "compare"} /\ reader'.prev = reader.prev
        /\ reader'.batch = reader.batch
    <2>1. "len" \in Ats /\ "compare" \in Ats
      BY DEF Ats
    <2>2. reader' \in Readers
      <3>1. CASE reader' = [reader EXCEPT !.at = "len", !.start = fields.start]
        BY <1>2, <2>1, <3>1, ReaderMoves, Zenon
      <3>2. CASE reader' = [reader EXCEPT !.at = "compare",
                                          !.end = RingReader!ProducerEnd(reader.start, fields.len)]
        BY <1>2, <1>3, <2>1, <3>2, ReaderMoves, Zenon
      <3>3. QED BY <1>1, <3>1, <3>2
    <2>3. QED BY <1>1, <1>2, <2>2 DEF Readers
  <1>5. RingTypes' /\ FieldsAs(fields, frames)'
    BY <1>1, <1>2, <1>4 DEF RingInv, RingTypes, Reads
  <1>6. \A w : Onward(w) => Onward(w)'
    BY <1>1, <1>4, InRingStays DEF Onward, ReaderFrom, Reads
  <1>7. reader.at # "attach" /\ reader'.at # "attach"
    BY <1>1, <1>4
  <1>8. QED BY <1>1, <1>5, <1>6, <1>7 DEF RingInv, Onward, Reads

\* Fields that agree say where a frame that is still to be read starts, or the newest ends.
LEMMA EndIsBoundary ==
  ASSUME RingTypes, FieldsAs(fields, frames), NEW w \in 1..(Len(frames) + 1), InRing(w)
  PROVE  \E v \in w..(Len(frames) + 1) :
             fields.end = Boundary(frames, v) /\ (fields.set < 3 => v <= Len(frames))
  <1> DEFINE n == Len(frames)
  <1>1. n \in Nat /\ fields.set \in 0..3
    BY FrameCount DEF RingTypes, RingFields
  <1>2. CASE fields.set = 3
    <2>1. n + 1 \in w..(n + 1) /\ fields.end = Boundary(frames, n + 1)
      BY <1>1, <1>2 DEF FieldsAs, Boundary
    <2>2. QED BY <1>2, <2>1
  <1>3. CASE fields.set < 3
    <2>1. w <= n
      BY <1>3 DEF InRing
    <2>2. n \in w..(n + 1) /\ fields.end = Boundary(frames, n)
      BY <1>1, <1>3, <2>1 DEF FieldsAs, Boundary
    <2>3. QED BY <1>1, <2>2
  <1>4. QED BY <1>1, <1>2, <1>3

LEMMA CompareKeeps ==
  ASSUME RingInv, RingReader!Compare
  PROVE  RingInv'
  <1> DEFINE n == Len(frames)
  <1>1. /\ reader.at = "compare" /\ Reads /\ UNCHANGED <<emitted, lost>>
        /\ \/ reader' = [reader EXCEPT !.at = "start"]
           \/ /\ reader.end = fields.end /\ reader.end # reader.prev
              /\ reader' = [reader EXCEPT !.at = "walk", !.cur = reader.prev, !.steps = 0, !.batch = <<>>]
    BY DEF RingReader!Compare, RingReader!Agrees, Reads
  <1>2. RingTypes /\ FieldsAs(fields, frames) /\ reader \in Readers /\ reader.prev \in Cells
        /\ 0 \in Nat /\ <<>> \in Seq(RingEntries) /\ "start" \in Ats /\ "walk" \in Ats /\ n \in Nat
    BY FrameCount DEF RingInv, RingTypes, Readers, Ats
  <1>3. PICK w \in 1..(n + 1) : Onward(w)
    BY <1>1 DEF RingInv, Onward
  <1>4. reader.batch = <<>> /\ reader.prev = Boundary(frames, w)
    BY <1>1, <1>3 DEF Onward, ReaderFrom
  <1>5. CASE reader' = [reader EXCEPT !.at = "start"]
    <2>1. reader' \in Readers /\ reader'.at = "start" /\ reader'.prev = reader.prev /\ reader'.batch = <<>>
      <3>1. reader' \in Readers
        BY <1>2, <1>5, ReaderMoves, Zenon
      <3>2. QED BY <1>2, <1>4, <1>5, <3>1 DEF Readers
    <2>2. ReaderFrom(reader', frames, w)
      BY <1>4, <2>1 DEF ReaderFrom
    <2>3. RingTypes' /\ FieldsAs(fields, frames)'
      BY <1>1, <1>2, <1>4, <2>1 DEF RingTypes, Reads
    <2>4. Onward(w)' /\ w \in 1..(Len(frames') + 1) /\ reader'.at # "attach"
      BY <1>1, <1>3, <2>1, <2>2, InRingStays DEF Onward, Reads
    <2>5. QED BY <2>3, <2>4 DEF RingInv, Onward
  <1>6. CASE /\ reader.end = fields.end /\ reader.end # reader.prev
             /\ reader' = [reader EXCEPT !.at = "walk", !.cur = reader.prev, !.steps = 0, !.batch = <<>>]
    <2>1. /\ reader' \in Readers /\ reader'.at = "walk" /\ reader'.prev = reader.prev /\ reader'.batch = <<>>
          /\ reader'.cur = reader.prev /\ reader'.steps = 0 /\ reader'.end = fields.end
      <3>1. reader' \in Readers
        BY <1>2, <1>6, ReaderWalks, Zenon
      <3>2. QED BY <1>2, <1>6, <3>1 DEF Readers
    <2>2. PICK v \in w..(n + 1) : fields.end = Boundary(frames, v)
      BY <1>2, <1>3, EndIsBoundary DEF Onward
    <2>3. Len(reader'.batch) = 0 /\ w + 0 = w /\ 0 < Batch
      BY <2>1, RingConstants
    <2>4. ReaderFrom(reader', frames, w)
      BY <1>4, <2>1, <2>2, <2>3 DEF ReaderFrom, BatchFrom
    <2>5. RingTypes' /\ FieldsAs(fields, frames)'
      BY <1>1, <1>2, <2>1, <2>3, RingConstants DEF RingTypes, Reads
    <2>6. Onward(w)' /\ w \in 1..(Len(frames') + 1) /\ reader'.at # "attach"
      BY <1>1, <1>3, <2>1, <2>4, InRingStays DEF Onward, Reads
    <2>7. QED BY <2>5, <2>6 DEF RingInv, Onward
  <1>7. QED BY <1>1, <1>5, <1>6

LEMMA ResyncKeeps ==
  ASSUME RingInv, RingReader!Resync
  PROVE  RingInv'
  <1> DEFINE n == Len(frames)
  <1>1. /\ reader.at = "compare" /\ Reads /\ UNCHANGED emitted /\ lost' = TRUE /\ reader.end = fields.end
        /\ reader' = [reader EXCEPT !.at = "start", !.prev = reader.end]
    BY DEF RingReader!Resync, RingReader!Agrees, Reads
  <1>2. RingTypes /\ FieldsAs(fields, frames) /\ reader \in Readers /\ reader.end \in Cells
        /\ "start" \in Ats /\ n \in Nat /\ frames \in Seq(RingFrames)
    BY FrameCount DEF RingInv, RingTypes, Readers, Ats
  <1>3. PICK w \in 1..(n + 1) : Onward(w)
    BY <1>1 DEF RingInv, Onward
  <1>4. PICK v \in w..(n + 1) : fields.end = Boundary(frames, v) /\ (fields.set < 3 => v <= n)
    BY <1>2, <1>3, EndIsBoundary DEF Onward
  <1>5. /\ reader' \in Readers /\ reader'.at = "start" /\ reader'.prev = Boundary(frames, v)
        /\ reader'.batch = <<>>
    <2>1. reader' \in Readers
      BY <1>1, <1>2, ReaderMoves, Zenon
    <2>2. reader.batch = <<>>
      BY <1>1, <1>3 DEF Onward, ReaderFrom
    <2>3. QED BY <1>1, <1>2, <1>4, <2>1, <2>2 DEF Readers
  <1>6. InRing(v)
    <2>1. Boundary(frames, w) \in Cells
      BY <1>2, FrameTypes
    <2>2. Spaced(frames, Boundary(frames, v), v)
      BY <1>2, <1>3, <2>1, SpacedMoves DEF Onward, InRing
    <2>3. \A k \in v..n : k \in w..n
      BY <1>2
    <2>4. Stored(frames, ring, deposited, v)
      BY <1>3, <2>3 DEF Onward, InRing, Stored
    <2>5. QED BY <1>4, <2>2, <2>4 DEF InRing
  <1>7. EmittedTo(emitted, v, TRUE)
    <2>1. EmittedTo(emitted, w, lost) /\ emitted \in Seq([id : Nat, whole : BOOLEAN]) /\ w <= v
      BY <1>2, <1>3 DEF Onward, RingTypes
    <2>2. emitted # <<>> => emitted[Len(emitted)].id < v
      <3> SUFFICES ASSUME emitted # <<>> PROVE emitted[Len(emitted)].id < v
        OBVIOUS
      <3>1. Len(emitted) \in 1..Len(emitted)
        BY <2>1, EmptySeq
      <3>2. emitted[Len(emitted)].id \in Nat /\ emitted[Len(emitted)].id < w
        <4>1. emitted[Len(emitted)] \in [id : Nat, whole : BOOLEAN]
          BY <2>1, <3>1, ElementOfSeq, Zenon
        <4>2. QED BY <2>1, <4>1 DEF EmittedTo
      <3>3. QED BY <2>1, <3>2, <1>2
    <2>3. QED BY <2>1, <2>2 DEF EmittedTo
  <1>8. ReaderFrom(reader', frames, v)
    BY <1>5 DEF ReaderFrom
  <1>9. RingTypes' /\ FieldsAs(fields, frames)'
    BY <1>1, <1>2, <1>5 DEF RingTypes, Reads
  <1>10. Onward(v)' /\ v \in 1..(Len(frames') + 1) /\ reader'.at # "attach"
    <2>1. InRing(v)'
      BY <1>1, <1>6, InRingStays
    <2>2. frames' = frames /\ emitted' = emitted /\ lost' = TRUE
      BY <1>1 DEF Reads
    <2>3. ReaderFrom(reader, frames, v)' /\ EmittedTo(emitted, v, lost)'
      BY <1>7, <1>8, <2>2
    <2>4. v \in 1..(n + 1)
      BY <1>2
    <2>5. QED BY <1>5, <2>1, <2>2, <2>3, <2>4 DEF Onward
  <1>11. QED BY <1>9, <1>10 DEF RingInv, Onward

\* The end of a walk: the newest frame is held back, and is where the next walk starts.
LEMMA CollectedKeeps ==
  ASSUME NEW fr \in Seq(RingFrames), NEW r \in Readers, NEW w \in 1..(Len(fr) + 1),
         BatchFrom(r.batch, fr, w), w + Len(r.batch) <= Len(fr) + 1, Len(r.batch) <= Batch,
         r.prev = Boundary(fr, w)
  PROVE  /\ RingReader!Collected(r) \in Readers /\ Len(RingReader!Collected(r).batch) <= Batch
         /\ ReaderFrom(RingReader!Collected(r), fr, w) /\ RingReader!Collected(r).at # "attach"
  <1> DEFINE n == Len(fr)
             m == Len(r.batch)
             c == RingReader!Collected(r)
  <1>1. n \in Nat /\ m \in Nat /\ r.batch \in Seq(RingEntries) /\ "start" \in Ats /\ "copy" \in Ats
        /\ <<>> \in Seq(RingEntries) /\ Len(<<>>) = 0
    BY DEF Readers, Ats
  <1>2. CASE m <= 1
    <2>1. c = [r EXCEPT !.at = "start", !.batch = <<>>]
      BY <1>2 DEF RingReader!Collected
    <2>2. r.prev \in Cells
      BY DEF Readers
    <2>3. c \in Readers
      <3>1. [r EXCEPT !.at = "start", !.batch = <<>>] \in Readers
        BY <1>1, <2>2, ReaderBatches, Zenon
      <3>2. QED BY <2>1, <3>1
    <2>4. c.at = "start" /\ c.batch = <<>> /\ c.prev = r.prev
      BY <2>1 DEF Readers
    <2>5. QED BY <1>1, <2>3, <2>4, RingConstants DEF ReaderFrom
  <1>3. CASE m > 1
    <2> DEFINE b == SubSeq(r.batch, 1, m - 1)
               p == r.batch[m].at
    <2>1. c = [r EXCEPT !.at = "copy", !.batch = b, !.prev = p]
      <3>1. ~(m <= 1)
        BY <1>1, <1>3
      <3>2. QED BY <1>1, <3>1 DEF RingReader!Collected, RingReader!Held
    <2>2. b \in Seq(RingEntries) /\ Len(b) = m - 1 /\ \A i \in 1..(m - 1) : b[i] = r.batch[i]
      BY <1>1, <1>3
    <2>3. p = fr[w + m - 1].at /\ w + m - 1 = w + (m - 1) /\ w + m - 1 \in 1..n
      <3>1. m \in 1..m
        BY <1>1, <1>3
      <3>2. r.batch[m] = [id |-> w + m - 1, at |-> fr[w + m - 1].at, len |-> fr[w + m - 1].len]
        BY <3>1, Zenon DEF BatchFrom
      <3>3. QED BY <1>1, <1>3, <3>2
    <2>4. p = Boundary(fr, w + Len(b)) /\ p \in Cells
      <3>1. fr[w + m - 1].at \in Cells
        BY <2>3, FrameTypes
      <3>2. QED BY <2>2, <2>3, <3>1 DEF Boundary
    <2>5. BatchFrom(b, fr, w)
      <3> SUFFICES ASSUME NEW i \in 1..(m - 1)
                   PROVE  b[i] = [id |-> w + i - 1, at |-> fr[w + i - 1].at, len |-> fr[w + i - 1].len]
        BY <2>2 DEF BatchFrom
      <3>1. i \in 1..m
        BY <1>1
      <3>2. QED BY <2>2, <3>1 DEF BatchFrom
    <2> HIDE DEF b, p
    <2>6. c \in Readers
      <3>1. [r EXCEPT !.at = "copy", !.batch = b, !.prev = p] \in Readers
        BY <1>1, <2>2, <2>4, ReaderBatches, Zenon
      <3>2. QED BY <2>1, <3>1
    <2>7. c.at = "copy" /\ c.batch = b /\ c.prev = p
      BY <2>1 DEF Readers
    <2>8. b # <<>> /\ w + Len(b) <= n /\ Len(b) <= Batch
      BY <1>1, <1>3, <2>2, <2>3, RingConstants
    <2>9. QED BY <2>4, <2>5, <2>6, <2>7, <2>8 DEF ReaderFrom
  <1>4. QED BY <1>1, <1>2, <1>3

\* The header that the walk reads is that of the frame it has come to.
LEMMA HeaderRead ==
  ASSUME RingTypes, NEW w \in 1..(Len(frames) + 1), InRing(w), NEW k \in w..Len(frames)
  PROVE  RingReader!Headers(RingReader!Wrap(Boundary(frames, k))) = {[id |-> k, len |-> frames[k].len]}
  <1>1. k \in 1..Len(frames) /\ frames[k].at \in Cells
    <2>1. k \in 1..Len(frames)
      BY FrameCount
    <2>2. QED BY <2>1, FrameTypes DEF RingTypes
  <1>2. Boundary(frames, k) = frames[k].at /\ RingReader!Wrap(frames[k].at) = frames[k].at
    BY <1>1, WrapCell, FrameCount DEF Boundary
  <1>3. ring[frames[k].at] = k /\ k # 0
    BY <1>1 DEF InRing, Stored
  <1>4. QED BY <1>2, <1>3 DEF RingReader!Headers

\* The cursor moves from a frame to the next, which does not start at the ring's end.
LEMMA CursorMoves ==
  ASSUME RingTypes, NEW w \in 1..(Len(frames) + 1), InRing(w), NEW k \in w..Len(frames)
  PROVE  /\ RingReader!MovePtr(frames[k].at, 1 + frames[k].len) = Boundary(frames, k + 1)
         /\ Boundary(frames, k + 1) \in Cells /\ ~(frames[k].len > Size - 1)
  <1>1. k \in 1..Len(frames) /\ k + 1 \in 1..(Len(frames) + 1) /\ frames \in Seq(RingFrames)
    BY FrameCount DEF RingTypes
  <1>2. frames[k].at \in Cells /\ frames[k].len \in 1..(Size - 1) /\ Boundary(frames, k + 1) \in Cells
    BY <1>1, FrameTypes
  <1>3. /\ Boundary(frames, k + 1) = RingReader!Wrap(frames[k].at + frames[k].len + 1)
        /\ frames[k].at + frames[k].len + 1 # Size
    BY DEF InRing, Spaced
  <1>4. \A a \in Cells, l \in 1..(Size - 1) :
            /\ ~(l > Size - 1)
            /\ a + l + 1 # Size => RingReader!MovePtr(a, 1 + l) = RingReader!Wrap(a + l + 1)
    BY RingConstants DEF Cells, RingReader!MovePtr, RingReader!Wrap
  <1>5. QED BY <1>2, <1>3, <1>4, Zenon

\* The walk has not come to its bound.
LEMMA StepsLeft ==
  ASSUME RingTypes, NEW w \in 1..(Len(frames) + 1), InRing(w), NEW k \in w..Len(frames)
  PROVE  k - w # Size + 2
  <1> DEFINE o == Boundary(frames, w)
  <1>1. k \in 1..Len(frames) /\ w \in 1..Len(frames) /\ w \in w..Len(frames) /\ frames \in Seq(RingFrames)
        /\ k \in Nat /\ w \in Nat
    BY FrameCount DEF RingTypes
  <1>2. frames[k].at \in Cells /\ frames[w].at \in Cells /\ o \in Cells
    BY <1>1, FrameTypes
  <1>3. w < k => k - w <= Ahead(o, frames[k].at) - Ahead(o, frames[w].at)
    BY <1>1 DEF InRing, Spaced
  <1>4. Ahead(o, frames[k].at) \in Cells /\ Ahead(o, frames[w].at) \in Cells
    BY <1>2, AheadType
  <1>5. \A a, b \in Cells : a - b < Size + 2
    BY RingConstants DEF Cells
  <1>6. CASE w < k
    BY <1>1, <1>2, <1>3, <1>4, <1>5, RingConstants DEF Cells
  <1>7. CASE w = k
    BY <1>1, <1>7, RingConstants
  <1>8. QED BY <1>1, <1>6, <1>7

LEMMA WalkKeeps ==
  ASSUME RingInv, RingReader!Walk
  PROVE  RingInv'
  <1> DEFINE n == Len(frames)
             b == reader.batch
             m == Len(b)
  <1>1. reader.at = "walk" /\ Reads /\ UNCHANGED emitted
    BY DEF RingReader!Walk, Reads
  <1>2. RingTypes /\ FieldsAs(fields, frames) /\ reader \in Readers /\ n \in Nat /\ frames \in Seq(RingFrames)
        /\ b \in Seq(RingEntries) /\ m \in Nat
    BY FrameCount DEF RingInv, RingTypes, Readers
  <1>3. PICK w \in 1..(n + 1) : Onward(w)
    BY <1>1 DEF RingInv, Onward
  <1> DEFINE k == w + m
  <1>4. /\ reader.prev = Boundary(frames, w) /\ reader.cur = Boundary(frames, k)
        /\ reader.steps = m /\ m < Batch /\ BatchFrom(b, frames, w)
        /\ \E e \in k..(n + 1) : reader.end = Boundary(frames, e)
    BY <1>1, <1>3 DEF Onward, ReaderFrom
  <1>5. PICK e \in k..(n + 1) : reader.end = Boundary(frames, e)
    BY <1>4
  <1>6. ASSUME reader' \in Readers, reader'.at # "attach", Len(reader'.batch) <= Batch, lost' = lost,
               ReaderFrom(reader', frames, w)
        PROVE  RingInv'
    <2>1. RingTypes' /\ FieldsAs(fields, frames)'
      BY <1>1, <1>2, <1>6 DEF RingTypes, Reads
    <2>2. InRing(w)'
      BY <1>1, <1>3, InRingStays DEF Onward
    <2>3. EmittedTo(emitted, w, lost)' /\ ReaderFrom(reader, frames, w)' /\ w \in 1..(Len(frames') + 1)
      BY <1>1, <1>3, <1>6 DEF Onward, Reads
    <2>4. QED BY <1>6, <2>1, <2>2, <2>3 DEF RingInv
  <1>7. CASE reader.cur = reader.end
    <2>1. reader' = RingReader!Collected(reader) /\ lost' = lost
      BY <1>7 DEF RingReader!Walk
    <2>2. w + Len(reader.batch) <= n + 1 /\ Len(reader.batch) <= Batch
      BY <1>2, <1>4, <1>5, RingConstants
    <2>3. /\ reader' \in Readers /\ Len(reader'.batch) <= Batch
          /\ ReaderFrom(reader', frames, w) /\ reader'.at # "attach"
      BY <1>2, <1>4, <2>1, <2>2, CollectedKeeps
    <2>4. QED BY <1>6, <2>1, <2>3
  <1>8. CASE reader.cur # reader.end
    <2>1. k # e
      BY <1>4, <1>5, <1>8
    <2>2. k \in w..n /\ k \in 1..n /\ k + 1 <= n + 1 /\ InRing(w)
      BY <1>2, <1>3, <1>5, <2>1 DEF Onward
    <2> DEFINE h == [id |-> k, len |-> frames[k].len]
               found == Append(b, [id |-> k, at |-> reader.cur, len |-> h.len])
               next == [reader EXCEPT !.cur = RingReader!MovePtr(@, 1 + h.len), !.steps = @ + 1, !.batch = found]
    <2>3. RingReader!Headers(RingReader!Wrap(reader.cur)) = {h}
      BY <1>2, <1>4, <2>2, HeaderRead
    <2>4. reader.cur = frames[k].at /\ reader.cur \in Cells /\ frames[k].len \in Nat /\ frames[k].len \in Lengths
      BY <1>2, <1>4, <2>2, FrameTypes DEF Boundary
    <2>5. ~(h.len > Size - 1) /\ ~(reader.steps = Size + 2)
      <3>1. k - w # Size + 2
        BY <1>2, <2>2, StepsLeft
      <3>2. k - w = m
        BY <1>2
      <3>3. ~(frames[k].len > Size - 1)
        BY <1>2, <2>2, CursorMoves
      <3>4. QED BY <1>4, <3>1, <3>2, <3>3
    <2>6. lost' = lost /\ reader' = IF Len(found) = Batch THEN RingReader!Collected(next) ELSE next
      BY <1>8, <2>3, <2>5 DEF RingReader!Walk
    <2>7. found \in Seq(RingEntries) /\ Len(found) = m + 1 /\ found[m + 1] = [id |-> k, at |-> frames[k].at, len |-> frames[k].len]
          /\ \A i \in 1..m : found[i] = b[i]
      <3>1. [id |-> k, at |-> reader.cur, len |-> h.len] \in RingEntries
        BY <1>2, <2>2, <2>4 DEF RingEntries
      <3>2. QED BY <1>2, <2>4, <3>1
    <2>8. BatchFrom(found, frames, w)
      <3> SUFFICES ASSUME NEW i \in 1..(m + 1)
                   PROVE  found[i] = [id |-> w + i - 1, at |-> frames[w + i - 1].at, len |-> frames[w + i - 1].len]
        BY <2>7 DEF BatchFrom
      <3>1. CASE i = m + 1
        <4>1. w + i - 1 = k
          BY <1>2, <3>1
        <4>2. QED BY <2>7, <3>1, <4>1
      <3>2. CASE i # m + 1
        <4>1. i \in 1..m
          BY <1>2, <3>2
        <4>2. QED BY <1>4, <2>7, <4>1 DEF BatchFrom
      <3>3. QED BY <3>1, <3>2
    <2>9. RingReader!MovePtr(reader.cur, 1 + h.len) = Boundary(frames, k + 1) /\ Boundary(frames, k + 1) \in Cells
      BY <1>2, <2>2, <2>4, CursorMoves
    <2> HIDE DEF found
    <2>10. next \in Readers /\ next.prev = reader.prev /\ next.batch = found /\ next.at = "walk"
           /\ next.end = reader.end /\ next.steps = m + 1 /\ next.cur = Boundary(frames, k + 1)
      <3>1. next = [reader EXCEPT !.cur = Boundary(frames, k + 1), !.steps = m + 1, !.batch = found]
        BY <1>4, <2>9
      <3>2. m + 1 \in Nat /\ "walk" \in Ats
        BY <1>2 DEF Ats
      <3>3. next \in Readers
        <4>1. [reader EXCEPT !.cur = Boundary(frames, k + 1), !.steps = m + 1, !.batch = found] \in Readers
          BY <1>2, <2>7, <2>9, <3>2, ReaderWalks, Zenon
        <4>2. QED BY <3>1, <4>1
      <3>4. QED BY <1>1, <1>2, <3>1, <3>3 DEF Readers
    <2> HIDE DEF next
    <2>11. w + Len(found) <= n + 1 /\ Len(found) <= Batch /\ w + Len(found) = k + 1
           /\ k + 1 \in 1..(n + 1) /\ e \in (k + 1)..(n + 1)
      <3>1. w \in 1..(n + 1) /\ m \in Nat /\ n \in Nat /\ Batch \in Nat /\ m < Batch /\ e \in k..(n + 1)
        BY <1>2, <1>4, <1>5, RingConstants
      <3>2. Len(found) = m + 1 /\ k # e
        BY <2>1, <2>7
      <3> HIDE DEF m, n
      <3>3. QED BY <3>1, <3>2
    <2>12. CASE Len(found) = Batch
      <3>1. reader' = RingReader!Collected(next)
        BY <2>6, <2>12
      <3>2. /\ reader' \in Readers /\ Len(reader'.batch) <= Batch
            /\ ReaderFrom(reader', frames, w) /\ reader'.at # "attach"
        BY <1>2, <1>4, <2>8, <2>10, <2>11, <3>1, CollectedKeeps
      <3>3. QED BY <1>6, <2>6, <3>2
    <2>13. CASE Len(found) # Batch
      <3>1. reader' = next
        BY <2>6, <2>13
      <3>2. Len(found) < Batch
        BY <1>2, <2>7, <2>11, <2>13, RingConstants
      <3>3. ReaderFrom(next, frames, w)
        BY <1>4, <1>5, <2>7, <2>8, <2>10, <2>11, <3>2 DEF ReaderFrom
      <3>4. QED BY <1>6, <2>6, <2>10, <2>11, <3>1, <3>3
    <2>14. QED BY <2>12, <2>13
  <1>9. QED BY <1>7, <1>8

LEMMA EmitsNext ==
  ASSUME NEW e \in Seq([id : Nat, whole : BOOLEAN]), NEW w \in Nat, NEW l \in BOOLEAN, EmittedTo(e, w, l)
  PROVE  /\ Append(e, [id |-> w, whole |-> TRUE]) \in Seq([id : Nat, whole : BOOLEAN])
         /\ EmittedTo(Append(e, [id |-> w, whole |-> TRUE]), w + 1, l)
  <1> DEFINE f == [id |-> w, whole |-> TRUE]
             n == Len(e)
             new == Append(e, f)
  <1>1. f \in [id : Nat, whole : BOOLEAN] /\ f.id = w /\ f.whole = TRUE /\ n \in Nat
    OBVIOUS
  <1> HIDE DEF f
  <1>2. /\ new \in Seq([id : Nat, whole : BOOLEAN]) /\ Len(new) = n + 1 /\ new[n + 1] = f
        /\ \A i \in 1..n : new[i] = e[i]
    BY <1>1
  <1> HIDE DEF new
  <1>3. \A i \in 1..(n + 1) : new[i].whole
    <2> SUFFICES ASSUME NEW i \in 1..(n + 1) PROVE new[i].whole
      OBVIOUS
    <2>1. CASE i = n + 1
      BY <1>1, <1>2, <2>1, Zenon
    <2>2. CASE i # n + 1
      <3>1. i \in 1..n
        BY <1>1, <2>2
      <3>2. e[i].whole /\ new[i] = e[i]
        BY <1>2, <3>1, Zenon DEF EmittedTo
      <3>3. QED BY <3>2, Zenon
    <2>3. QED BY <2>1, <2>2
  <1>4. ASSUME NEW i \in 2..(n + 1) PROVE new[i].id > new[i - 1].id /\ (l \/ new[i].id = new[i - 1].id + 1)
    <2>1. CASE i = n + 1
      <3>1. n \in 1..n /\ i - 1 = n /\ e # <<>>
        BY <1>1, <2>1, EmptySeq
      <3>2. e[n] \in [id : Nat, whole : BOOLEAN]
        BY <3>1, ElementOfSeq, Zenon
      <3>3. e[n].id \in Nat /\ e[n].id < w /\ (l \/ e[n].id = w - 1)
        BY <3>1, <3>2 DEF EmittedTo
      <3>4. new[i].id = w /\ new[i - 1].id = e[n].id
        BY <1>1, <1>2, <2>1, <3>1
      <3>5. w > e[n].id /\ (l \/ w = e[n].id + 1)
        <4>1. \A x \in Nat : (x < w => w > x) /\ (x = w - 1 => w = x + 1)
          OBVIOUS
        <4>2. QED BY <3>3, <4>1, Zenon
      <3>6. QED BY <3>4, <3>5, Zenon
    <2>2. CASE i # n + 1
      <3>1. i \in 2..n /\ i \in 1..n /\ i - 1 \in 1..n
        BY <1>1, <2>2
      <3>2. QED BY <1>2, <3>1 DEF EmittedTo
    <2>3. QED BY <2>1, <2>2
  <1>5. new[Len(new)].id = w
    BY <1>1, <1>2
  <1>6. w < w + 1 /\ w = (w + 1) - 1
    OBVIOUS
  <1>7. EmittedTo(new, w + 1, l)
    BY <1>2, <1>3, <1>4, <1>5, <1>6 DEF EmittedTo
  <1>8. QED BY <1>2, <1>7 DEF new, f

LEMMA CopyKeeps ==
  ASSUME RingInv, RingReader!Copy
  PROVE  RingInv'
  <1> DEFINE n == Len(frames)
             b == reader.batch
             rest == Tail(b)
             f == Head(b)
             at == IF rest = <<>> THEN "start" ELSE "copy"
  <1>1. /\ reader.at = "copy" /\ Reads /\ UNCHANGED lost
        /\ emitted' = Append(emitted, [id |-> f.id, whole |-> f.id # 0 /\ RingReader!PayloadWhole(f.id, f)])
        /\ reader' = [reader EXCEPT !.at = at, !.batch = rest]
    BY DEF RingReader!Copy, Reads
  <1>2. RingTypes /\ FieldsAs(fields, frames) /\ reader \in Readers /\ n \in Nat /\ frames \in Seq(RingFrames)
        /\ b \in Seq(RingEntries) /\ Len(b) \in Nat /\ reader.prev \in Cells
    BY FrameCount DEF RingInv, RingTypes, Readers
  <1>3. PICK w \in 1..(n + 1) : Onward(w)
    BY <1>1 DEF RingInv, Onward
  <1>4. /\ b # <<>> /\ w + Len(b) <= n /\ reader.prev = Boundary(frames, w + Len(b))
        /\ BatchFrom(b, frames, w) /\ InRing(w) /\ EmittedTo(emitted, w, lost)
    BY <1>1, <1>3 DEF Onward, ReaderFrom
  <1>5. /\ 1 \in 1..Len(b) /\ f = b[1] /\ rest \in Seq(RingEntries) /\ Len(rest) = Len(b) - 1
        /\ \A i \in 1..Len(rest) : rest[i] = b[i + 1]
    <2>1. Len(b) > 0
      BY <1>2, <1>4, EmptySeq
    <2>2. QED BY <1>2, <1>4, <2>1
  <1>6. w \in w..n /\ w < n /\ w \in 1..n /\ w # 0 /\ w + 1 - 1 = w /\ w \in Nat
        /\ w + 1 \in 1..(n + 1) /\ w + 1 \in w..(n + 1) /\ w + 1 <= n
    BY <1>2, <1>4, <1>5
  <1>7. f.id = w /\ f.at = frames[w].at /\ f.len = frames[w].len
    <2>1. b[1] = [id |-> w + 1 - 1, at |-> frames[w + 1 - 1].at, len |-> frames[w + 1 - 1].len]
      BY <1>4, <1>5, Zenon DEF BatchFrom
    <2>2. QED BY <1>5, <1>6, <2>1
  <1>8. RingReader!PayloadWhole(f.id, f)
    <2>1. RingReader!CellsOf(f) = RingReader!CellsOf(frames[w])
      BY <1>7 DEF RingReader!CellsOf
    <2>2. \A c \in RingReader!CellsOf(frames[w]) : ring[c] = w
      BY <1>4, <1>6 DEF InRing, Stored
    <2>3. QED BY <1>7, <2>1, <2>2 DEF RingReader!PayloadWhole
  <1>9. emitted' = Append(emitted, [id |-> w, whole |-> TRUE])
    BY <1>1, <1>6, <1>7, <1>8
  <1>10. emitted' \in Seq([id : Nat, whole : BOOLEAN]) /\ EmittedTo(emitted', w + 1, lost)
    <2>1. emitted \in Seq([id : Nat, whole : BOOLEAN]) /\ lost \in BOOLEAN
      BY <1>2 DEF RingTypes
    <2>2. QED BY <1>4, <1>6, <1>9, <2>1, EmitsNext
  <1>11. InRing(w + 1)
    <2>1. Boundary(frames, w) \in Cells
      BY <1>2, FrameTypes
    <2>2. Spaced(frames, Boundary(frames, w + 1), w + 1)
      BY <1>2, <1>4, <1>6, <2>1, SpacedMoves DEF InRing
    <2>3. \A k \in (w + 1)..n : k \in w..n
      BY <1>2, <1>6
    <2>4. Stored(frames, ring, deposited, w + 1)
      BY <1>4, <2>3 DEF InRing, Stored
    <2>5. QED BY <1>6, <2>2, <2>4 DEF InRing
  <1>12. BatchFrom(rest, frames, w + 1)
    <2> SUFFICES ASSUME NEW i \in 1..Len(rest)
                 PROVE  rest[i] = [id |-> (w + 1) + i - 1, at |-> frames[(w + 1) + i - 1].at,
                                   len |-> frames[(w + 1) + i - 1].len]
      BY DEF BatchFrom
    <2>1. i + 1 \in 1..Len(b) /\ w + (i + 1) - 1 = (w + 1) + i - 1
      <3>1. Len(b) \in Nat /\ Len(rest) = Len(b) - 1 /\ w \in Nat
        BY <1>2, <1>5, <1>6
      <3>2. QED BY <3>1
    <2>2. b[i + 1] = [id |-> w + (i + 1) - 1, at |-> frames[w + (i + 1) - 1].at,
                      len |-> frames[w + (i + 1) - 1].len]
      BY <1>4, <2>1, Zenon DEF BatchFrom
    <2>3. QED BY <1>5, <2>1, <2>2
  <1>13. (w + 1) + Len(rest) = w + Len(b) /\ Len(rest) <= Batch
    <2>1. Len(b) <= Batch /\ Batch \in Nat
      BY <1>2, RingConstants DEF RingTypes
    <2>2. \A i, k, m \in Nat : i <= m => (k + 1) + (i - 1) = k + i /\ i - 1 <= m
      OBVIOUS
    <2>3. (w + 1) + (Len(b) - 1) = w + Len(b) /\ Len(b) - 1 <= Batch
      BY <1>2, <1>6, <2>1, <2>2, Zenon
    <2>4. QED BY <1>5, <2>3, Zenon
  <1> HIDE DEF rest
  <1>14. reader' \in Readers /\ reader'.at = at /\ reader'.batch = rest /\ reader'.prev = reader.prev
    <2>1. at \in Ats
      BY DEF Ats
    <2> HIDE DEF at
    <2>2. reader' \in Readers
      <3>1. [reader EXCEPT !.at = at, !.batch = rest] \in Readers
        BY <1>2, <1>5, <2>1, ReaderBatches, Zenon
      <3>2. QED BY <1>1, <3>1
    <2>3. QED BY <1>1, <1>2, <2>2 DEF Readers
  <1>15. ReaderFrom(reader', frames, w + 1)
    <2>1. CASE rest = <<>>
      <3>1. (w + 1) + 0 = w + 1 /\ Len(rest) = 0
        BY <1>6, <2>1
      <3>2. reader'.at = "start" /\ reader'.batch = <<>> /\ reader'.prev = Boundary(frames, w + 1)
        BY <1>4, <1>13, <1>14, <2>1, <3>1
      <3>3. QED BY <3>2 DEF ReaderFrom
    <2>2. CASE rest # <<>>
      <3>1. reader'.at = "copy"
        BY <1>14, <2>2
      <3>2. QED BY <1>4, <1>12, <1>13, <1>14, <2>2, <3>1 DEF ReaderFrom
    <2>3. QED BY <2>1, <2>2
  <1>16. RingTypes' /\ FieldsAs(fields, frames)'
    BY <1>1, <1>2, <1>10, <1>13, <1>14 DEF RingTypes, Reads
  <1>17. Onward(w + 1)' /\ w + 1 \in 1..(Len(frames') + 1) /\ reader'.at # "attach"
    <2>1. InRing(w + 1)'
      BY <1>1, <1>11, InRingStays
    <2>2. frames' = frames /\ lost' = lost
      BY <1>1 DEF Reads
    <2>3. ReaderFrom(reader, frames, w + 1)' /\ EmittedTo(emitted, w + 1, lost)'
      BY <1>10, <1>15, <2>2
    <2>4. QED BY <1>6, <1>14, <2>1, <2>2, <2>3 DEF Onward
  <1>18. QED BY <1>16, <1>17 DEF RingInv, Onward

----------------------------------------------------------------------------

LEMMA RingInitial ==
  ASSUME RingReader!Init
  PROVE  RingInv
  <1>1. /\ ring = [c \in Cells |-> 0] /\ frames = <<>>
        /\ fields = [start |-> 0, len |-> 0, end |-> 0, set |-> 3]
        /\ deposited = TRUE /\ emitted = <<>> /\ lost = FALSE
        /\ reader = [at |-> "attach", start |-> 0, end |-> 0, prev |-> 0, cur |-> 0, steps |-> 0,
                     batch |-> <<>>]
    BY DEF RingReader!Init, Cells
  <1>2. 0 \in Cells /\ 0 \in 0..Size /\ 0 \in 0..MaxFrames /\ 0 <= Batch /\ 0 <= MaxFrames
    BY RingConstants DEF Cells
  <1>3. ring \in [Cells -> 0..MaxFrames] /\ fields \in RingFields /\ reader \in Readers
    BY <1>1, <1>2 DEF RingFields, Readers, Ats
  <1>4. frames \in Seq(RingFrames) /\ Len(frames) = 0 /\ emitted \in Seq([id : Nat, whole : BOOLEAN])
        /\ reader.batch = <<>> /\ Len(reader.batch) = 0 /\ reader.at = "attach"
    BY <1>1
  <1>5. FieldsAs(fields, frames)
    BY <1>1 DEF FieldsAs, Tip
  <1>6. RingTypes
    BY <1>1, <1>2, <1>3, <1>4 DEF RingTypes
  <1>7. QED BY <1>1, <1>4, <1>5, <1>6 DEF RingInv

LEMMA RingStep ==
  ASSUME Mishaps = {}, RingInv, [RingReader!Next]_ringVars
  PROVE  RingInv'
  <1>1. CASE RingReader!Next
    <2>1. \/ \E len \in Lengths : RingReader!Begin(len)
          \/ RingReader!Publish \/ RingReader!Deposit \/ RingReader!Attach
          \/ RingReader!ReadStart \/ RingReader!ReadLen
          \/ RingReader!Compare \/ RingReader!Resync \/ RingReader!Walk \/ RingReader!Copy
      BY <1>1 DEF RingReader!Next
    <2>2. QED BY <2>1, BeginKeeps, PublishKeeps, DepositKeeps, AttachKeeps, ReadStartKeeps, CompareKeeps,
                 ResyncKeeps, WalkKeeps, CopyKeeps
  <1>2. CASE UNCHANGED ringVars
    <2>1. Reads /\ UNCHANGED <<reader, emitted, lost>>
      BY <1>2 DEF ringVars, Reads
    <2>2. RingTypes' /\ FieldsAs(fields, frames)'
      BY <2>1 DEF RingInv, RingTypes, Reads
    <2>3. \A w : Onward(w) => Onward(w)'
      BY <2>1, InRingStays DEF Onward, Reads
    <2>4. QED BY <2>1, <2>2, <2>3 DEF RingInv, Onward, Reads
  <1>3. QED BY <1>1, <1>2

LEMMA RingInOrder == RingInv => FramesWholeInOrder
  <1> SUFFICES ASSUME RingInv PROVE RingReader!FramesWholeInOrder
    BY DEF FramesWholeInOrder
  <1>1. emitted \in Seq([id : Nat, whole : BOOLEAN]) /\ DOMAIN emitted = 1..Len(emitted) /\ Len(emitted) \in Nat
    BY DEF RingInv, RingTypes
  <1>2. CASE reader.at = "attach"
    BY <1>2 DEF RingInv, RingReader!FramesWholeInOrder
  <1>3. CASE reader.at # "attach"
    <2>1. PICK w \in 1..(Len(frames) + 1) : EmittedTo(emitted, w, lost)
      BY <1>3 DEF RingInv
    <2>2. \A i \in DOMAIN emitted \ {1} : i \in 2..Len(emitted)
      BY <1>1
    <2>3. QED BY <1>1, <2>1, <2>2 DEF EmittedTo, RingReader!FramesWholeInOrder
  <1>4. QED BY <1>2, <1>3

\* FshareReader.cpp: as long as the producer does not lap the reader, a frame does not end
\* at the ring's last cell and the first oldest pointer is not torn, every frame that the
\* reader hands on is whole and comes after the one before it, directly so unless the
\* reader has resynchronised.
THEOREM FramesWholeInOrderHolds == Mishaps = {} => (DeviceSpec => []FramesWholeInOrder)
  <1> SUFFICES ASSUME Mishaps = {} PROVE DeviceSpec => []FramesWholeInOrder
    OBVIOUS
  <1>1. DeviceInit => RingInv
    BY PartInit, RingInitial
  <1>2. RingInv /\ [DeviceNext]_deviceVars => RingInv'
    BY PartStep, RingStep
  <1>3. QED BY <1>1, <1>2, RingInOrder, PTL DEF DeviceSpec

----------------------------------------------------------------------------
(* The encoder's controls. *)

\* One function over another.
LEMMA OverDomain ==
  \A f, g, k : k \in DOMAIN Controls!@@(f, g) <=> k \in DOMAIN f \/ k \in DOMAIN g
  BY DEF Controls!@@

LEMMA OverValue ==
  \A f, g, k : /\ k \in DOMAIN f => Controls!@@(f, g)[k] = f[k]
               /\ k \in DOMAIN g /\ k \notin DOMAIN f => Controls!@@(f, g)[k] = g[k]
  BY DEF Controls!@@

LEMMA Single ==
  /\ \A k, v, i : i \in DOMAIN Controls!:>(k, v) <=> i = k
  /\ \A k, v : Controls!:>(k, v)[k] = v
  BY DEF Controls!:>

LEMMA Nothing == \A k : k \notin DOMAIN Controls!NoControls
  BY DEF Controls!NoControls

\* What of the picture an object asks for.
LEMMA AsksFor ==
  ASSUME NEW obj
  PROVE  /\ "hdr" \in DOMAIN Controls!Asks(obj) <=> "wdr" \in DOMAIN obj
         /\ "denoise" \in DOMAIN Controls!Asks(obj) <=> "denoise" \in DOMAIN obj
         /\ "night" \in DOMAIN Controls!Asks(obj) <=> "irLedMode" \in DOMAIN obj
         /\ "flicker" \in DOMAIN Controls!Asks(obj) <=> "aeMode" \in DOMAIN obj \/ "frequency" \in DOMAIN obj
         /\ "shutter" \in DOMAIN Controls!Asks(obj) <=> "videoMode" \in DOMAIN obj
         /\ "name" \in DOMAIN Controls!Asks(obj) <=> "stream1" \in DOMAIN obj
  BY OverDomain, Single, Nothing DEF Controls!Asks, Controls!When, Controls!Has, Controls!Get

LEMMA AsksValue ==
  ASSUME NEW obj
  PROVE  /\ "wdr" \in DOMAIN obj => Controls!Asks(obj)["hdr"] = obj["wdr"]
         /\ "denoise" \in DOMAIN obj => Controls!Asks(obj)["denoise"] = obj["denoise"]
         /\ "irLedMode" \in DOMAIN obj => Controls!Asks(obj)["night"] = Controls!NightAsked(obj)
         /\ "aeMode" \in DOMAIN obj \/ "frequency" \in DOMAIN obj
                => Controls!Asks(obj)["flicker"] = Controls!FlickerAsked(obj)
         /\ "videoMode" \in DOMAIN obj => Controls!Asks(obj)["shutter"] = Controls!ShutterAsked(obj)
         /\ "stream1" \in DOMAIN obj => Controls!Asks(obj)["name"] = Controls!NameAsked(obj)
  BY OverDomain, OverValue, Single, Nothing DEF Controls!Asks, Controls!When, Controls!Has, Controls!Get

\* What an isp object becomes, key by key and then value by value.
LEMMA IspDomain ==
  ASSUME NEW obj
  PROVE  /\ "pltm" \in DOMAIN Controls!IspControlMap(obj) <=> "wdr" \in DOMAIN obj
         /\ "wdr" \in DOMAIN Controls!IspControlMap(obj) <=> "wdr" \in DOMAIN obj
         /\ "denoise" \in DOMAIN Controls!IspControlMap(obj) <=> "denoise" \in DOMAIN obj
         /\ "flicker" \in DOMAIN Controls!IspControlMap(obj)
                <=> "aeMode" \in DOMAIN obj \/ "frequency" \in DOMAIN obj
         /\ \A k \in {"nightvision", "night_lux", "ir_led", "shutter", "osd_name"} :
                k \notin DOMAIN Controls!IspControlMap(obj)
  BY OverDomain, Single, Nothing
  DEF Controls!IspControlMap, Controls!When, Controls!Has, Controls!Get, Controls!Hdr, Controls!Flicker,
      Controls!Scaled

LEMMA NightDomain ==
  ASSUME NEW obj
  PROVE  /\ "nightvision" \in DOMAIN Controls!NightVisionControls(obj)
                <=> "irLedMode" \in DOMAIN obj /\ obj["irLedMode"] \in {"manual", "auto"}
         /\ "night_lux" \in DOMAIN Controls!NightVisionControls(obj)
                <=> /\ "irLedMode" \in DOMAIN obj /\ obj["irLedMode"] = "auto"
                    /\ "icrSwitchMode" \in DOMAIN obj /\ obj["icrSwitchMode"] = "lux"
         /\ \A k \in {"pltm", "wdr", "denoise", "flicker", "shutter", "osd_name"} :
                k \notin DOMAIN Controls!NightVisionControls(obj)
  BY OverDomain, Single, Nothing
  DEF Controls!NightVisionControls, Controls!When, Controls!Has, Controls!Get

\* What a video object becomes.
LEMMA VideoMap ==
  ASSUME NEW obj
  PROVE  LET keys == DOMAIN Controls!VideoControls(obj)
         IN  /\ "shutter" \in keys
                    <=> "videoMode" \in DOMAIN obj /\ obj["videoMode"] \in {"default", "sport", "slowShutter"}
             /\ \A k \in {"pltm", "wdr", "denoise", "nightvision", "night_lux", "flicker", "osd_name"} :
                    k \notin keys
             /\ "videoMode" \in DOMAIN obj /\ obj["videoMode"] \in {"default", "sport"} =>
                    Controls!VideoControls(obj)["shutter"] = IF obj["videoMode"] = "sport" THEN 1 ELSE 0
  <1> DEFINE exposure == Controls!Get(obj, "videoMode", "")
             bps == Controls!VideoStreamBitrate(obj)
             shutter == Controls!When(exposure \in DOMAIN Controls!Shutters,
                                      Controls!:>("shutter", Controls!Shutters[exposure]))
             bitrate == Controls!When(bps > 0, Controls!:>("bitrate", Controls!Clamp(bps, 48, 3000)))
  <1>1. exposure \in DOMAIN Controls!Shutters
            <=> "videoMode" \in DOMAIN obj /\ obj["videoMode"] \in {"default", "sport", "slowShutter"}
    BY DEF Controls!Shutters, Controls!Get, Controls!Has
  <1>2. \A k : k \in DOMAIN shutter <=> k = "shutter" /\ exposure \in DOMAIN Controls!Shutters
    <2> HIDE DEF exposure
    <2>1. CASE exposure \in DOMAIN Controls!Shutters
      BY <2>1, Single DEF Controls!When
    <2>2. CASE exposure \notin DOMAIN Controls!Shutters
      BY <2>2, Nothing DEF Controls!When
    <2>3. QED BY <2>1, <2>2
  <1>3. \A k : k \in DOMAIN bitrate => k = "bitrate"
    <2> HIDE DEF bps
    <2>1. CASE bps > 0
      BY <2>1, Single DEF Controls!When
    <2>2. CASE ~(bps > 0)
      BY <2>2, Nothing DEF Controls!When
    <2>3. QED BY <2>1, <2>2
  <1>4. ASSUME "videoMode" \in DOMAIN obj, obj["videoMode"] \in {"default", "sport"}
        PROVE  shutter["shutter"] = IF obj["videoMode"] = "sport" THEN 1 ELSE 0
    <2>1. exposure = obj["videoMode"]
      BY <1>4 DEF Controls!Get, Controls!Has
    <2>2. Controls!Shutters["default"] = 0 /\ Controls!Shutters["sport"] = 1
      BY DEF Controls!Shutters
    <2>3. exposure \in DOMAIN Controls!Shutters
      BY <1>1, <1>4
    <2>4. Controls!Shutters[exposure] = IF obj["videoMode"] = "sport" THEN 1 ELSE 0
      BY <1>4, <2>1, <2>2
    <2> HIDE DEF exposure
    <2>5. shutter = Controls!:>("shutter", Controls!Shutters[exposure])
      BY <2>3 DEF Controls!When
    <2>6. QED BY <2>4, <2>5, Single
  <1>5. Controls!VideoControls(obj) = Controls!@@(shutter, bitrate)
    BY DEF Controls!VideoControls
  <1> HIDE DEF shutter, bitrate, exposure
  <1>6. QED BY <1>1, <1>2, <1>3, <1>4, <1>5, OverDomain, OverValue

\* What an overlay object becomes.
LEMMA OsdMap ==
  ASSUME NEW obj, "stream1" \in DOMAIN obj, "tag" \in DOMAIN obj["stream1"]
  PROVE  LET keys == DOMAIN Controls!OsdControlMap(obj)
         IN  /\ "osd_name" \in keys
             /\ \A k \in {"pltm", "wdr", "denoise", "nightvision", "night_lux", "flicker", "shutter"} :
                    k \notin keys
             /\ Controls!OsdControlMap(obj)["osd_name"] = Controls!NameAsked(obj)
  <1> DEFINE src == Controls!Get(obj, "stream1", obj)
             Switch(field, key) ==
                 Controls!When(Controls!Has(src, field),
                               Controls!:>(key, Controls!Bit(Controls!Get(src, field, 0) # 0)))
             Scale(field, key) ==
                 Controls!When(Controls!Has(obj, field),
                               Controls!:>(key, Controls!Clamp(Controls!Get(obj, field, 0), 0, 100)))
             name == Controls!When(Controls!Has(src, "tag"),
                                   Controls!:>("osd_name", Controls!Bit(Controls!Get(src, "tag", "") # "")))
             color == Controls!When(Controls!Has(obj, "overlayColorId"),
                                    Controls!:>("osd_color", Controls!Get(obj, "overlayColorId", 0)))
  <1>1. src = obj["stream1"] /\ Controls!Get(src, "tag", "") = src["tag"]
    BY DEF Controls!Get, Controls!Has
  <1>2. \A field, key, k : k \in DOMAIN Switch(field, key) => k = key
    BY Single, Nothing DEF Controls!When
  <1>3. \A field, key, k : k \in DOMAIN Scale(field, key) => k = key
    BY Single, Nothing DEF Controls!When
  <1>4. name = Controls!:>("osd_name", Controls!NameAsked(obj))
    <2>1. Controls!Has(src, "tag")
      BY <1>1 DEF Controls!Has
    <2>2. Controls!NameAsked(obj) = Controls!Bit(Controls!Get(src, "tag", "") # "")
      BY <1>1 DEF Controls!NameAsked, Controls!Bit
    <2>3. QED BY <2>1, <2>2, Zenon DEF Controls!When
  <1>5. \A k : k \in DOMAIN color => k = "osd_color"
    BY Single, Nothing, Zenon DEF Controls!When
  <1>6. Controls!OsdControlMap(obj) =
          Controls!@@(Controls!@@(Controls!@@(Controls!@@(Controls!@@(Controls!@@(Controls!@@(
              Switch("enableOverlay", "osd"), Switch("enableDate", "osd_date")),
              Switch("enableLogo", "osd_logo")), Switch("enableStreamerStatsLevel", "osd_bitrate")),
              name), Scale("textScale", "osd_text_scale")), Scale("logoScale", "osd_logo_scale")), color)
    BY Zenon DEF Controls!OsdControlMap
  <1> HIDE DEF Switch, Scale, name, color, src
  <1>7. QED BY <1>2, <1>3, <1>4, <1>5, <1>6, Single, OverDomain, OverValue

LEMMA MapOf ==
  ASSUME NEW obj
  PROVE  /\ Controls!ControlMap("isp", obj)
                = Controls!@@(Controls!IspControlMap(obj), Controls!NightVisionControls(obj))
         /\ Controls!ControlMap("vid", obj) = Controls!VideoControls(obj)
         /\ Controls!ControlMap("osd", obj) = Controls!OsdControlMap(obj)
  BY Zenon DEF Controls!ControlMap

\* The objects, and the keys of what is shown.
LEMMA IspObject ==
  ASSUME NEW obj \in Controls!Objects["isp"]
  PROVE  /\ "videoMode" \notin DOMAIN obj /\ "stream1" \notin DOMAIN obj
         /\ "wdr" \in DOMAIN obj => obj["wdr"] \in {0, 2}
         /\ "denoise" \in DOMAIN obj => obj["denoise"] \in {0, 100}
         /\ "irLedMode" \in DOMAIN obj =>
                /\ obj["irLedMode"] \in {"manual", "auto"}
                /\ "irLedLevel" \in DOMAIN obj /\ obj["irLedLevel"] \in Nat
                /\ "icrSwitchMode" \in DOMAIN obj /\ obj["icrSwitchMode"] = "lux"
                       => "icrCustomValue" \in DOMAIN obj /\ obj["icrCustomValue"] = 10
         /\ "aeMode" \in DOMAIN obj => obj["aeMode"] = "auto"
         /\ "frequency" \in DOMAIN obj => obj["frequency"] = 2
  <1>1. \/ \E i \in 1..4 : obj = Controls!@@([wdr |-> 2 * (i % 2)], Controls!Night[i])
        \/ obj \in [denoise : {0, 100}] \cup [aeMode : {"auto"}, frequency : {2}] \cup [frequency : {2}]
    BY DEF Controls!Objects, Controls!Night
  <1>2. CASE obj \in [denoise : {0, 100}] \cup [aeMode : {"auto"}, frequency : {2}] \cup [frequency : {2}]
    BY <1>2
  <1>3. ASSUME NEW i \in 1..4, obj = Controls!@@([wdr |-> 2 * (i % 2)], Controls!Night[i])
        PROVE  /\ DOMAIN obj = {"wdr"} \cup DOMAIN Controls!Night[i] /\ obj["wdr"] = 2 * (i % 2)
               /\ \A k \in DOMAIN Controls!Night[i] : k # "wdr" => obj[k] = Controls!Night[i][k]
    BY <1>3 DEF Controls!@@
  <1>4. ASSUME NEW i \in 1..4, obj = Controls!@@([wdr |-> 2 * (i % 2)], Controls!Night[i])
        PROVE  /\ obj["wdr"] \in {0, 2} /\ "wdr" \in DOMAIN obj
               /\ \A k \in {"videoMode", "stream1", "denoise", "aeMode", "frequency"} : k \notin DOMAIN obj
               /\ "irLedMode" \in DOMAIN obj /\ obj["irLedMode"] \in {"manual", "auto"}
               /\ "irLedLevel" \in DOMAIN obj /\ obj["irLedLevel"] \in Nat
               /\ "icrSwitchMode" \in DOMAIN obj /\ obj["icrSwitchMode"] = "lux"
                      => "icrCustomValue" \in DOMAIN obj /\ obj["icrCustomValue"] = 10
    BY <1>3, <1>4 DEF Controls!Night
  <1>5. QED BY <1>1, <1>2, <1>4

LEMMA VideoObject ==
  ASSUME NEW obj \in Controls!Objects["vid"]
  PROVE  /\ \A k \in {"wdr", "denoise", "irLedMode", "aeMode", "frequency", "stream1"} : k \notin DOMAIN obj
         /\ "videoMode" \in DOMAIN obj /\ obj["videoMode"] \in {"default", "sport"}
  BY DEF Controls!Objects

LEMMA OsdObject ==
  ASSUME NEW obj \in Controls!Objects["osd"]
  PROVE  /\ \A k \in {"wdr", "denoise", "irLedMode", "aeMode", "frequency", "videoMode"} : k \notin DOMAIN obj
         /\ "stream1" \in DOMAIN obj /\ "tag" \in DOMAIN obj["stream1"]
  <1>1. obj \in [enableOverlay : {0}, stream1 : [tag : {"", "name"}]]
    BY Zenon DEF Controls!Objects
  <1>2. DOMAIN obj = {"enableOverlay", "stream1"} /\ obj["stream1"] \in [tag : {"", "name"}]
    BY <1>1
  <1>3. QED BY <1>2

LEMMA KeyOf ==
  ASSUME NEW k
  PROVE  /\ k \in Controls!KeysOf["hdr"] <=> k \in {"pltm", "wdr"}
         /\ k \in Controls!KeysOf["denoise"] <=> k = "denoise"
         /\ k \in Controls!KeysOf["night"] <=> k \in {"nightvision", "night_lux"}
         /\ k \in Controls!KeysOf["flicker"] <=> k = "flicker"
         /\ k \in Controls!KeysOf["shutter"] <=> k = "shutter"
         /\ k \in Controls!KeysOf["name"] <=> k = "osd_name"
  BY DEF Controls!KeysOf

\* The aspects of the picture that PictureFollows is about.
Seen == {"hdr", "night", "denoise", "flicker", "shutter", "name"}

LEMMA IspKeys ==
  ASSUME NEW obj
  PROVE  LET keys == DOMAIN Controls!ControlMap("isp", obj)
         IN  /\ "pltm" \in keys <=> "wdr" \in DOMAIN obj
             /\ "wdr" \in keys <=> "wdr" \in DOMAIN obj
             /\ "denoise" \in keys <=> "denoise" \in DOMAIN obj
             /\ "nightvision" \in keys
                    <=> "irLedMode" \in DOMAIN obj /\ obj["irLedMode"] \in {"manual", "auto"}
             /\ "night_lux" \in keys <=> /\ "irLedMode" \in DOMAIN obj /\ obj["irLedMode"] = "auto"
                                         /\ "icrSwitchMode" \in DOMAIN obj /\ obj["icrSwitchMode"] = "lux"
             /\ "flicker" \in keys <=> "aeMode" \in DOMAIN obj \/ "frequency" \in DOMAIN obj
             /\ "shutter" \notin keys /\ "osd_name" \notin keys
  <1>1. \A k : k \in DOMAIN Controls!ControlMap("isp", obj)
                   <=> \/ k \in DOMAIN Controls!IspControlMap(obj)
                       \/ k \in DOMAIN Controls!NightVisionControls(obj)
    BY MapOf, OverDomain
  <1>2. QED BY <1>1, IspDomain, NightDomain

\* An object that does not speak of an aspect sets none of its keys.
LEMMA Unasked ==
  ASSUME NEW cat \in Controls!Categories, NEW obj \in Controls!Objects[cat],
         NEW a \in Seen, a \notin DOMAIN Controls!Asks(obj),
         NEW k \in Controls!KeysOf[a]
  PROVE  k \notin DOMAIN Controls!ControlMap(cat, obj)
  <1>1. \/ a = "hdr" /\ k \in {"pltm", "wdr"} /\ "wdr" \notin DOMAIN obj
        \/ a = "denoise" /\ k = "denoise" /\ "denoise" \notin DOMAIN obj
        \/ a = "night" /\ k \in {"nightvision", "night_lux"} /\ "irLedMode" \notin DOMAIN obj
        \/ a = "flicker" /\ k = "flicker" /\ "aeMode" \notin DOMAIN obj /\ "frequency" \notin DOMAIN obj
        \/ a = "shutter" /\ k = "shutter" /\ "videoMode" \notin DOMAIN obj
        \/ a = "name" /\ k = "osd_name" /\ "stream1" \notin DOMAIN obj
    BY AsksFor, KeyOf DEF Seen
  <1>2. CASE cat = "isp"
    BY <1>1, <1>2, IspKeys
  <1>3. CASE cat = "vid"
    BY <1>1, <1>3, MapOf, VideoMap
  <1>4. CASE cat = "osd"
    BY <1>1, <1>4, MapOf, OsdMap, OsdObject
  <1>5. QED BY <1>2, <1>3, <1>4 DEF Controls!Categories

LEMMA IspValues ==
  ASSUME NEW obj
  PROVE  /\ "wdr" \in DOMAIN obj =>
                /\ Controls!ControlMap("isp", obj)["pltm"] = Controls!Bit(obj["wdr"] # 0)
                /\ Controls!ControlMap("isp", obj)["wdr"] = Controls!Strength(obj["wdr"])
         /\ "denoise" \in DOMAIN obj =>
                Controls!ControlMap("isp", obj)["denoise"] = Controls!ScaleLinear(obj["denoise"], 0, 100)
         /\ "aeMode" \in DOMAIN obj /\ obj["aeMode"] = "auto" =>
                Controls!ControlMap("isp", obj)["flicker"] = 3
         /\ "aeMode" \notin DOMAIN obj /\ "frequency" \in DOMAIN obj /\ obj["frequency"] = 2 =>
                Controls!ControlMap("isp", obj)["flicker"] = 2
  <1>1. ASSUME NEW k \in DOMAIN Controls!IspControlMap(obj)
        PROVE  Controls!ControlMap("isp", obj)[k] = Controls!IspControlMap(obj)[k]
    BY <1>1, MapOf, OverValue
  <1>2. "wdr" \in DOMAIN obj =>
            /\ Controls!IspControlMap(obj)["pltm"] = Controls!Bit(obj["wdr"] # 0)
            /\ Controls!IspControlMap(obj)["wdr"] = Controls!Strength(obj["wdr"])
    BY OverDomain, OverValue, Single, Nothing
    DEF Controls!IspControlMap, Controls!When, Controls!Has, Controls!Get, Controls!Hdr,
        Controls!Flicker, Controls!Scaled
  <1>3. "denoise" \in DOMAIN obj =>
            Controls!IspControlMap(obj)["denoise"] = Controls!ScaleLinear(obj["denoise"], 0, 100)
    BY OverDomain, OverValue, Single, Nothing
    DEF Controls!IspControlMap, Controls!When, Controls!Has, Controls!Get, Controls!Hdr,
        Controls!Flicker, Controls!Scaled
  <1>4. "aeMode" \in DOMAIN obj /\ obj["aeMode"] = "auto" =>
            Controls!IspControlMap(obj)["flicker"] = 3
    BY OverDomain, OverValue, Single, Nothing
    DEF Controls!IspControlMap, Controls!When, Controls!Has, Controls!Get, Controls!Hdr,
        Controls!Flicker, Controls!Scaled
  <1>5. "aeMode" \notin DOMAIN obj /\ "frequency" \in DOMAIN obj /\ obj["frequency"] = 2 =>
            Controls!IspControlMap(obj)["flicker"] = 2
    BY OverDomain, OverValue, Single, Nothing
    DEF Controls!IspControlMap, Controls!When, Controls!Has, Controls!Get, Controls!Hdr,
        Controls!Flicker, Controls!Scaled
  <1>6. QED BY <1>1, <1>2, <1>3, <1>4, <1>5, IspDomain

LEMMA NightValues ==
  ASSUME NEW obj, "irLedMode" \in DOMAIN obj, "irLedLevel" \in DOMAIN obj
  PROVE  /\ obj["irLedMode"] = "manual" =>
                Controls!ControlMap("isp", obj)["nightvision"] = Controls!Bit(obj["irLedLevel"] > 0)
         /\ obj["irLedMode"] = "auto" => Controls!ControlMap("isp", obj)["nightvision"] = 2
         /\ obj["irLedMode"] = "auto" /\ "icrSwitchMode" \in DOMAIN obj /\ obj["icrSwitchMode"] = "lux"
            /\ "icrCustomValue" \in DOMAIN obj /\ obj["icrCustomValue"] = 10 =>
                Controls!ControlMap("isp", obj)["night_lux"] = 30
  <1>1. ASSUME NEW k \in DOMAIN Controls!NightVisionControls(obj), k \notin DOMAIN Controls!IspControlMap(obj)
        PROVE  Controls!ControlMap("isp", obj)[k] = Controls!NightVisionControls(obj)[k]
    BY <1>1, MapOf, OverValue
  <1>2. obj["irLedMode"] = "manual" =>
                Controls!NightVisionControls(obj)["nightvision"] = Controls!Bit(obj["irLedLevel"] > 0)
    BY OverDomain, OverValue, Single, Nothing
    DEF Controls!NightVisionControls, Controls!When, Controls!Has, Controls!Get
  <1>3. obj["irLedMode"] = "auto" => Controls!NightVisionControls(obj)["nightvision"] = 2
    BY OverDomain, OverValue, Single, Nothing
    DEF Controls!NightVisionControls, Controls!When, Controls!Has, Controls!Get
  <1>4. Controls!CustomValueToLux(10) = 30
    BY DEF Controls!CustomValueToLux, Controls!Clamp
  <1>5. obj["irLedMode"] = "auto" /\ "icrSwitchMode" \in DOMAIN obj /\ obj["icrSwitchMode"] = "lux"
            /\ "icrCustomValue" \in DOMAIN obj /\ obj["icrCustomValue"] = 10 =>
                Controls!NightVisionControls(obj)["night_lux"] = 30
    BY <1>4, OverDomain, OverValue, Single, Nothing
    DEF Controls!NightVisionControls, Controls!When, Controls!Has, Controls!Get
  <1>6. QED BY <1>1, <1>2, <1>3, <1>5, IspDomain, NightDomain

LEMMA ShownAs ==
  ASSUME NEW val
  PROVE  /\ Controls!Shown(val, "hdr") = IF val["pltm"] = 0 THEN 0
                                         ELSE CHOOSE level \in 1..3 : Controls!Strengths[level] = val["wdr"]
         /\ Controls!Shown(val, "night") = IF val["nightvision"] # 2 THEN val["nightvision"] - 2
                                           ELSE IF wanted.night = -3 THEN -3
                                           ELSE ((val["night_lux"] - 1) * 10) \div 29
         /\ Controls!Shown(val, "denoise") = val["denoise"]
         /\ Controls!Shown(val, "flicker") = val["flicker"]
         /\ Controls!Shown(val, "shutter") = val["shutter"]
         /\ Controls!Shown(val, "name") = val["osd_name"]
  BY Zenon DEF Controls!Shown

\* A daemon with the values that an object is mapped to shows what the object asks for.
LEMMA Shows ==
  ASSUME NEW cat \in Controls!Categories, NEW obj \in Controls!Objects[cat],
         NEW a \in Seen, a \in DOMAIN Controls!Asks(obj),
         a = "night" => wanted.night = Controls!Asks(obj)[a],
         NEW val,
         \A k \in Controls!KeysOf[a] \cap DOMAIN Controls!ControlMap(cat, obj) :
             val[k] = Controls!ControlMap(cat, obj)[k]
  PROVE  Controls!Shown(val, a) = Controls!Asks(obj)[a]
  <1>1. CASE a = "hdr"
    <2>1. "wdr" \in DOMAIN obj /\ cat = "isp"
      BY <1>1, AsksFor, VideoObject, OsdObject DEF Controls!Categories
    <2>2. obj["wdr"] \in {0, 2} /\ Controls!Asks(obj)["hdr"] = obj["wdr"]
      BY <2>1, IspObject, AsksValue
    <2>3. val["pltm"] = Controls!Bit(obj["wdr"] # 0) /\ val["wdr"] = Controls!Strength(obj["wdr"])
      BY <1>1, <2>1, KeyOf, IspKeys, IspValues
    <2>4. CASE obj["wdr"] = 0
      BY <1>1, <2>2, <2>3, <2>4, ShownAs DEF Controls!Bit
    <2>5. CASE obj["wdr"] = 2
      <3>1. val["pltm"] = 1 /\ val["wdr"] = 128
        BY <2>3, <2>5 DEF Controls!Bit, Controls!Strength
      <3>2. \A level \in 1..3 : Controls!Strengths[level] = 128 <=> level = 2
        BY DEF Controls!Strengths
      <3>3. (CHOOSE level \in 1..3 : Controls!Strengths[level] = val["wdr"]) = 2
        BY <3>1, <3>2
      <3>4. val["pltm"] # 0
        BY <3>1
      <3>5. Controls!Shown(val, "hdr") = 2
        BY <3>3, <3>4, ShownAs, Zenon
      <3>6. QED BY <1>1, <2>2, <2>5, <3>5
    <2>6. QED BY <2>2, <2>4, <2>5
  <1>2. CASE a = "denoise"
    <2>1. "denoise" \in DOMAIN obj /\ cat = "isp"
      BY <1>2, AsksFor, VideoObject, OsdObject DEF Controls!Categories
    <2>2. obj["denoise"] \in {0, 100} /\ Controls!Asks(obj)["denoise"] = obj["denoise"]
      BY <2>1, IspObject, AsksValue
    <2>3. val["denoise"] = Controls!ScaleLinear(obj["denoise"], 0, 100)
      BY <1>2, <2>1, KeyOf, IspKeys, IspValues
    <2>4. Controls!ScaleLinear(0, 0, 100) = 0 /\ Controls!ScaleLinear(100, 0, 100) = 100
      BY DEF Controls!ScaleLinear, Controls!Clamp
    <2>5. QED BY <1>2, <2>2, <2>3, <2>4, ShownAs
  <1>3. CASE a = "night"
    <2>1. "irLedMode" \in DOMAIN obj /\ cat = "isp"
      BY <1>3, AsksFor, VideoObject, OsdObject DEF Controls!Categories
    <2>2. /\ obj["irLedMode"] \in {"manual", "auto"}
          /\ "irLedLevel" \in DOMAIN obj /\ obj["irLedLevel"] \in Nat
          /\ Controls!Asks(obj)["night"] = Controls!NightAsked(obj) /\ wanted.night = Controls!NightAsked(obj)
      BY <1>3, <2>1, IspObject, AsksValue
    <2>3. CASE obj["irLedMode"] = "manual"
      <3>1. val["nightvision"] = Controls!Bit(obj["irLedLevel"] > 0)
        BY <1>3, <2>1, <2>2, <2>3, KeyOf, IspKeys, NightValues
      <3>2. Controls!NightAsked(obj) = Controls!Bit(obj["irLedLevel"] > 0) - 2
        BY <2>1, <2>3 DEF Controls!NightAsked, Controls!Get, Controls!Has
      <3>3. QED BY <1>3, <2>2, <3>1, <3>2, ShownAs DEF Controls!Bit
    <2>4. CASE obj["irLedMode"] = "auto"
      <3>1. val["nightvision"] = 2
        BY <1>3, <2>1, <2>2, <2>4, KeyOf, IspKeys, NightValues
      <3>2. CASE "icrSwitchMode" \in DOMAIN obj /\ obj["icrSwitchMode"] = "lux"
        <4>1. "icrCustomValue" \in DOMAIN obj /\ obj["icrCustomValue"] = 10
          BY <2>1, <3>2, IspObject
        <4>2. val["night_lux"] = 30
          BY <1>3, <2>1, <2>2, <2>4, <3>2, <4>1, KeyOf, IspKeys, NightValues
        <4>3. Controls!NightAsked(obj) = 10
          BY <2>1, <2>4, <3>2, <4>1 DEF Controls!NightAsked, Controls!Get, Controls!Has
        <4>4. QED BY <1>3, <2>2, <3>1, <4>2, <4>3, ShownAs
      <3>3. CASE ~("icrSwitchMode" \in DOMAIN obj /\ obj["icrSwitchMode"] = "lux")
        <4>1. Controls!NightAsked(obj) = -3
          BY <2>1, <2>4, <3>3 DEF Controls!NightAsked, Controls!Get, Controls!Has
        <4>2. QED BY <1>3, <2>2, <3>1, <4>1, ShownAs
      <3>4. QED BY <3>2, <3>3
    <2>5. QED BY <2>2, <2>3, <2>4
  <1>4. CASE a = "flicker"
    <2>1. ("aeMode" \in DOMAIN obj \/ "frequency" \in DOMAIN obj) /\ cat = "isp"
      BY <1>4, AsksFor, VideoObject, OsdObject DEF Controls!Categories
    <2>2. Controls!Asks(obj)["flicker"] = Controls!FlickerAsked(obj)
      BY <2>1, AsksValue
    <2>3. Controls!ControlMap("isp", obj)["flicker"] = Controls!FlickerAsked(obj)
      BY <2>1, IspObject, IspValues DEF Controls!FlickerAsked, Controls!Get, Controls!Has
    <2>4. QED BY <1>4, <2>1, <2>2, <2>3, KeyOf, IspKeys, ShownAs
  <1>5. CASE a = "shutter"
    <2>1. "videoMode" \in DOMAIN obj /\ cat = "vid"
      BY <1>5, AsksFor, IspObject, OsdObject DEF Controls!Categories
    <2>2. /\ obj["videoMode"] \in {"default", "sport"}
          /\ Controls!Asks(obj)["shutter"] = Controls!ShutterAsked(obj)
      BY <2>1, VideoObject, AsksValue
    <2>3. Controls!ShutterAsked(obj) = IF obj["videoMode"] = "sport" THEN 1 ELSE 0
      BY <2>1 DEF Controls!ShutterAsked, Controls!Get, Controls!Has, Controls!Bit
    <2>4. QED BY <1>5, <2>1, <2>2, <2>3, KeyOf, MapOf, VideoMap, ShownAs
  <1>6. CASE a = "name"
    <2>1. "stream1" \in DOMAIN obj /\ cat = "osd"
      BY <1>6, AsksFor, IspObject, VideoObject DEF Controls!Categories
    <2>2. Controls!Asks(obj)["name"] = Controls!NameAsked(obj)
      BY <2>1, AsksValue
    <2>3. QED BY <1>6, <2>1, <2>2, KeyOf, MapOf, OsdMap, OsdObject, ShownAs
  <1>7. QED BY <1>1, <1>2, <1>3, <1>4, <1>5, <1>6 DEF Seen


\* Object obj is the last that spoke of aspect a: a key that it set shows what it asked
\* for once that has been sent, and is known as that until the daemon refuses it.
LastAsked(a, cat, obj) ==
    /\ a \in DOMAIN Controls!Asks(obj) /\ wanted[a] = Controls!Asks(obj)[a]
    /\ \A k \in Controls!KeysOf[a] \cap DOMAIN Controls!ControlMap(cat, obj) :
           /\ k \notin unsent => encoder.val[k] = Controls!ControlMap(cat, obj)[k]
           /\ k \in DOMAIN known \ locked => known[k] = Controls!ControlMap(cat, obj)[k]

Frame ==
    /\ encoder = [val |-> encoder.val, pins |-> encoder.pins] /\ Controls!Keys \subseteq DOMAIN encoder.val
    /\ fresh \in [Controls!Categories -> {"seed", "pending", "no"}]

\* A pin and a refusal are recorded as unsent; what has been sent and is known is held.
ControlInv ==
    /\ Frame
    /\ encoder.pins \subseteq unsent /\ locked \subseteq unsent
    /\ \A k \in (Controls!Keys \cap DOMAIN known) \ unsent : encoder.val[k] = known[k]
    /\ \A a \in Seen \cap DOMAIN wanted :
           \E cat \in Controls!Categories : \E obj \in Controls!Objects[cat] : LastAsked(a, cat, obj)

LEMMA SeenKeys ==
  ASSUME NEW a \in Seen, NEW k \in Controls!KeysOf[a]
  PROVE  k \in Controls!Keys
  <1>1. /\ "pltm" \in Controls!Keys /\ "wdr" \in Controls!Keys /\ "denoise" \in Controls!Keys
        /\ "nightvision" \in Controls!Keys /\ "night_lux" \in Controls!Keys /\ "flicker" \in Controls!Keys
        /\ "shutter" \in Controls!Keys /\ "osd_name" \in Controls!Keys
    BY DEF Controls!Keys, Controls!KeysIn, Controls!Categories
  <1>2. QED BY <1>1, KeyOf DEF Seen

LEMMA RestrictTo ==
  ASSUME NEW f, NEW S, NEW k
  PROVE  /\ k \in DOMAIN Controls!Restrict(f, S) <=> k \in DOMAIN f /\ k \in S
         /\ k \in DOMAIN f /\ k \in S => Controls!Restrict(f, S)[k] = f[k]
  BY DEF Controls!Restrict

\* What the controls of map, of which out is sent, seeded recorded and refused
\* refused, do to the encoder and to what is known of it.
Effect(map, out, seeded, refused) ==
    /\ \A k : k \in out => k \in DOMAIN map \ locked
    /\ \A k : k \in seeded => k \in DOMAIN map \ locked
    /\ \A k : k \in DOMAIN map \ locked =>
           k \in out \/ k \in seeded \/ (k \in DOMAIN known /\ known[k] = map[k])
    /\ \A k : k \in refused => k \in out /\ k \in encoder.pins
    /\ encoder' = [val |-> encoder'.val, pins |-> encoder.pins]
    /\ \A k : k \in DOMAIN encoder'.val <=> k \in out \ encoder.pins \/ k \in DOMAIN encoder.val
    /\ \A k : k \in out \ encoder.pins => encoder'.val[k] = map[k]
    /\ \A k : k \in DOMAIN encoder.val /\ k \notin out \ encoder.pins => encoder'.val[k] = encoder.val[k]
    /\ \A k : k \in locked' <=> k \in locked \/ k \in refused
    /\ \A k : k \in DOMAIN known' <=> k \in seeded \/ (k \in out /\ k \notin refused) \/ k \in DOMAIN known
    /\ \A k : k \in seeded \/ (k \in out /\ k \notin refused) => known'[k] = map[k]
    /\ \A k : k \in DOMAIN known /\ ~(k \in seeded \/ (k \in out /\ k \notin refused)) => known'[k] = known[k]
    /\ \A k : k \in unsent' <=> (k \in unsent /\ k \notin out \ encoder.pins)
                                    \/ (k \in seeded /\ encoder.val[k] # map[k])

\* A settings object has that effect.
LEMMA SettingsEffect ==
  ASSUME Frame, NEW cat \in Controls!Categories, NEW obj, Controls!Settings(cat, obj)
  PROVE  /\ \E out, seeded, refused : Effect(Controls!ControlMap(cat, obj), out, seeded, refused)
         /\ wanted' = Controls!@@(Controls!Asks(obj), wanted)
         /\ fresh' \in [Controls!Categories -> {"seed", "pending", "no"}]
  <1> DEFINE map == Controls!ControlMap(cat, obj)
             controls == [k \in DOMAIN map \ locked |-> map[k]]
             out == CASE fresh[cat] = "seed"    -> {}
                      [] fresh[cat] = "pending" -> DOMAIN controls
                      [] fresh[cat] = "no"      -> Controls!Changed(controls)
             seeded == IF fresh[cat] = "seed" THEN DOMAIN controls ELSE {}
             refused == Controls!Refused(out)
  <1>1. /\ encoder' = [encoder EXCEPT !.val = Controls!@@(Controls!Restrict(controls, Controls!Done(out)), @)]
        /\ locked' = locked \cup refused
        /\ known' = Controls!@@(Controls!Restrict(controls, seeded \cup (out \ refused)), known)
        /\ unsent' = (unsent \ Controls!Done(out)) \cup {k \in seeded : encoder.val[k] # controls[k]}
        /\ fresh' = [fresh EXCEPT ![cat] = "no"]
        /\ wanted' = Controls!@@(Controls!Asks(obj), wanted)
    BY Zenon DEF Controls!Settings
  <1>2. fresh[cat] \in {"seed", "pending", "no"}
    BY DEF Frame
  <1>3. /\ fresh[cat] = "seed" => out = {}
        /\ fresh[cat] = "pending" => out = DOMAIN controls
        /\ fresh[cat] = "no" => out = Controls!Changed(controls)
    BY Zenon
  <1> HIDE DEF out
  <1>4. \A k : k \in DOMAIN controls <=> k \in DOMAIN map \ locked
    OBVIOUS
  <1>5. \A k \in DOMAIN controls : controls[k] = map[k]
    OBVIOUS
  <1> HIDE DEF controls
  <1>6. \A k : k \in Controls!Changed(controls) <=>
            k \in DOMAIN controls /\ (k \notin DOMAIN known \/ known[k] # controls[k])
    BY DEF Controls!Changed
  <1>7. /\ \A k : k \in out => k \in DOMAIN controls
        /\ \A k : k \in seeded => k \in DOMAIN controls
        /\ \A k : k \in DOMAIN controls =>
               k \in out \/ k \in seeded \/ (k \in DOMAIN known /\ known[k] = controls[k])
    BY <1>2, <1>3, <1>6
  <1>8. \A k : k \in refused => k \in out /\ k \in encoder.pins
    BY DEF Controls!Refused
  <1>9. \A k : k \in Controls!Done(out) <=> k \in out /\ k \notin encoder.pins
    BY DEF Controls!Done
  <1>10. encoder' = [val |-> Controls!@@(Controls!Restrict(controls, Controls!Done(out)), encoder.val),
                     pins |-> encoder.pins]
    BY <1>1 DEF Frame
  <1> HIDE DEF map, seeded, refused
  <1>11. encoder' = [val |-> encoder'.val, pins |-> encoder.pins]
         /\ encoder'.val = Controls!@@(Controls!Restrict(controls, Controls!Done(out)), encoder.val)
    BY <1>10
  <1>12. \A k : k \in DOMAIN Controls!Restrict(controls, Controls!Done(out)) <=> k \in out \ encoder.pins
    BY <1>7, <1>9, RestrictTo
  <1>13. \A k : k \in DOMAIN Controls!Restrict(controls, seeded \cup (out \ refused))
                     <=> k \in seeded \/ (k \in out /\ k \notin refused)
    BY <1>7, RestrictTo
  <1>14. /\ \A k : k \in DOMAIN encoder'.val <=> k \in out \ encoder.pins \/ k \in DOMAIN encoder.val
         /\ \A k : k \in out \ encoder.pins => encoder'.val[k] = map[k]
         /\ \A k : k \in DOMAIN encoder.val /\ k \notin out \ encoder.pins =>
                encoder'.val[k] = encoder.val[k]
    BY <1>5, <1>7, <1>9, <1>11, <1>12, OverDomain, OverValue, RestrictTo
  <1>15. /\ \A k : k \in DOMAIN known'
                        <=> k \in seeded \/ (k \in out /\ k \notin refused) \/ k \in DOMAIN known
         /\ \A k : k \in seeded \/ (k \in out /\ k \notin refused) => known'[k] = map[k]
         /\ \A k : k \in DOMAIN known /\ ~(k \in seeded \/ (k \in out /\ k \notin refused)) =>
                known'[k] = known[k]
    BY <1>1, <1>5, <1>7, <1>13, OverDomain, OverValue, RestrictTo
  <1>16. \A k : k \in unsent'
                     <=> \/ k \in unsent /\ k \notin out \ encoder.pins
                         \/ k \in seeded /\ encoder.val[k] # map[k]
    BY <1>1, <1>5, <1>7, <1>9
  <1>17. fresh' \in [Controls!Categories -> {"seed", "pending", "no"}]
    BY <1>1 DEF Frame
  <1>18. \A k : k \in locked' <=> k \in locked \/ k \in refused
    BY <1>1
  <1>19. Effect(map, out, seeded, refused)
    <2>1. \A k : k \in out => k \in DOMAIN map \ locked
      BY <1>4, <1>7
    <2>2. \A k : k \in seeded => k \in DOMAIN map \ locked
      BY <1>4, <1>7
    <2>3. \A k : k \in DOMAIN map \ locked =>
              k \in out \/ k \in seeded \/ (k \in DOMAIN known /\ known[k] = map[k])
      BY <1>4, <1>5, <1>7
    <2>4. QED BY <1>8, <1>11, <1>14, <1>15, <1>16, <1>18, <2>1, <2>2, <2>3, Zenon DEF Effect
  <1>20. QED BY <1>1, <1>17, <1>19, Zenon DEF map

LEMMA SettingsKeeps ==
  ASSUME ControlInv, NEW cat \in Controls!Categories, NEW obj \in Controls!Objects[cat],
         Controls!Settings(cat, obj)
  PROVE  ControlInv'
  <1> DEFINE map == Controls!ControlMap(cat, obj)
  <1>1. PICK out, seeded, refused : Effect(map, out, seeded, refused)
    BY SettingsEffect DEF ControlInv
  <1>2. wanted' = Controls!@@(Controls!Asks(obj), wanted)
        /\ fresh' \in [Controls!Categories -> {"seed", "pending", "no"}]
    BY SettingsEffect DEF ControlInv
  <1> HIDE DEF map
  <1>3. Frame'
    BY <1>1, <1>2 DEF Effect, ControlInv, Frame
  <1>4. encoder'.pins = encoder.pins
    BY <1>1 DEF Effect
  <1>5. encoder'.pins \subseteq unsent' /\ locked' \subseteq unsent'
    BY <1>1, <1>4 DEF Effect, ControlInv
  <1>6. ASSUME NEW k \in Controls!Keys, k \in DOMAIN known', k \notin unsent'
        PROVE  encoder'.val[k] = known'[k]
    BY <1>1, <1>6 DEF Effect, ControlInv, Frame
  <1>7. ASSUME NEW a \in Seen, a \in DOMAIN wanted'
        PROVE  \E c \in Controls!Categories : \E o \in Controls!Objects[c] : LastAsked(a, c, o)'
    <2>1. CASE a \in DOMAIN Controls!Asks(obj)
      <3>1. wanted'[a] = Controls!Asks(obj)[a]
        BY <1>2, <2>1, OverValue
      <3>2. ASSUME NEW k \in Controls!KeysOf[a] \cap DOMAIN map
            PROVE  /\ k \notin unsent' => encoder'.val[k] = map[k]
                   /\ k \in DOMAIN known' \ locked' => known'[k] = map[k]
        <4>1. k \in Controls!Keys
          BY SeenKeys
        <4>2. QED BY <1>1, <4>1 DEF Effect, ControlInv, Frame
      <3>3. LastAsked(a, cat, obj)'
        BY <2>1, <3>1, <3>2 DEF LastAsked, map
      <3>4. QED BY <3>3
    <2>2. CASE a \notin DOMAIN Controls!Asks(obj)
      <3>1. a \in DOMAIN wanted /\ wanted'[a] = wanted[a]
        BY <1>2, <1>7, <2>2, OverDomain, OverValue
      <3>2. PICK c \in Controls!Categories : \E o \in Controls!Objects[c] : LastAsked(a, c, o)
        BY <3>1 DEF ControlInv
      <3>3. PICK o \in Controls!Objects[c] : LastAsked(a, c, o)
        BY <3>2
      <3>4. ASSUME NEW k \in Controls!KeysOf[a] \cap DOMAIN Controls!ControlMap(c, o)
            PROVE  /\ k \notin unsent' => encoder'.val[k] = Controls!ControlMap(c, o)[k]
                   /\ k \in DOMAIN known' \ locked' => known'[k] = Controls!ControlMap(c, o)[k]
        <4>1. k \in Controls!Keys /\ k \notin DOMAIN map
          BY <2>2, SeenKeys, Unasked DEF map
        <4>2. k \notin out /\ k \notin seeded /\ k \notin refused
          BY <1>1, <4>1 DEF Effect
        <4>3. QED BY <1>1, <3>3, <4>1, <4>2 DEF Effect, ControlInv, Frame, LastAsked
      <3>5. LastAsked(a, c, o)'
        BY <3>1, <3>3, <3>4 DEF LastAsked
      <3>6. QED BY <3>5
    <2>3. QED BY <2>1, <2>2
  <1>8. QED BY <1>3, <1>5, <1>6, <1>7 DEF ControlInv


LEMMA ControlInit ==
  Controls!Init => ControlInv
  <1> SUFFICES ASSUME Controls!Init
               PROVE  ControlInv
    OBVIOUS
  <1>1. /\ encoder = [val |-> Controls!Stock, pins |-> {}] /\ known = Controls!NoControls
        /\ fresh = [c \in Controls!Categories |-> "pending"]
        /\ locked = {} /\ wanted = Controls!NoControls
    BY DEF Controls!Init
  <1>2. encoder.val = Controls!Stock /\ encoder.pins = {} /\ DOMAIN Controls!Stock = Controls!Keys
    BY <1>1 DEF Controls!Stock
  <1>3. Frame
    BY <1>1, <1>2 DEF Frame
  <1>4. QED BY <1>1, <1>2, <1>3, Nothing DEF ControlInv

LEMMA ConnectKeeps ==
  ASSUME ControlInv, Controls!Connect
  PROVE  ControlInv'
  <1>1. /\ known' = Controls!NoControls
        /\ UNCHANGED <<encoder, refuses, locked, wanted, unsent>>
        /\ fresh' = [c \in Controls!Categories |-> IF fresh[c] = "pending" THEN "pending" ELSE "seed"]
    BY DEF Controls!Connect
  <1>2. Frame'
    BY <1>1 DEF ControlInv, Frame
  <1>3. ASSUME NEW a \in Seen, NEW c \in Controls!Categories, NEW o \in Controls!Objects[c],
               LastAsked(a, c, o)
        PROVE  LastAsked(a, c, o)'
    BY <1>1, <1>3, Nothing DEF LastAsked
  <1>4. ASSUME NEW a \in Seen, a \in DOMAIN wanted'
        PROVE  \E c \in Controls!Categories : \E o \in Controls!Objects[c] : LastAsked(a, c, o)'
    <2>1. PICK c \in Controls!Categories : \E o \in Controls!Objects[c] : LastAsked(a, c, o)
      BY <1>1, <1>4 DEF ControlInv
    <2>2. QED BY <1>3, <2>1
  <1>5. QED BY <1>1, <1>2, <1>4, Nothing DEF ControlInv

LEMMA RestartKeeps ==
  ASSUME ControlInv, Controls!Restart
  PROVE  ControlInv'
  <1> DEFINE told == Controls!Restrict(known, Controls!Done(Controls!Told))
             kept == Controls!Restrict(encoder.val, encoder.pins)
  <1>1. /\ encoder' = [encoder EXCEPT !.val = Controls!@@(Controls!@@(kept, told), Controls!Stock)]
        /\ locked' = locked \cup Controls!Refused(Controls!Told)
        /\ unsent' = (Controls!Keys \ DOMAIN known) \cup encoder.pins \cup locked
        /\ UNCHANGED <<refuses, known, wanted>>
        /\ fresh' = [c \in Controls!Categories |->
                         IF Controls!KeysIn[c] \cap DOMAIN known = {} THEN "pending" ELSE fresh[c]]
    BY DEF Controls!Restart
  <1> HIDE DEF told, kept
  <1>2. encoder' = [val |-> Controls!@@(Controls!@@(kept, told), Controls!Stock), pins |-> encoder.pins]
    BY <1>1 DEF ControlInv, Frame
  <1>3. encoder'.val = Controls!@@(Controls!@@(kept, told), Controls!Stock) /\ encoder'.pins = encoder.pins
        /\ encoder' = [val |-> encoder'.val, pins |-> encoder'.pins]
    BY <1>2
  <1>4. \A k : k \in Controls!Keys => k \in DOMAIN Controls!Stock
    BY DEF Controls!Stock
  <1>5. \A k : k \in Controls!Keys => k \in DOMAIN encoder'.val
    BY <1>3, <1>4, OverDomain
  <1>6. fresh' \in [Controls!Categories -> {"seed", "pending", "no"}]
    BY <1>1 DEF ControlInv, Frame
  <1>7. Frame'
    BY <1>3, <1>5, <1>6 DEF Frame
  <1>8. \A k : k \in Controls!Refused(Controls!Told) => k \in encoder.pins
    BY DEF Controls!Refused
  <1>9. encoder'.pins \subseteq unsent' /\ locked' \subseteq unsent'
    BY <1>1, <1>3, <1>8
  <1>10. \A k : k \in DOMAIN told <=> k \in DOMAIN known /\ k \notin locked /\ k \notin encoder.pins
    BY RestrictTo DEF told, Controls!Done, Controls!Told
  <1>11. \A k : k \in DOMAIN told => told[k] = known[k]
    BY RestrictTo DEF told, Controls!Done, Controls!Told
  <1>12. \A k : k \in DOMAIN kept => k \in encoder.pins
    BY RestrictTo DEF kept
  <1>13. ASSUME NEW k \in Controls!Keys, k \notin unsent'
         PROVE  k \in DOMAIN known /\ k \notin locked /\ encoder'.val[k] = known[k]
    <2>1. k \in DOMAIN known /\ k \notin locked /\ k \notin encoder.pins
      BY <1>1, <1>13
    <2>2. k \in DOMAIN told /\ k \notin DOMAIN kept /\ told[k] = known[k]
      BY <1>10, <1>11, <1>12, <2>1
    <2>3. QED BY <1>3, <2>1, <2>2, OverDomain, OverValue
  <1>14. ASSUME NEW a \in Seen, NEW c \in Controls!Categories, NEW o \in Controls!Objects[c],
                LastAsked(a, c, o)
         PROVE  LastAsked(a, c, o)'
    <2>1. ASSUME NEW k \in Controls!KeysOf[a] \cap DOMAIN Controls!ControlMap(c, o)
          PROVE  /\ k \notin unsent' => encoder'.val[k] = Controls!ControlMap(c, o)[k]
                 /\ k \in DOMAIN known' \ locked' => known'[k] = Controls!ControlMap(c, o)[k]
      <3>1. k \in Controls!Keys
        BY SeenKeys
      <3>2. QED BY <1>1, <1>13, <1>14, <3>1 DEF LastAsked
    <2>2. QED BY <1>1, <1>14, <2>1 DEF LastAsked
  <1>15. ASSUME NEW a \in Seen, a \in DOMAIN wanted'
         PROVE  \E c \in Controls!Categories : \E o \in Controls!Objects[c] : LastAsked(a, c, o)'
    <2>1. PICK c \in Controls!Categories : \E o \in Controls!Objects[c] : LastAsked(a, c, o)
      BY <1>1, <1>15 DEF ControlInv
    <2>2. QED BY <1>14, <2>1
  <1>16. \A k \in (Controls!Keys \cap DOMAIN known') \ unsent' : encoder'.val[k] = known'[k]
    BY <1>1, <1>13
  <1>17. QED BY <1>7, <1>9, <1>15, <1>16 DEF ControlInv

\* The page pins a key at a value, or lets go of one and keeps its value.
LEMMA PageKeeps ==
  ASSUME ControlInv, NEW k \in Controls!PageKeys,
         encoder'.val = encoder.val \/ \E v : encoder'.val = [encoder.val EXCEPT ![k] = v] /\ k \in unsent',
         encoder' = [val |-> encoder'.val, pins |-> encoder'.pins],
         encoder'.pins \subseteq unsent', unsent \subseteq unsent',
         UNCHANGED <<known, fresh, locked, wanted>>
  PROVE  ControlInv'
  <1>1. Frame'
    BY DEF ControlInv, Frame
  <1>2. \A i \in Controls!Keys : i \notin unsent' => encoder'.val[i] = encoder.val[i] /\ i \notin unsent
    BY DEF ControlInv, Frame
  <1>3. ASSUME NEW a \in Seen, NEW c \in Controls!Categories, NEW o \in Controls!Objects[c],
               LastAsked(a, c, o)
        PROVE  LastAsked(a, c, o)'
    BY <1>2, <1>3, SeenKeys DEF LastAsked
  <1>4. ASSUME NEW a \in Seen, a \in DOMAIN wanted'
        PROVE  \E c \in Controls!Categories : \E o \in Controls!Objects[c] : LastAsked(a, c, o)'
    <2>1. PICK c \in Controls!Categories : \E o \in Controls!Objects[c] : LastAsked(a, c, o)
      BY <1>4 DEF ControlInv
    <2>2. QED BY <1>3, <2>1
  <1>5. QED BY <1>1, <1>2, <1>4 DEF ControlInv

LEMMA ControlStep ==
  ControlInv /\ [Controls!Next]_ctlVars => ControlInv'
  <1> SUFFICES ASSUME ControlInv, [Controls!Next]_ctlVars
               PROVE  ControlInv'
    OBVIOUS
  <1>1. CASE \E cat \in Controls!Categories : \E obj \in Controls!Objects[cat] : Controls!Settings(cat, obj)
    BY <1>1, SettingsKeeps
  <1>2. CASE Controls!Connect
    BY <1>2, ConnectKeeps
  <1>3. CASE Controls!Restart
    BY <1>3, RestartKeeps
  <1>4. ASSUME NEW k \in Controls!PageKeys, Controls!Pin(k, 50)
        PROVE  ControlInv'
    <2>1. /\ encoder' = [val |-> [encoder.val EXCEPT ![k] = 50], pins |-> encoder.pins \cup {k}]
          /\ unsent' = unsent \cup {k}
          /\ UNCHANGED <<known, fresh, locked, wanted>>
      BY <1>4 DEF Controls!Pin
    <2>2. /\ encoder'.val = [encoder.val EXCEPT ![k] = 50] /\ encoder'.pins = encoder.pins \cup {k}
          /\ encoder' = [val |-> encoder'.val, pins |-> encoder'.pins]
      BY <2>1
    <2>3. encoder'.pins \subseteq unsent' /\ unsent \subseteq unsent' /\ k \in unsent'
      BY <2>1, <2>2 DEF ControlInv
    <2>4. \E v : encoder'.val = [encoder.val EXCEPT ![k] = v] /\ k \in unsent'
      BY <2>2, <2>3, Zenon
    <2>5. QED BY <2>1, <2>2, <2>3, <2>4, PageKeeps, Zenon
  <1>5. ASSUME NEW k \in Controls!PageKeys, Controls!Unpin(k)
        PROVE  ControlInv'
    <2>1. /\ encoder' = [val |-> encoder.val, pins |-> encoder.pins \ {k}]
          /\ UNCHANGED <<known, fresh, locked, wanted, unsent>>
      BY <1>5 DEF Controls!Unpin, ControlInv, Frame
    <2>2. /\ encoder'.val = encoder.val /\ encoder'.pins = encoder.pins \ {k}
          /\ encoder' = [val |-> encoder'.val, pins |-> encoder'.pins]
      BY <2>1
    <2>3. encoder'.pins \subseteq unsent' /\ unsent \subseteq unsent'
      BY <2>1, <2>2 DEF ControlInv
    <2>4. QED BY <2>1, <2>2, <2>3, PageKeeps
  <1>6. CASE UNCHANGED ctlVars
    BY <1>6 DEF ctlVars, ControlInv, Frame, LastAsked
  <1>7. QED BY <1>1, <1>2, <1>3, <1>4, <1>5, <1>6 DEF Controls!Next

LEMMA ControlFollows == ControlInv => PictureFollows
  <1> SUFFICES ASSUME ControlInv, NEW a \in Seen, a \in DOMAIN wanted,
                      Controls!KeysOf[a] \cap unsent = {}
               PROVE  Controls!Shown(encoder.val, a) = wanted[a]
    BY DEF PictureFollows, Controls!PictureFollows, Controls!Follows, Seen
  <1>1. PICK c \in Controls!Categories : \E o \in Controls!Objects[c] : LastAsked(a, c, o)
    BY DEF ControlInv
  <1>2. PICK o \in Controls!Objects[c] : LastAsked(a, c, o)
    BY <1>1
  <1>3. a \in DOMAIN Controls!Asks(o) /\ wanted[a] = Controls!Asks(o)[a]
    BY <1>2 DEF LastAsked
  <1>4. \A k \in Controls!KeysOf[a] \cap DOMAIN Controls!ControlMap(c, o) :
            encoder.val[k] = Controls!ControlMap(c, o)[k]
    BY <1>2 DEF LastAsked
  <1>5. a = "night" => wanted.night = Controls!Asks(o)[a]
    BY <1>3
  <1>6. Controls!Shown(encoder.val, a) = Controls!Asks(o)[a]
    BY <1>3, <1>4, <1>5, Shows
  <1>7. QED BY <1>3, <1>6

\* mediad_ctl.go, webui.go: through any sequence of the settings objects, reconnects,
\* restarts of the daemon and pins, each aspect of the picture is the one that the last
\* object that spoke of it asked for, except while a value of it is unsent.
THEOREM PictureFollowsHolds == DeviceSpec => []PictureFollows
  <1>1. DeviceInit => ControlInv
    BY PartInit, ControlInit
  <1>2. ControlInv /\ [DeviceNext]_deviceVars => ControlInv'
    BY PartStep, ControlStep
  <1>3. QED BY <1>1, <1>2, ControlFollows, PTL DEF DeviceSpec

----------------------------------------------------------------------------
\* What follows rests on these.
USE TimeAssumption, ClockAssumption, PresetAssumption, LightAssumption, RequestAssumption,
    ConnectionAssumption

----------------------------------------------------------------------------
(* The bridge's self-healing exit. *)

\* A channel that has not been polled since the process started is new, and one
\* that has been polled in this tick has been silent for no longer than the limit.
StarvationInv ==
    /\ now \in Nat /\ up \subseteq Channels /\ polled \subseteq Channels
    /\ lastFrameSec \in [Channels -> Nat] /\ fed \in [Channels -> Nat]
    /\ now > 0 /\ (~running => up = {})
    /\ \A c \in Channels : lastFrameSec[c] <= now
    /\ \A c \in up :
        /\ lastFrameSec[c] <= fed[c] /\ fed[c] <= now
        /\ lastFrameSec[c] = 0 => fed[c] = now /\ c \notin polled
        /\ c \in polled => now - fed[c] <= Limit
        /\ now - fed[c] <= Limit + 1

LEMMA StarvationStep ==
  ASSUME StarvationInv, [Next]_vars
  PROVE  StarvationInv'
  <1>1. ASSUME NEW c \in Channels, Connect(c) PROVE StarvationInv'
    BY <1>1 DEF StarvationInv, Connect
  <1>2. ASSUME NEW c \in Channels, Disconnect(c) PROVE StarvationInv'
    BY <1>2 DEF StarvationInv, Disconnect
  <1>3. ASSUME NEW c \in Channels, FrameArrives(c) PROVE StarvationInv'
    BY <1>3 DEF StarvationInv, FrameArrives
  <1>4. ASSUME NEW c \in Channels, PollFrame(c) PROVE StarvationInv'
    BY <1>4 DEF StarvationInv, PollFrame
  <1>5. ASSUME NEW c \in Channels, PollEmpty(c) PROVE StarvationInv'
    BY <1>5 DEF StarvationInv, PollEmpty, since
  <1>6. CASE Restart
    BY <1>6 DEF StarvationInv, Restart
  <1>7. CASE Tick
    BY <1>7 DEF StarvationInv, Tick
  <1>8. CASE UNCHANGED vars
    BY <1>8 DEF StarvationInv, vars
  <1>9. QED BY <1>1, <1>2, <1>3, <1>4, <1>5, <1>6, <1>7, <1>8 DEF Next

\* FlvPush.cpp: no connected channel is without video for longer than the limit and
\* one tick, for any number of channels and any limit, although the static clock
\* outlives the connection it was set in.
THEOREM StarvedChannelExitsHolds == DeviceSpec => []StarvedChannelExits
  <1>1. DeviceInit => StarvationInv
    BY PartInit DEF Init, StarvationInv
  <1>2. StarvationInv /\ [DeviceNext]_deviceVars => StarvationInv'
    BY PartStep, StarvationStep
  <1>3. StarvationInv => StarvedChannelExits
    BY DEF StarvationInv, StarvedChannelExits
  <1>4. QED BY <1>1, <1>2, <1>3, PTL DEF DeviceSpec

----------------------------------------------------------------------------
(* The camera's clock. *)

\* What is pending is the last sample, if that was out of tolerance; a clock that
\* is right has been set.
ClockInv ==
    /\ error \in Int /\ pendingOffset \in Int /\ late \in Nat
    /\ clockSynced \in BOOLEAN /\ good \in BOOLEAN
    /\ good => clockSynced /\ AccurateStays
    /\ good /\ pendingOffset # 0 =>
        pendingOffset = error - late /\ ~TimeSync!Within(pendingOffset, TimeSync!Tolerance)

LEMMA ClockStep ==
  ASSUME ClockInv, [TimeSync!Next]_clockVars
  PROVE  ClockInv'
  <1> USE DEF TimeSync!Within, TimeSync!Tolerance, TimeSync!Agreement
  <1>1. ASSUME NEW delay \in Delays, NEW works \in BOOLEAN, TimeSync!HandleTimeSync(delay, works)
        PROVE  ClockInv'
    <2>1. delay \in Nat
      OBVIOUS
    <2>2. CASE TimeSync!NeedsStep(error - delay) /\ good
      BY <1>1, <2>1, <2>2
      DEF ClockInv, AccurateStays, TimeSync!AccurateStays, TimeSync!NeedsStep, TimeSync!HandleTimeSync
    <2>3. CASE TimeSync!NeedsStep(error - delay) /\ ~good
      BY <1>1, <2>1, <2>3
      DEF ClockInv, AccurateStays, TimeSync!AccurateStays, TimeSync!HandleTimeSync
    <2>4. CASE ~TimeSync!NeedsStep(error - delay)
      BY <1>1, <2>1, <2>4
      DEF ClockInv, AccurateStays, TimeSync!AccurateStays, TimeSync!HandleTimeSync, TimeSync!Pending
    <2>5. QED BY <2>2, <2>3, <2>4
  <1>2. ASSUME NEW d \in Drifts, TimeSync!Drift(d) PROVE ClockInv'
    <2>1. d \in Int
      BY DEF Drifts
    <2>2. error' = error + d /\ good' = FALSE /\ UNCHANGED <<clockSynced, pendingOffset, late>>
      BY <1>2 DEF TimeSync!Drift
    <2>3. ~good' /\ good' \in BOOLEAN
      BY <2>2
    <2>4. error' \in Int /\ pendingOffset' \in Int /\ late' \in Nat /\ clockSynced' \in BOOLEAN
      BY <2>1, <2>2 DEF ClockInv
    <2>5. QED BY <2>3, <2>4 DEF ClockInv
  <1>3. CASE UNCHANGED clockVars
    BY <1>3 DEF ClockInv, AccurateStays, TimeSync!AccurateStays, clockVars
  <1>4. QED BY <1>1, <1>2, <1>3 DEF TimeSync!Next

\* timesync.go: a clock that has been set right stays right until it drifts, for any
\* delays of the messages, any number of samples and failures to set it.
THEOREM AccurateStaysHolds == DeviceSpec => []AccurateStays
  <1>1. DeviceInit => ClockInv
    <2> SUFFICES ASSUME DeviceInit PROVE ClockInv
      OBVIOUS
    <2>1. error \in Int /\ pendingOffset = 0 /\ late = 0
      BY PartInit DEF TimeSync!Init
    <2>2. clockSynced = FALSE /\ good = FALSE
      BY PartInit DEF TimeSync!Init
    <2>3. ~good /\ good \in BOOLEAN /\ clockSynced \in BOOLEAN
      BY <2>2
    <2>4. QED BY <2>1, <2>3 DEF ClockInv
  <1>2. ClockInv /\ [DeviceNext]_deviceVars => ClockInv'
    BY PartStep, ClockStep
  <1>3. ClockInv => AccurateStays
    BY DEF ClockInv, AccurateStays, TimeSync!AccurateStays
  <1>4. QED BY <1>1, <1>2, <1>3, PTL DEF DeviceSpec

----------------------------------------------------------------------------
(* The motor and its presets. *)

PtzInv ==
    /\ motor \in BOOLEAN /\ held \in BOOLEAN
    /\ move \in [Moves -> {"idle", "go", "stop"}]
    /\ preset \in [Slots -> Names \cup {None}]
    /\ conf \in [Slots -> [name : Names \cup {None}, at : Names \cup {None}]]
    /\ Ptz!NoRunaway
    /\ Ptz!SlotsMirrored

\* The client finds the slot the firmware takes: the lowest that is free in both.
LEMMA SameSlot ==
  ASSUME PtzInv, NEW s \in Slots, preset[s] = None, \A r \in Slots : r < s => preset[r] # None
  PROVE  Ptz!FirstAvailable(conf) = s
  <1>1. Ptz!EmptySlots(conf) = {r \in Slots : preset[r] = None}
    BY DEF Ptz!EmptySlots, PtzInv, Ptz!SlotsMirrored
  <1>2. s \in Ptz!EmptySlots(conf) /\ \A r \in Ptz!EmptySlots(conf) : s <= r
    <2>1. \A r \in Slots : preset[r] = None => ~(r < s)
      OBVIOUS
    <2>2. \A r \in Slots : r \in Nat
      OBVIOUS
    <2>3. \A r \in Slots : preset[r] = None => s <= r
      BY <2>1, <2>2
    <2>4. QED BY <1>1, <2>3
  <1>3. \A t \in Ptz!EmptySlots(conf) : (\A r \in Ptz!EmptySlots(conf) : t <= r) => t = s
    BY <1>1, <1>2
  <1>4. QED BY <1>2, <1>3 DEF Ptz!FirstAvailable

\* Rewriting the file changes the name of one slot only.
LEMMA RewrittenNames ==
  ASSUME PtzInv, NEW s \in Slots, NEW name \in Names \cup {None}, NEW at \in Names \cup {None},
         conf' = Ptz!Rewritten(s, [name |-> name, at |-> at])
  PROVE  /\ conf' \in [Slots -> [name : Names \cup {None}, at : Names \cup {None}]]
         /\ conf'[s].name = name
         /\ \A r \in Slots \ {s} : conf'[r].name = conf[r].name
  <1>1. \A r \in Slots :
            /\ [conf[r] EXCEPT !.at = None] \in [name : Names \cup {None}, at : Names \cup {None}]
            /\ [conf[r] EXCEPT !.at = None].name = conf[r].name
    BY DEF PtzInv
  <1>2. \A r \in Slots : conf'[r] = IF r = s THEN [name |-> name, at |-> at]
                                    ELSE [conf[r] EXCEPT !.at = None]
    BY DEF Ptz!Rewritten
  <1> DEFINE S == [name : Names \cup {None}, at : Names \cup {None}]
  <1>3. [name |-> name, at |-> at] \in S
    OBVIOUS
  <1>4. ASSUME NEW r \in Slots PROVE conf'[r] \in S
    <2>1. CASE r = s
      BY <1>2, <1>3, <2>1
    <2>2. CASE r # s
      <3>1. conf'[r] = [conf[r] EXCEPT !.at = None]
        BY <1>2, <2>2
      <3>2. QED BY <1>1, <3>1
    <2>3. QED BY <2>1, <2>2
  <1>5. DOMAIN conf' = Slots /\ conf' = [r \in Slots |-> conf'[r]]
    BY DEF Ptz!Rewritten
  <1>6. conf' \in [Slots -> S]
    <2> HIDE DEF S
    <2>1. QED BY <1>4, <1>5
  <1>7. conf'[s].name = name
    <2>1. conf'[s] = [name |-> name, at |-> at]
      BY <1>2
    <2>2. QED BY <2>1
  <1>8. ASSUME NEW r \in Slots \ {s} PROVE conf'[r].name = conf[r].name
    <2>1. conf'[r] = [conf[r] EXCEPT !.at = None]
      BY <1>2
    <2>2. QED BY <1>1, <2>1
  <1>9. QED BY <1>6, <1>7, <1>8

LEMMA PtzMoves ==
  ASSUME PtzInv, UNCHANGED <<preset, conf>>,
         \/ \E turn \in BOOLEAN : Ptz!ContinuousMove(turn)
         \/ \E m \in Moves : Ptz!RelativePosition(m) \/ Ptz!MoveStep(m)
  PROVE  PtzInv'
  <1>1. ASSUME NEW turn \in BOOLEAN, Ptz!ContinuousMove(turn) PROVE PtzInv'
    BY <1>1 DEF PtzInv, Ptz!NoRunaway, Ptz!SlotsMirrored, Ptz!ContinuousMove
  <1>2. ASSUME NEW m \in Moves, Ptz!RelativePosition(m) PROVE PtzInv'
    BY <1>2 DEF PtzInv, Ptz!NoRunaway, Ptz!SlotsMirrored, Ptz!RelativePosition
  <1>3. ASSUME NEW m \in Moves, Ptz!RelativeGoes(m) PROVE PtzInv'
    <2>1. move' \in [Moves -> {"idle", "go", "stop"}] /\ move'[m] = "stop"
      BY <1>3 DEF PtzInv, Ptz!RelativeGoes
    <2>2. motor' \in BOOLEAN /\ held' \in BOOLEAN
      BY <1>3 DEF PtzInv, Ptz!RelativeGoes
    <2>3. QED BY <2>1, <2>2 DEF PtzInv, Ptz!NoRunaway, Ptz!SlotsMirrored
  <1>4. ASSUME NEW m \in Moves, Ptz!RelativeStops(m) PROVE PtzInv'
    <2>1. move' \in [Moves -> {"idle", "go", "stop"}]
      BY <1>4 DEF PtzInv, Ptz!RelativeStops
    <2>2. ~motor' /\ motor' \in BOOLEAN /\ held' \in BOOLEAN
      BY <1>4 DEF PtzInv, Ptz!RelativeStops
    <2>3. QED BY <2>1, <2>2 DEF PtzInv, Ptz!NoRunaway, Ptz!SlotsMirrored
  <1>5. QED BY <1>1, <1>2, <1>3, <1>4 DEF Ptz!MoveStep

LEMMA PtzStep ==
  ASSUME PtzInv, ~Indexed, [Ptz!Next]_ptzVars
  PROVE  PtzInv'
  <1>1. CASE \/ \E turn \in BOOLEAN : Ptz!ContinuousMove(turn)
             \/ \E m \in Moves : Ptz!RelativePosition(m) \/ Ptz!MoveStep(m)
    <2>1. UNCHANGED <<preset, conf>>
      BY <1>1 DEF Ptz!ContinuousMove, Ptz!RelativePosition, Ptz!MoveStep, Ptz!RelativeGoes,
                  Ptz!RelativeStops
    <2>2. QED BY <1>1, <2>1, PtzMoves
  <1>2. ASSUME NEW name \in Names, Ptz!PresetSet(name, None)
        PROVE  PtzInv'
    <2>1. PICK s \in Slots : /\ preset[s] = None /\ \A r \in Slots : r < s => preset[r] # None
                             /\ preset' = [preset EXCEPT ![s] = name]
      BY <1>2 DEF Ptz!PresetSet
    <2>2. Ptz!SlotFor(None) = s
      BY <2>1, SameSlot DEF Ptz!SlotFor
    <2>3. conf' = Ptz!Rewritten(s, [name |-> name, at |-> name])
      BY <1>2, <2>2 DEF Ptz!PresetSet
    <2>4. /\ conf' \in [Slots -> [name : Names \cup {None}, at : Names \cup {None}]]
          /\ conf'[s].name = name
          /\ \A r \in Slots \ {s} : conf'[r].name = conf[r].name
      BY <2>3, RewrittenNames
    <2>5. preset' \in [Slots -> Names \cup {None}] /\ preset'[s] = name
          /\ \A r \in Slots \ {s} : preset'[r] = preset[r]
      BY <2>1 DEF PtzInv
    <2>6. UNCHANGED <<motor, held, move>>
      BY <1>2 DEF Ptz!PresetSet
    <2>7. QED BY <2>4, <2>5, <2>6 DEF PtzInv, Ptz!NoRunaway, Ptz!SlotsMirrored
  <1>3. ASSUME NEW index \in Slots, Ptz!PresetDelete(index)
        PROVE  PtzInv'
    <2>1. conf' = Ptz!Rewritten(index, [name |-> None, at |-> None])
      BY <1>3 DEF Ptz!PresetDelete, Ptz!Empty
    <2>2. /\ conf' \in [Slots -> [name : Names \cup {None}, at : Names \cup {None}]]
          /\ conf'[index].name = None
          /\ \A r \in Slots \ {index} : conf'[r].name = conf[r].name
      BY <2>1, RewrittenNames
    <2>3. preset' \in [Slots -> Names \cup {None}] /\ preset'[index] = None
          /\ \A r \in Slots \ {index} : preset'[r] = preset[r]
      BY <1>3 DEF PtzInv, Ptz!PresetDelete
    <2>4. UNCHANGED <<motor, held, move>>
      BY <1>3 DEF Ptz!PresetDelete
    <2>5. QED BY <2>2, <2>3, <2>4 DEF PtzInv, Ptz!NoRunaway, Ptz!SlotsMirrored
  <1>4. CASE UNCHANGED ptzVars
    BY <1>4 DEF PtzInv, Ptz!NoRunaway, Ptz!SlotsMirrored, ptzVars
  <1>5. QED BY <1>1, <1>2, <1>3, <1>4 DEF Ptz!Next

\* ptz.go: the motor turns only while a move is held or a goroutine will stop it, and
\* the client's file names every preset in the slot the firmware has it in, for any
\* slots, names, moves and commands, if a "set" does not name an occupied slot.  That
\* hypothesis is needed: the firmware takes the lowest free slot all the same.
THEOREM AsBookedHolds == ~Indexed => (DeviceSpec => []AsBooked)
  <1> SUFFICES ASSUME ~Indexed PROVE DeviceSpec => []AsBooked
    OBVIOUS
  <1>1. DeviceInit => PtzInv
    <2> SUFFICES ASSUME DeviceInit PROVE PtzInv
      OBVIOUS
    <2>1. motor = FALSE /\ held = FALSE
      BY PartInit DEF Ptz!Init
    <2>2. ~motor /\ motor \in BOOLEAN /\ held \in BOOLEAN
      BY <2>1
    <2>3. /\ move \in [Moves -> {"idle", "go", "stop"}]
          /\ preset \in [Slots -> Names \cup {None}]
          /\ conf \in [Slots -> [name : Names \cup {None}, at : Names \cup {None}]]
          /\ \A s \in Slots : conf[s].name = preset[s]
      BY PartInit DEF Ptz!Init, Ptz!Empty
    <2>4. QED BY <2>2, <2>3 DEF PtzInv, Ptz!NoRunaway, Ptz!SlotsMirrored
  <1>2. PtzInv /\ [DeviceNext]_deviceVars => PtzInv'
    BY PartStep, PtzStep
  <1>3. PtzInv => AsBooked
    BY DEF PtzInv, AsBooked, Ptz!AsBooked
  <1>4. QED BY <1>1, <1>2, <1>3, PTL DEF DeviceSpec

----------------------------------------------------------------------------
(* Night vision with the stock encoder. *)

\* The poller has still to drive this part.
Due(part) == \E i \in 1..Len(poller.todo) : poller.todo[i].part = part

\* What a part of the hardware shows, or will when the poller's commands have run.
Heading(part) == hardware[part] = poller.night \/ (poller.pc = "switch" /\ Due(part))

LuxTypes ==
    /\ mode \in [enabled : BOOLEAN, usable : BOOLEAN, ext : BOOLEAN, sync : BOOLEAN]
    /\ hardware \in [{"filter", "led"} -> BOOLEAN]
    /\ poller \in [pc : {"none", "sleep", "clear", "switch"}, night : BOOLEAN, cross : Nat,
                   todo : Seq(Lux!Commands)]
    /\ mixed \in BOOLEAN /\ handler \in Seq(Lux!Commands)

\* While the lux mode is on the handler has nothing to do.  A resync that is about to
\* be marked done is all still to be carried out; when none is due, each part is set
\* or about to be.
LuxInv ==
    /\ LuxTypes
    /\ \A i \in 1..Len(poller.todo) : poller.todo[i].night = poller.night
    /\ mode.ext => mixed
    /\ mode.enabled => handler = <<>> /\ asked = "custom" /\ poller.pc # "none"
    /\ poller.pc = "clear" => mode.sync /\ Due("filter") /\ (mixed \/ Due("led"))
    /\ mode.enabled /\ ~mode.sync => Heading("filter") /\ (mixed \/ Heading("led"))

LEMMA Joined ==
  ASSUME NEW S, NEW f \in S, NEW l \in S
  PROVE  /\ <<f>> \o <<l>> \in Seq(S) /\ Len(<<f>> \o <<l>>) = 2
         /\ (<<f>> \o <<l>>)[1] = f /\ (<<f>> \o <<l>>)[2] = l
  <1>1. <<f>> \in Seq(S) /\ <<l>> \in Seq(S) /\ Len(<<f>>) = 1 /\ Len(<<l>>) = 1
        /\ <<f>>[1] = f /\ <<l>>[1] = l
    OBVIOUS
  <1>2. QED BY <1>1

\* Both parts are switched, or the LED is left alone because it is external.
LEMMA SwitchesBoth ==
  ASSUME NEW night \in BOOLEAN, NEW ext \in BOOLEAN
  PROVE  /\ Lux!Switch(night, ext) \in Seq(Lux!Commands)
         /\ \A i \in 1..Len(Lux!Switch(night, ext)) : Lux!Switch(night, ext)[i].night = night
         /\ \E i \in 1..Len(Lux!Switch(night, ext)) : Lux!Switch(night, ext)[i].part = "filter"
         /\ ext \/ \E i \in 1..Len(Lux!Switch(night, ext)) : Lux!Switch(night, ext)[i].part = "led"
  <1> DEFINE f == Lux!Command("filter", night)
             l == Lux!Command("led", night)
             q == Lux!Switch(night, ext)
  <1>1. /\ f \in Lux!Commands /\ f.night = night /\ f.part = "filter"
        /\ l \in Lux!Commands /\ l.night = night /\ l.part = "led"
    BY DEF Lux!Command, Lux!Commands
  <1>2. q = LET led == IF ext THEN <<>> ELSE <<l>>
            IN  IF night THEN <<f>> \o led ELSE led \o <<f>>
    BY DEF Lux!Switch
  <1> HIDE DEF f, l, q
  <1> DEFINE P == /\ q \in Seq(Lux!Commands) /\ \A i \in 1..Len(q) : q[i].night = night
                  /\ \E i \in 1..Len(q) : q[i].part = "filter"
                  /\ ext \/ \E i \in 1..Len(q) : q[i].part = "led"
  <1>3. ASSUME ext PROVE P
    <2>1. Len(<<f>>) = 1 /\ <<f>>[1] = f /\ <<f>> \in Seq(Lux!Commands)
      BY <1>1
    <2>2. <<f>> \o <<>> = <<f>> /\ <<>> \o <<f>> = <<f>>
      BY <2>1
    <2>3. q = <<f>>
      BY <1>2, <1>3, <2>2
    <2>4. Len(q) = 1 /\ q[1] = f /\ q \in Seq(Lux!Commands)
      BY <2>1, <2>3
    <2>5. QED BY <1>1, <1>3, <2>4
  <1>4. ASSUME ~ext /\ night PROVE P
    <2>1. q = <<f>> \o <<l>>
      BY <1>2, <1>4
    <2>2. Len(q) = 2 /\ q[1] = f /\ q[2] = l /\ q \in Seq(Lux!Commands)
      BY <1>1, <2>1, Joined
    <2>3. QED BY <1>1, <2>2
  <1>5. ASSUME ~ext /\ ~night PROVE P
    <2>1. q = <<l>> \o <<f>>
      BY <1>2, <1>5
    <2>2. f \in Lux!Commands /\ l \in Lux!Commands
      BY <1>1
    <2>3. /\ <<l>> \o <<f>> \in Seq(Lux!Commands) /\ Len(<<l>> \o <<f>>) = 2
          /\ (<<l>> \o <<f>>)[1] = l /\ (<<l>> \o <<f>>)[2] = f
      BY <2>2, Joined
    <2>4. Len(q) = 2 /\ q[1] = l /\ q[2] = f /\ q \in Seq(Lux!Commands)
      BY <2>1, <2>3, Zenon
    <2>5. QED BY <1>1, <2>4
  <1>6. QED BY <1>3, <1>4, <1>5 DEF q

LEMMA SettingsStep ==
  ASSUME LuxInv, UNCHANGED hardware,
         \/ \E night \in BOOLEAN : Lux!Manual(night)
         \/ \E usable \in BOOLEAN, ext \in ExternalIr : Lux!Custom(usable, ext)
         \/ Lux!Auto
  PROVE  LuxInv'
  <1>1. /\ poller'.night = poller.night /\ poller'.todo = poller.todo
        /\ poller' \in [pc : {"none", "sleep", "clear", "switch"}, night : BOOLEAN, cross : Nat,
                        todo : Seq(Lux!Commands)]
        /\ poller'.pc # "none" /\ (poller.pc # "none" => poller'.pc = poller.pc)
        /\ (poller.pc = "none" => poller'.pc = "sleep")
    BY DEF LuxInv, LuxTypes, Lux!Manual, Lux!Custom, Lux!Auto, Lux!SetIcrLuxMode
  <1>2. \A part : (Due(part))' = Due(part)
    BY <1>1 DEF Due
  <1>3. ASSUME NEW enabled \in BOOLEAN, NEW usable \in BOOLEAN, NEW ext \in BOOLEAN,
               Lux!SetIcrLuxMode(enabled, usable, ext)
        PROVE  /\ mode' \in [enabled : BOOLEAN, usable : BOOLEAN, ext : BOOLEAN, sync : BOOLEAN]
               /\ mode'.enabled = enabled /\ mode'.ext = ext
               /\ (mode.sync \/ (enabled /\ ~mode.enabled)) => mode'.sync
    BY <1>3 DEF LuxInv, LuxTypes, Lux!SetIcrLuxMode
  <1>4. CASE Lux!Auto \/ \E night \in BOOLEAN : Lux!Manual(night)
    <2>1. Lux!SetIcrLuxMode(FALSE, FALSE, FALSE) /\ mixed' = mixed
      BY <1>4 DEF Lux!Auto, Lux!Manual
    <2>2. /\ mode' \in [enabled : BOOLEAN, usable : BOOLEAN, ext : BOOLEAN, sync : BOOLEAN]
          /\ ~mode'.enabled /\ ~mode'.ext /\ (mode.sync => mode'.sync)
      BY <1>3, <2>1
    <2>3. handler' \in Seq(Lux!Commands)
      <3>1. CASE Lux!Auto
        BY <3>1 DEF LuxInv, LuxTypes, Lux!Auto
      <3>2. ASSUME NEW night \in BOOLEAN, Lux!Manual(night) PROVE handler' \in Seq(Lux!Commands)
        <4>1. handler' = Lux!Switch(night, FALSE)
          BY <3>2 DEF Lux!Manual
        <4>2. QED BY <4>1, SwitchesBoth
      <3>3. QED BY <1>4, <3>1, <3>2
    <2>4. QED BY <1>1, <1>2, <2>1, <2>2, <2>3 DEF LuxInv, LuxTypes
  <1>5. ASSUME NEW usable \in BOOLEAN, NEW ext \in ExternalIr, Lux!Custom(usable, ext)
        PROVE  LuxInv'
    <2>1. /\ ext \in BOOLEAN /\ Lux!SetIcrLuxMode(TRUE, usable, ext) /\ asked' = "custom"
          /\ handler' = <<>> /\ mixed' = (mixed \/ ext)
      BY <1>5 DEF Lux!Custom, Lux!Message
    <2>2. /\ mode' \in [enabled : BOOLEAN, usable : BOOLEAN, ext : BOOLEAN, sync : BOOLEAN]
          /\ mode'.ext = ext /\ (mode.sync \/ ~mode.enabled => mode'.sync)
      BY <1>3, <2>1
    <2>3. mixed' \in BOOLEAN /\ (mixed \/ ext => mixed')
      BY <2>1 DEF LuxInv, LuxTypes
    <2>4. ~mode'.sync => mode.enabled /\ ~mode.sync /\ poller'.pc = poller.pc
      BY <1>1, <2>2 DEF LuxInv
    <2>5. ~mode'.sync => (Heading("filter"))' /\ (mixed' \/ (Heading("led"))')
      BY <1>1, <1>2, <2>3, <2>4 DEF LuxInv, Heading
    <2>6. poller'.pc = "clear" => mode'.sync /\ (Due("filter"))' /\ (mixed' \/ (Due("led"))')
      BY <1>1, <1>2, <2>2, <2>3 DEF LuxInv
    <2>7. \A i \in 1..Len(poller'.todo) : poller'.todo[i].night = poller'.night
      BY <1>1 DEF LuxInv
    <2>8. LuxTypes'
      <3>1. handler' \in Seq(Lux!Commands)
        BY <2>1
      <3>2. QED BY <1>1, <2>2, <2>3, <3>1 DEF LuxInv, LuxTypes
    <2>9. QED BY <1>1, <2>1, <2>2, <2>3, <2>5, <2>6, <2>7, <2>8 DEF LuxInv
  <1>6. QED BY <1>4, <1>5

LEMMA ReadsStep ==
  ASSUME LuxInv, NEW night \in BOOLEAN, Lux!PollReads(night)
  PROVE  LuxInv'
  <1> DEFINE todo == Lux!Switch(night, mode.ext)
             cross == IF night # poller.night THEN poller.cross + 1 ELSE 0
  <1>1. mode.ext \in BOOLEAN /\ cross \in Nat
    BY DEF LuxInv, LuxTypes
  <1>2. /\ todo \in Seq(Lux!Commands)
        /\ \A i \in 1..Len(todo) : todo[i].night = night
        /\ \E i \in 1..Len(todo) : todo[i].part = "filter"
        /\ mode.ext \/ \E i \in 1..Len(todo) : todo[i].part = "led"
    BY <1>1, SwitchesBoth
  <1>3. UNCHANGED <<mode, handler, hardware, asked, mixed>>
    BY DEF Lux!PollReads
  <1>4. CASE mode.sync \/ cross = Lux!Debounce
    <2>1. poller' = [pc |-> IF mode.sync THEN "clear" ELSE "switch", night |-> night,
                     cross |-> 0, todo |-> todo]
      BY <1>4 DEF Lux!PollReads
    <2> HIDE DEF todo
    <2>2. /\ poller' \in [pc : {"none", "sleep", "clear", "switch"}, night : BOOLEAN, cross : Nat,
                          todo : Seq(Lux!Commands)]
          /\ poller'.night = night /\ poller'.todo = todo
          /\ poller'.pc = IF mode.sync THEN "clear" ELSE "switch"
      BY <1>2, <2>1
    <2>3. (Due("filter"))' /\ (mixed \/ (Due("led"))')
      BY <1>2, <2>2 DEF Due, LuxInv
    <2>4. LuxTypes'
      BY <1>3, <2>2 DEF LuxInv, LuxTypes
    <2>5. QED BY <1>2, <1>3, <2>2, <2>3, <2>4 DEF LuxInv, Heading
  <1>5. CASE ~(mode.sync \/ cross = Lux!Debounce)
    <2>1. poller' = [poller EXCEPT !.cross = cross]
      BY <1>5 DEF Lux!PollReads
    <2> HIDE DEF cross
    <2>2. /\ poller' \in [pc : {"none", "sleep", "clear", "switch"}, night : BOOLEAN, cross : Nat,
                          todo : Seq(Lux!Commands)]
          /\ poller'.night = poller.night /\ poller'.todo = poller.todo /\ poller'.pc = poller.pc
      BY <1>1, <2>1 DEF LuxInv, LuxTypes
    <2>3. QED BY <1>3, <2>2 DEF LuxInv, LuxTypes, Heading, Due
  <1>6. QED BY <1>4, <1>5

LEMMA PollerStep ==
  ASSUME LuxInv, Lux!PollSkips \/ Lux!PollClears
  PROVE  LuxInv'
  <1>1. UNCHANGED <<handler, hardware, asked, mixed>>
    BY DEF Lux!PollSkips, Lux!PollClears
  <1>2. /\ poller' \in [pc : {"none", "sleep", "clear", "switch"}, night : BOOLEAN, cross : Nat,
                        todo : Seq(Lux!Commands)]
        /\ poller'.night = poller.night /\ poller'.todo = poller.todo
    BY SMTT(20) DEF LuxInv, LuxTypes, Lux!PollSkips, Lux!PollClears
  <1>3. \A part : (Due(part))' = Due(part)
    BY <1>2 DEF Due
  <1>4. CASE Lux!PollSkips
    <2>1. poller'.pc = poller.pc /\ mode' = mode
      BY <1>4 DEF LuxInv, LuxTypes, Lux!PollSkips
    <2>2. QED BY <1>1, <1>2, <1>3, <2>1 DEF LuxInv, LuxTypes, Heading
  <1>5. CASE Lux!PollClears
    <2>1. /\ mode' \in [enabled : BOOLEAN, usable : BOOLEAN, ext : BOOLEAN, sync : BOOLEAN]
          /\ mode'.enabled = mode.enabled /\ mode'.ext = mode.ext
          /\ poller.pc = "clear" /\ poller'.pc = "switch"
      BY <1>5 DEF LuxInv, LuxTypes, Lux!PollClears
    <2>2. QED BY <1>1, <1>2, <1>3, <2>1 DEF LuxInv, LuxTypes, Heading
  <1>6. QED BY <1>4, <1>5

\* A command sets one part as the poller wants it and leaves the other.
LEMMA SwitchStep ==
  ASSUME LuxInv, Lux!PollSwitches
  PROVE  LuxInv'
  <1>1. UNCHANGED <<mode, handler, asked, mixed>> /\ poller.pc = "switch"
    BY DEF Lux!PollSwitches
  <1>2. CASE poller.todo = <<>>
    <2>1. poller' = [poller EXCEPT !.pc = "sleep"] /\ hardware' = hardware
      BY <1>2 DEF Lux!PollSwitches
    <2>2. /\ poller' \in [pc : {"none", "sleep", "clear", "switch"}, night : BOOLEAN, cross : Nat,
                          todo : Seq(Lux!Commands)]
          /\ poller'.night = poller.night /\ poller'.todo = poller.todo /\ poller'.pc = "sleep"
      BY <2>1 DEF LuxInv, LuxTypes
    <2>3. \A part : ~Due(part)
      BY <1>2 DEF Due
    <2>4. QED BY <1>1, <1>2, <2>1, <2>2, <2>3 DEF LuxInv, LuxTypes, Heading
  <1>3. CASE poller.todo # <<>>
    <2> DEFINE cmd == Head(poller.todo)
               rest == Tail(poller.todo)
    <2>1. hardware' = [hardware EXCEPT ![cmd.part] = cmd.night] /\ poller' = [poller EXCEPT !.todo = rest]
      BY <1>3 DEF Lux!PollSwitches, Lux!Run
    <2>2. poller.todo \in Seq(Lux!Commands)
      BY DEF LuxInv, LuxTypes
    <2>3. /\ cmd = poller.todo[1] /\ cmd \in Lux!Commands /\ cmd.night = poller.night
          /\ rest \in Seq(Lux!Commands) /\ Len(rest) = Len(poller.todo) - 1 /\ Len(rest) \in Nat
          /\ \A i \in 1..Len(rest) : rest[i] = poller.todo[i + 1]
      BY <1>3, <2>2 DEF LuxInv
    <2> HIDE DEF cmd, rest
    <2>4. /\ poller' \in [pc : {"none", "sleep", "clear", "switch"}, night : BOOLEAN, cross : Nat,
                          todo : Seq(Lux!Commands)]
          /\ poller'.night = poller.night /\ poller'.todo = rest /\ poller'.pc = "switch"
      BY <1>1, <2>1, <2>3 DEF LuxInv, LuxTypes
    <2>5. cmd.part \in {"filter", "led"} /\ cmd.night \in BOOLEAN
      BY <2>3 DEF Lux!Commands
    <2>6. /\ hardware' \in [{"filter", "led"} -> BOOLEAN]
          /\ \A part \in {"filter", "led"} :
                hardware'[part] = IF part = cmd.part THEN poller.night ELSE hardware[part]
      BY <2>1, <2>3, <2>5 DEF LuxInv, LuxTypes
    <2>7. ASSUME NEW part \in {"filter", "led"}, Heading(part)
          PROVE  (Heading(part))'
      <3>1. CASE part = cmd.part
        BY <2>4, <2>6, <3>1 DEF Heading
      <3>2. CASE part # cmd.part /\ Due(part)
        <4>1. PICK i \in 1..Len(poller.todo) : poller.todo[i].part = part
          BY <3>2 DEF Due
        <4>2. i # 1 /\ i - 1 \in 1..Len(rest) /\ rest[i - 1].part = part
          BY <2>2, <2>3, <3>2, <4>1
        <4>3. QED BY <2>4, <4>2 DEF Heading, Due
      <3>3. CASE part # cmd.part /\ ~Due(part)
        BY <2>4, <2>6, <2>7, <3>3 DEF Heading
      <3>4. QED BY <3>1, <3>2, <3>3
    <2>8. mode.enabled /\ ~mode.sync => (Heading("filter"))' /\ (mixed \/ (Heading("led"))')
      BY <2>7 DEF LuxInv
    <2>9. \A i \in 1..Len(rest) : rest[i].night = poller.night
      BY <2>2, <2>3 DEF LuxInv
    <2>10. LuxTypes'
      BY <1>1, <2>4, <2>6 DEF LuxInv, LuxTypes
    <2>11. QED BY <1>1, <2>4, <2>8, <2>9, <2>10 DEF LuxInv
  <1>4. QED BY <1>2, <1>3

LEMMA LuxStep ==
  ASSUME LuxInv, [Lux!Next]_luxVars
  PROVE  LuxInv'
  <1>1. CASE \/ \E night \in BOOLEAN : Lux!Manual(night)
             \/ \E usable \in BOOLEAN, ext \in ExternalIr : Lux!Custom(usable, ext)
             \/ Lux!Auto
    <2>1. UNCHANGED hardware
      BY <1>1 DEF Lux!Manual, Lux!Custom, Lux!Auto, Lux!Message
    <2>2. QED BY <1>1, <2>1, SettingsStep
  <1>2. CASE Lux!HandlerRuns
    <2>1. ~mode.enabled /\ UNCHANGED <<mode, poller, asked, mixed>>
      BY <1>2 DEF LuxInv, Lux!HandlerRuns
    <2>2. Head(handler) \in Lux!Commands /\ Tail(handler) \in Seq(Lux!Commands)
      BY <1>2 DEF LuxInv, LuxTypes, Lux!HandlerRuns
    <2>3. handler' \in Seq(Lux!Commands)
      BY <1>2, <2>2 DEF Lux!HandlerRuns
    <2>4. hardware' \in [{"filter", "led"} -> BOOLEAN]
      <3>1. Head(handler).part \in {"filter", "led"} /\ Head(handler).night \in BOOLEAN
        BY <2>2 DEF Lux!Commands
      <3>2. QED BY <1>2, <3>1 DEF LuxInv, LuxTypes, Lux!HandlerRuns, Lux!Run
    <2>5. QED BY <2>1, <2>3, <2>4 DEF LuxInv, LuxTypes, Due
  <1>3. ASSUME NEW night \in BOOLEAN, Lux!PollReads(night) PROVE LuxInv'
    BY <1>3, ReadsStep
  <1>4. CASE Lux!PollSkips \/ Lux!PollClears
    BY <1>4, PollerStep
  <1>5. CASE Lux!PollSwitches
    BY <1>5, SwitchStep
  <1>6. ASSUME NEW night \in BOOLEAN, Lux!NativeSwitches(night) PROVE LuxInv'
    <2>1. ~mode.enabled /\ UNCHANGED <<mode, handler, poller, asked, mixed>>
      BY <1>6 DEF LuxInv, Lux!NativeSwitches
    <2>2. hardware' \in [{"filter", "led"} -> BOOLEAN]
      BY <1>6 DEF Lux!NativeSwitches
    <2>3. QED BY <2>1, <2>2 DEF LuxInv, LuxTypes, Due
  <1>7. CASE UNCHANGED luxVars
    BY <1>7 DEF LuxInv, LuxTypes, Heading, Due, luxVars
  <1>8. QED BY <1>1, <1>2, <1>3, <1>4, <1>5, <1>6, <1>7 DEF Lux!Next

\* lux.go: while the lux mode is on and nothing is on its way, the hardware is where
\* the poller believes it is, for any settings, readings and order of the two
\* goroutines' steps, although the resync is marked done before it is carried out.
THEOREM LuxAppliedHolds == DeviceSpec => []LuxApplied
  <1>1. DeviceInit => LuxInv
    <2> SUFFICES ASSUME DeviceInit PROVE LuxInv
      OBVIOUS
    <2>1. /\ mode = [enabled |-> FALSE, usable |-> FALSE, ext |-> FALSE, sync |-> FALSE]
          /\ poller = [pc |-> "none", night |-> FALSE, cross |-> 0, todo |-> <<>>]
          /\ hardware \in [{"filter", "led"} -> BOOLEAN]
      BY PartInit DEF Lux!Init
    <2>2. mixed \in BOOLEAN /\ handler = <<>>
      BY PartInit DEF Lux!Init
    <2>3. QED BY <2>1, <2>2 DEF LuxInv, LuxTypes
  <1>2. LuxInv /\ [DeviceNext]_deviceVars => LuxInv'
    BY PartStep, LuxStep
  <1>3. LuxInv => LuxApplied
    BY DEF LuxInv, LuxTypes, Heading, LuxApplied, Lux!LuxApplied
  <1>4. QED BY <1>1, <1>2, <1>3, PTL DEF DeviceSpec

----------------------------------------------------------------------------
(* The time stamps of the tags. *)

LEMMA StampConstants ==
  /\ Window \in Nat /\ AudioSize \in Nat /\ OpusSize \in Nat /\ VideoSize \in Nat /\ VideoSize > 0
  /\ Late \in Nat /\ Dropout \in Nat /\ MaxStampTime \in Nat
  BY StampAssumption

Writes == push.at \in {"aac", "opus", "video"}

\* A picture that the ring reader has still to hand over.
Owed == IF "video" \in due THEN 1 ELSE 0

Anchors == [set : BOOLEAN, pts : Int, elapsed : Int]
Threads == [at : {"none", "start", "aac", "opus", "video"}, start : Int, anchor : Anchors,
            opusPrev : Int, opusPtsIndex : Int, lastAudioMs : Int, lastOpusMs : Int, stLastMs : Int]
Tags == [audio : Int, video : Int, track : {"none", "aac", "opus", "video"}, ahead : Int]

StampTypes ==
    /\ time \in Nat
    /\ audioQueue \in Seq(Int) /\ opusQueue \in Seq(Int) /\ videoQueue \in Seq(Int)
    /\ Len(videoQueue) <= VideoSize
    /\ push \in Threads /\ stamps \in Tags

\* How far the last picture is ahead is what the queue has less than it takes.
Behind == push.stLastMs - (time - push.start) + Len(videoQueue) + Owed <= VideoSize

\* The thread's last stamps are those of the tags it has written, and no
\* picture is ahead by more than a queue.
StampInv ==
    /\ StampTypes
    /\ push.at = "start" => push.lastAudioMs = 0 /\ push.stLastMs = -1
    /\ Writes =>
        /\ stamps.audio = push.lastAudioMs /\ stamps.video = push.stLastMs
        /\ push.start <= time
        /\ Behind
    /\ stamps.track = "video" => stamps.ahead <= VideoSize

\* A picture and an AAC packet are mapped to no later than now.
LEMMA AnchoredNotAhead ==
  ASSUME time \in Int, push.start \in Int, NEW a \in Anchors, NEW pts \in Int
  PROVE  /\ Stamps!Anchored(a, pts) \in Anchors
         /\ Stamps!Mapped(Stamps!Anchored(a, pts), pts) \in Int
         /\ Stamps!Mapped(Stamps!Anchored(a, pts), pts) <= time - push.start
  <1> DEFINE e == a.elapsed + pts - a.pts
             now_ == time - push.start
  <1>1. e \in Int /\ now_ \in Int /\ a.set \in BOOLEAN /\ a.pts \in Int /\ a.elapsed \in Int
    BY DEF Anchors
  <1> USE StampConstants
  <1>2. CASE ~a.set \/ e < now_ - Late
    <2>1. Stamps!Anchored(a, pts) = [set |-> TRUE, pts |-> pts, elapsed |-> now_]
      BY <1>2 DEF Stamps!Anchored, Stamps!NowElapsed
    <2>2. QED BY <1>1, <2>1 DEF Anchors, Stamps!Mapped
  <1>3. CASE ~(~a.set \/ e < now_ - Late) /\ e > now_
    <2>1. Stamps!Anchored(a, pts) = [a EXCEPT !.elapsed = a.elapsed - (e - now_)]
      BY <1>3 DEF Stamps!Anchored, Stamps!NowElapsed, Anchors
    <2>2. QED BY <1>1, <2>1 DEF Anchors, Stamps!Mapped
  <1>4. CASE ~(~a.set \/ e < now_ - Late) /\ ~(e > now_)
    <2>1. Stamps!Anchored(a, pts) = a
      BY <1>4 DEF Stamps!Anchored, Stamps!NowElapsed
    <2>2. QED BY <1>1, <1>4, <2>1 DEF Stamps!Mapped
  <1>5. QED BY <1>2, <1>3, <1>4

LEMMA FreshThread ==
  /\ Stamps!NoThread \in Threads /\ Stamps!NoThread.at = "none"
  /\ Stamps!NoThread.lastAudioMs = 0 /\ Stamps!NoThread.stLastMs = -1
  <1> DEFINE a == [set |-> FALSE, pts |-> 0, elapsed |-> 0]
  <1>1. a \in Anchors
    BY DEF Anchors
  <1>2. Stamps!Never \in Int
    BY StampConstants DEF Stamps!Never
  <1>3. Stamps!NoThread =
            [at |-> "none", start |-> 0, anchor |-> a, opusPrev |-> Stamps!Never, opusPtsIndex |-> -1,
             lastAudioMs |-> 0, lastOpusMs |-> 0, stLastMs |-> -1]
    BY DEF Stamps!NoThread
  <1> HIDE DEF a
  <1>4. QED BY <1>1, <1>2, <1>3 DEF Threads

(* A thread's record with some of its fields set. *)

LEMMA ThreadStarts ==
  ASSUME NEW p \in Threads, NEW i \in Int
  PROVE  LET q == [p EXCEPT !.at = "aac", !.start = i]
         IN  /\ q \in Threads /\ q.at = "aac" /\ q.start = i
             /\ q.stLastMs = p.stLastMs /\ q.lastAudioMs = p.lastAudioMs
  BY DEF Threads

LEMMA ThreadGoesOn ==
  ASSUME NEW p \in Threads, NEW at \in {"aac", "opus", "video"}
  PROVE  LET q == [p EXCEPT !.at = at]
         IN  /\ q \in Threads /\ q.at = at /\ q.start = p.start
             /\ q.stLastMs = p.stLastMs /\ q.lastAudioMs = p.lastAudioMs
  BY DEF Threads

LEMMA ThreadFields ==
  ASSUME StampInv
  PROVE  /\ push.at \in {"none", "start", "aac", "opus", "video"} /\ push.start \in Int
         /\ push.anchor \in Anchors /\ push.opusPrev \in Int /\ push.opusPtsIndex \in Int
         /\ push.lastAudioMs \in Int /\ push.lastOpusMs \in Int /\ push.stLastMs \in Int
         /\ stamps.audio \in Int /\ stamps.video \in Int /\ time \in Nat
         /\ Len(videoQueue) \in Nat /\ Owed \in {0, 1}
  BY DEF StampInv, StampTypes, Threads, Tags, Owed

LEMMA NewestInts ==
  ASSUME NEW q \in Seq(Int), NEW n \in Nat
  PROVE  Stamps!Newest(q, n) \in Seq(Int)
  BY DEF Stamps!Newest

\* What the producers do changes neither the thread nor the tags.
LEMMA ProducersStep ==
  ASSUME StampInv, UNCHANGED <<push, stamps>>,
         Stamps!Tick \/ Stamps!EnqueueAudio \/ Stamps!EnqueueOpus \/ Stamps!EnqueueVideo
  PROVE  StampInv'
  <1>1. push \in Threads /\ push.start \in Int /\ push.stLastMs \in Int /\ time \in Nat
        /\ Len(videoQueue) \in Nat
    BY DEF StampInv, StampTypes, Threads
  <1> USE StampConstants
  <1>2. CASE Stamps!Tick
    <2>1. /\ time' = time + 1 /\ due = {} /\ UNCHANGED <<audioQueue, opusQueue, videoQueue>>
      BY <1>2 DEF Stamps!Tick, Stamps!queueVars
    <2>2. Owed = 0 /\ Owed' \in {0, 1}
      BY <2>1 DEF Owed
    <2>3. Writes => push.start <= time' /\ Behind'
      <3> DEFINE lead == push.stLastMs - (time - push.start) + Len(videoQueue)
      <3>1. lead \in Int /\ push.stLastMs - ((time + 1) - push.start) + Len(videoQueue) = lead - 1
        BY <1>1, SMTT(20)
      <3>2. Writes => push.start <= time /\ lead <= VideoSize
        BY <2>2, <3>1 DEF StampInv, Behind
      <3>3. push' = push /\ videoQueue' = videoQueue /\ time' = time + 1
        BY <2>1
      <3>4. Behind' = (lead - 1 + Owed' <= VideoSize)
        BY <3>1, <3>3 DEF Behind
      <3> HIDE DEF lead
      <3>5. Writes => push.start <= time + 1 /\ lead - 1 + Owed' <= VideoSize
        <4>1. Owed' = 0 \/ Owed' = 1
          BY <2>2
        <4>2. lead <= VideoSize => lead - 1 + 0 <= VideoSize /\ lead - 1 + 1 <= VideoSize
          BY <1>1, <3>1
        <4>3. push.start <= time => push.start <= time + 1
          BY <1>1
        <4>4. QED BY <3>2, <4>1, <4>2, <4>3
      <3>6. QED BY <3>3, <3>4, <3>5
    <2>4. StampTypes'
      BY <1>1, <2>1 DEF StampInv, StampTypes
    <2>5. QED BY <2>3, <2>4 DEF StampInv, Writes
  <1>3. CASE Stamps!EnqueueAudio
    <2>1. time' = time /\ Owed' = Owed /\ UNCHANGED <<opusQueue, videoQueue>>
      BY <1>3 DEF Stamps!EnqueueAudio, Owed
    <2>2. Append(audioQueue, time - Window) \in Seq(Int)
      BY <1>1, StampConstants DEF StampInv, StampTypes
    <2>3. audioQueue' \in Seq(Int)
      BY <1>3, <2>2, NewestInts, StampConstants DEF StampInv, StampTypes, Stamps!EnqueueAudio
    <2>4. QED BY <2>1, <2>3 DEF StampInv, StampTypes, Writes, Behind
  <1>4. CASE Stamps!EnqueueOpus
    <2>1. time' = time /\ Owed' = Owed /\ UNCHANGED <<audioQueue, videoQueue>>
      BY <1>4 DEF Stamps!EnqueueOpus, Owed
    <2>2. [i \in 1..Window |-> time - Window + i - 1] \in Seq(Int)
      BY <1>1, StampConstants
    <2>3. opusQueue \o [i \in 1..Window |-> time - Window + i - 1] \in Seq(Int)
      BY <2>2 DEF StampInv, StampTypes
    <2>4. opusQueue' \in Seq(Int)
      BY <1>4, <2>3, NewestInts, StampConstants DEF StampInv, StampTypes, Stamps!EnqueueOpus
    <2>5. QED BY <2>1, <2>4 DEF StampInv, StampTypes, Writes, Behind
  <1>5. CASE Stamps!EnqueueVideo
    <2>1. /\ time' = time /\ Owed = 1 /\ Owed' = 0 /\ UNCHANGED <<audioQueue, opusQueue>>
      BY <1>5 DEF Stamps!EnqueueVideo, Owed
    <2>2. videoQueue' \in Seq(Int) /\ Len(videoQueue') <= VideoSize
          /\ Len(videoQueue') <= Len(videoQueue) + 1
      <3>1. CASE Len(videoQueue) >= VideoSize
        BY <1>1, <1>5, <3>1 DEF StampInv, StampTypes, Stamps!EnqueueVideo
      <3>2. CASE ~(Len(videoQueue) >= VideoSize)
        BY <1>1, <1>5, <3>2 DEF StampInv, StampTypes, Stamps!EnqueueVideo
      <3>3. QED BY <3>1, <3>2
    <2>3. Len(videoQueue') \in Nat
      BY <2>2
    <2>4. Writes => push.start <= time' /\ Behind'
      <3> DEFINE lead == push.stLastMs - (time - push.start)
      <3>1. lead \in Int
        BY <1>1
      <3>2. Writes => push.start <= time /\ lead + Len(videoQueue) + 1 <= VideoSize
        BY <2>1 DEF StampInv, Behind
      <3>3. push' = push /\ time' = time
        BY <2>1
      <3>4. Behind' = (lead + Len(videoQueue') + 0 <= VideoSize)
        BY <2>1, <3>3 DEF Behind
      <3> HIDE DEF lead
      <3>5. Writes => lead + Len(videoQueue') + 0 <= VideoSize
        BY <1>1, <2>2, <2>3, <3>1, <3>2
      <3>6. QED BY <3>2, <3>3, <3>4, <3>5
    <2>5. StampTypes'
      BY <2>1, <2>2 DEF StampInv, StampTypes
    <2>6. QED BY <2>4, <2>5 DEF StampInv, Writes
  <1>6. QED BY <1>2, <1>3, <1>4, <1>5

\* A connection begins, ends, blocks.
LEMMA ConnectionStep ==
  ASSUME StampInv, UNCHANGED <<time, due, audioQueue, opusQueue, videoQueue>>,
         Stamps!Connect \/ Stamps!Start \/ Stamps!Lose \/ Stamps!Block \/ Stamps!Unblock
  PROVE  StampInv'
  <1>1. Owed' = Owed
    BY DEF Owed
  <1>2. CASE Stamps!Connect
    <2>1. push' = [Stamps!NoThread EXCEPT !.at = "start"] /\ stamps' = stamps
      BY <1>2 DEF Stamps!Connect
    <2>2. /\ push' \in Threads /\ push'.at = "start" /\ push'.lastAudioMs = 0 /\ push'.stLastMs = -1
      BY <2>1, FreshThread DEF Threads
    <2>3. QED BY <2>1, <2>2 DEF StampInv, StampTypes, Writes
  <1>3. CASE Stamps!Lose
    <2>1. push' = Stamps!NoThread /\ stamps' = stamps
      BY <1>3 DEF Stamps!Lose
    <2>2. push' \in Threads /\ push'.at = "none"
      BY <2>1, FreshThread
    <2>3. QED BY <2>1, <2>2 DEF StampInv, StampTypes, Writes
  <1>4. CASE Stamps!Block \/ Stamps!Unblock
    <2>1. push' = push /\ stamps' = stamps
      BY <1>4 DEF Stamps!Block, Stamps!Unblock
    <2>2. Behind' = Behind /\ Writes' = Writes
      BY <1>1, <2>1 DEF Behind, Writes
    <2>3. QED BY <2>1, <2>2 DEF StampInv, StampTypes
  <1>5. CASE Stamps!Start
    <2>1. /\ push' = [push EXCEPT !.at = "aac", !.start = time] /\ stamps' = Stamps!NoTags
          /\ push.lastAudioMs = 0 /\ push.stLastMs = -1
      BY <1>5 DEF StampInv, Stamps!Start
    <2>2. /\ push' \in Threads /\ push'.at = "aac" /\ push'.start = time /\ push'.stLastMs = -1
          /\ push'.lastAudioMs = 0
      <3>1. push \in Threads /\ time \in Int
        BY ThreadFields DEF StampInv, StampTypes
      <3>2. QED BY <2>1, <3>1, ThreadStarts
    <2>3. /\ stamps' \in Tags /\ stamps'.audio = 0 /\ stamps'.video = -1 /\ stamps'.track = "none"
      BY <2>1 DEF Stamps!NoTags, Tags
    <2>4. Behind'
      <3>1. Len(videoQueue) <= VideoSize
        BY DEF StampInv, StampTypes
      <3>2. -1 - (time - time) + Len(videoQueue) + Owed <= VideoSize
        BY <3>1, ThreadFields, StampConstants
      <3>3. QED BY <1>1, <2>2, <3>2 DEF Behind
    <2>5. push'.start <= time'
      BY <2>2, ThreadFields
    <2>6. QED BY <2>2, <2>4, <2>5, <2>3 DEF StampInv, StampTypes
  <1>6. QED BY <1>2, <1>3, <1>4, <1>5

\* A thread that has nothing to take from this queue goes on to the next.
LEMMA NothingQueued ==
  ASSUME StampInv, Writes, NEW at \in {"aac", "opus", "video"}, push' = [push EXCEPT !.at = at],
         UNCHANGED <<time, due, audioQueue, opusQueue, videoQueue, stamps>>
  PROVE  StampInv' /\ Writes'
  <1>1. push \in Threads
    BY DEF StampInv, StampTypes
  <1>2. /\ push' \in Threads /\ push'.at = at /\ push'.start = push.start
        /\ push'.stLastMs = push.stLastMs /\ push'.lastAudioMs = push.lastAudioMs
    BY <1>1, ThreadGoesOn
  <1>3. Behind' = Behind /\ Writes'
    BY <1>2 DEF Behind, Owed, Writes
  <1>4. QED BY <1>2, <1>3 DEF StampInv, StampTypes

\* A tag of one of the audio tracks is written.
LEMMA AudioTag ==
  ASSUME StampInv, Writes, NEW track \in {"aac", "opus"}, NEW ms \in Int, Stamps!Tagged(track, ms),
         push' \in Threads, push'.at = push.at, push'.start = push.start,
         push'.stLastMs = push.stLastMs, push'.lastAudioMs = ms,
         audioQueue' \in Seq(Int), opusQueue' \in Seq(Int), UNCHANGED <<time, due, videoQueue>>
  PROVE  StampInv' /\ Writes'
  <1>1. stamps' = [audio |-> ms, video |-> stamps.video, track |-> track,
                   ahead |-> ms - (time - push.start)]
    BY DEF Stamps!Tagged, Stamps!NowElapsed
  <1>2. stamps' \in Tags /\ stamps'.audio = ms /\ stamps'.video = stamps.video /\ stamps'.track # "video"
    <2> DEFINE lead == ms - (time - push.start)
    <2>1. lead \in Int /\ stamps.video \in Int
      BY ThreadFields
    <2>2. stamps' = [audio |-> ms, video |-> stamps.video, track |-> track, ahead |-> lead]
      BY <1>1
    <2> HIDE DEF lead
    <2>3. stamps' \in Tags
      BY <2>1, <2>2 DEF Tags
    <2>4. QED BY <2>2, <2>3
  <1>3. Behind' = Behind /\ Writes'
    BY DEF Behind, Owed, Writes
  <1>4. QED BY <1>2, <1>3 DEF StampInv, StampTypes, Writes

LEMMA PushAacStep ==
  ASSUME StampInv, Stamps!PushAac
  PROVE  StampInv' /\ Writes' /\ (Writes /\ stamps.audio <= stamps'.audio /\ stamps.video = stamps'.video)
  <1>1. Writes /\ UNCHANGED <<time, due, opusQueue, videoQueue>>
    BY DEF Stamps!PushAac, Writes
  <1>2. CASE audioQueue = <<>>
    BY <1>1, <1>2, NothingQueued, ThreadFields, SMTT(20) DEF Stamps!PushAac
  <1>3. CASE audioQueue # <<>>
    <2> DEFINE pts == Head(audioQueue)
               a == Stamps!Anchored(push.anchor, pts)
               ms == Stamps!MonotonicMs(push.lastAudioMs, Stamps!Ms(Stamps!Mapped(a, pts)))
    <2>1. pts \in Int /\ Tail(audioQueue) \in Seq(Int)
      BY <1>3 DEF StampInv, StampTypes
    <2>2. a \in Anchors /\ Stamps!Mapped(a, pts) \in Int
      <3>1. time \in Int /\ push.start \in Int /\ push.anchor \in Anchors
        BY ThreadFields
      <3> HIDE DEF pts
      <3>2. QED BY <2>1, <3>1, AnchoredNotAhead
    <2>3. ms \in Int /\ push.lastAudioMs <= ms
      BY <2>2, ThreadFields DEF Stamps!MonotonicMs, Stamps!Ms
    <2>4. /\ audioQueue' = Tail(audioQueue) /\ push' = [push EXCEPT !.anchor = a, !.lastAudioMs = ms]
          /\ Stamps!Tagged("aac", ms)
      BY <1>3 DEF Stamps!PushAac
    <2> HIDE DEF a, ms
    <2>5. /\ push' \in Threads /\ push'.at = push.at /\ push'.start = push.start
          /\ push'.stLastMs = push.stLastMs /\ push'.lastAudioMs = ms
      <3>1. push \in Threads
        BY DEF StampInv, StampTypes
      <3>2. a \in Anchors /\ ms \in Int /\ push' = [push EXCEPT !.anchor = a, !.lastAudioMs = ms]
        BY <2>2, <2>3, <2>4
      <3>3. QED BY <3>1, <3>2 DEF Threads
    <2>6. audioQueue' \in Seq(Int) /\ opusQueue' \in Seq(Int)
      BY <1>1, <2>1, <2>4 DEF StampInv, StampTypes
    <2>7. StampInv' /\ Writes'
      BY <1>1, <2>3, <2>4, <2>5, <2>6, AudioTag
    <2>8. stamps'.audio = ms /\ stamps'.video = stamps.video /\ stamps.audio = push.lastAudioMs
      BY <1>1, <2>4 DEF Stamps!Tagged, StampInv
    <2>9. QED BY <1>1, <2>3, <2>7, <2>8
  <1>4. QED BY <1>2, <1>3

LEMMA PushOpusStep ==
  ASSUME StampInv, Stamps!PushOpus
  PROVE  StampInv' /\ Writes' /\ (Writes /\ stamps.audio <= stamps'.audio /\ stamps.video = stamps'.video)
  <1>1. Writes /\ UNCHANGED <<time, due, audioQueue, videoQueue>>
    BY DEF Stamps!PushOpus, Writes
  <1>2. CASE opusQueue = <<>>
    BY <1>1, <1>2, NothingQueued, ThreadFields, SMTT(20) DEF Stamps!PushOpus
  <1>3. CASE opusQueue # <<>>
    <2> DEFINE pts == Head(opusQueue)
               elapsed == IF push.anchor.set
                          THEN Stamps!Larger(Stamps!Mapped(push.anchor, pts), push.opusPrev)
                          ELSE Stamps!PtsIndex
               ms == Stamps!OpusMs(elapsed)
               prev == IF push.anchor.set THEN elapsed ELSE push.opusPrev
               index == IF push.anchor.set THEN push.opusPtsIndex ELSE Stamps!PtsIndex + 1
    <2>1. pts \in Int /\ Tail(opusQueue) \in Seq(Int)
      BY <1>3 DEF StampInv, StampTypes
    <2>2. Stamps!PtsIndex \in Int
      BY ThreadFields, StampConstants DEF Stamps!PtsIndex, Stamps!NowElapsed
    <2>3. Stamps!Mapped(push.anchor, pts) \in Int
      BY <2>1, ThreadFields, SMTT(20) DEF Stamps!Mapped, Anchors
    <2>4. elapsed \in Int
      BY <2>2, <2>3, ThreadFields DEF Stamps!Larger
    <2> HIDE DEF elapsed
    <2>5. ms \in Int /\ push.lastAudioMs <= ms
      BY <2>4, ThreadFields DEF Stamps!OpusMs, Stamps!Larger, Stamps!Ms
    <2>6. prev \in Int /\ index \in Int
      BY <2>2, <2>4, ThreadFields
    <2>7. /\ opusQueue' = Tail(opusQueue) /\ Stamps!Tagged("opus", ms)
          /\ push' = [push EXCEPT !.opusPrev = prev, !.opusPtsIndex = index,
                                  !.lastOpusMs = ms, !.lastAudioMs = ms]
      BY <1>3 DEF Stamps!PushOpus, Stamps!OpusTag, elapsed
    <2> HIDE DEF ms, prev, index
    <2>8. /\ push' \in Threads /\ push'.at = push.at /\ push'.start = push.start
          /\ push'.stLastMs = push.stLastMs /\ push'.lastAudioMs = ms
      <3>1. push \in Threads
        BY DEF StampInv, StampTypes
      <3>2. /\ ms \in Int /\ prev \in Int /\ index \in Int
            /\ push' = [push EXCEPT !.opusPrev = prev, !.opusPtsIndex = index,
                                    !.lastOpusMs = ms, !.lastAudioMs = ms]
        BY <2>5, <2>6, <2>7
      <3>3. QED BY <3>1, <3>2 DEF Threads
    <2>9. audioQueue' \in Seq(Int) /\ opusQueue' \in Seq(Int)
      BY <1>1, <2>1, <2>7 DEF StampInv, StampTypes
    <2>10. StampInv' /\ Writes'
      BY <1>1, <2>5, <2>7, <2>8, <2>9, AudioTag
    <2>11. stamps'.audio = ms /\ stamps'.video = stamps.video /\ stamps.audio = push.lastAudioMs
      BY <1>1, <2>7 DEF Stamps!Tagged, StampInv
    <2>12. QED BY <1>1, <2>5, <2>10, <2>11
  <1>4. QED BY <1>2, <1>3

LEMMA PushVideoStep ==
  ASSUME StampInv, Stamps!PushVideo
  PROVE  /\ StampInv' /\ Writes' /\ Writes
         /\ stamps.audio = stamps'.audio
         /\ videoQueue' # videoQueue => stamps.video < stamps'.video
  <1>1. Writes /\ UNCHANGED <<time, due, audioQueue, opusQueue>>
    BY DEF Stamps!PushVideo, Writes
  <1>2. CASE videoQueue = <<>>
    BY <1>1, <1>2, NothingQueued, ThreadFields DEF Stamps!PushVideo
  <1>3. CASE videoQueue # <<>>
    <2> DEFINE pts == Head(videoQueue)
               a == Stamps!Anchored(push.anchor, pts)
               ms == Stamps!Larger(Stamps!Ms(Stamps!Mapped(a, pts)), push.stLastMs + 1)
               elapsed == time - push.start
    <2>1. pts \in Int /\ Tail(videoQueue) \in Seq(Int) /\ Len(Tail(videoQueue)) = Len(videoQueue) - 1
      BY <1>3 DEF StampInv, StampTypes
    <2>2. /\ a \in Anchors /\ Stamps!Mapped(a, pts) \in Int /\ Stamps!Mapped(a, pts) <= elapsed
      <3>1. time \in Int /\ push.start \in Int /\ push.anchor \in Anchors
        BY ThreadFields
      <3> HIDE DEF pts
      <3>2. QED BY <2>1, <3>1, AnchoredNotAhead
    <2>3. elapsed \in Int /\ elapsed >= 0
      BY <1>1, ThreadFields DEF StampInv
    <2>4. /\ ms \in Int /\ push.stLastMs < ms /\ (ms <= elapsed \/ ms = push.stLastMs + 1)
      BY <2>2, <2>3, ThreadFields, SMTT(30) DEF Stamps!Larger, Stamps!Ms
    <2>5. /\ videoQueue' = Tail(videoQueue) /\ Stamps!Tagged("video", ms)
          /\ push' = [push EXCEPT !.at = "aac", !.anchor = a, !.stLastMs = ms]
      BY <1>3 DEF Stamps!PushVideo
    <2> HIDE DEF pts, a, ms
    <2>6. /\ push' \in Threads /\ push'.at = "aac" /\ push'.start = push.start
          /\ push'.stLastMs = ms /\ push'.lastAudioMs = push.lastAudioMs
      <3>1. push \in Threads
        BY DEF StampInv, StampTypes
      <3>2. QED BY <2>2, <2>4, <2>5, <3>1 DEF Threads
    <2>7. ms - elapsed + Len(videoQueue') + Owed <= VideoSize
      <3>1. push.stLastMs - elapsed + Len(videoQueue) + Owed <= VideoSize
        BY <1>1 DEF StampInv, Behind
      <3>2. Len(videoQueue) <= VideoSize /\ Len(videoQueue') = Len(videoQueue) - 1 /\ Owed <= 1
        BY <2>1, <2>5, ThreadFields DEF StampInv, StampTypes
      <3> HIDE DEF elapsed
      <3>3. Owed \in Int /\ Len(videoQueue) \in Int /\ push.stLastMs \in Int
        BY ThreadFields
      <3>4. CASE ms <= elapsed
        BY <2>3, <2>4, <3>2, <3>3, <3>4, StampConstants
      <3>5. CASE ms = push.stLastMs + 1
        BY <2>3, <3>1, <3>2, <3>3, <3>5, StampConstants
      <3>6. QED BY <2>4, <3>4, <3>5
    <2>8. Behind' /\ push'.start <= time'
      <3>1. Owed' = Owed /\ time' = time
        BY <1>1 DEF Owed
      <3>2. push.start <= time
        BY <1>1 DEF StampInv
      <3>3. QED BY <2>6, <2>7, <3>1, <3>2 DEF Behind
    <2>9. stamps' = [audio |-> stamps.audio, video |-> ms, track |-> "video", ahead |-> ms - elapsed]
      BY <2>5 DEF Stamps!Tagged, Stamps!NowElapsed
    <2>10. /\ stamps' \in Tags /\ stamps'.audio = stamps.audio /\ stamps'.video = ms
           /\ stamps'.ahead = ms - elapsed
      <3> HIDE DEF elapsed
      <3>1. QED BY <2>3, <2>4, <2>9, ThreadFields DEF Tags
    <2>11. stamps'.ahead <= VideoSize
      <3> HIDE DEF elapsed
      <3>1. Len(videoQueue') \in Nat /\ Owed \in Nat
        <4>1. videoQueue' \in Seq(Int)
          BY <2>1, <2>5
        <4>2. QED BY <4>1, ThreadFields
      <3>2. QED BY <2>3, <2>4, <2>7, <2>10, <3>1, StampConstants
    <2>12. StampTypes'
      <3>1. Len(videoQueue') <= VideoSize
        <4>1. Len(videoQueue') = Len(videoQueue) - 1 /\ Len(videoQueue) <= VideoSize
          BY <2>1, <2>5 DEF StampInv, StampTypes
        <4>2. QED BY <4>1, ThreadFields, StampConstants
      <3>2. QED BY <1>1, <2>1, <2>5, <2>6, <2>10, <3>1 DEF StampInv, StampTypes
    <2>13. StampInv' /\ Writes'
      BY <1>1, <2>6, <2>8, <2>10, <2>11, <2>12 DEF StampInv, Writes
    <2>14. stamps.video = push.stLastMs
      BY <1>1 DEF StampInv
    <2>15. QED BY <1>1, <2>4, <2>10, <2>13, <2>14
  <1>4. QED BY <1>2, <1>3

\* What a step does to the last stamps, if the connection lasts.
StampsRise ==
    push.at \in {"aac", "opus", "video"} /\ linked' =>
        /\ stamps.audio <= stamps'.audio
        /\ videoQueue' # videoQueue /\ push' # push => stamps.video < stamps'.video

LEMMA StampStep ==
  ASSUME StampInv, [Stamps!Next]_stampVars
  PROVE  StampInv' /\ StampsRise
  <1> USE ThreadFields
  <1>1. CASE Stamps!Tick \/ Stamps!EnqueueAudio \/ Stamps!EnqueueOpus \/ Stamps!EnqueueVideo
    <2>1. UNCHANGED <<push, stamps>>
      BY <1>1 DEF Stamps!Tick, Stamps!EnqueueAudio, Stamps!EnqueueOpus, Stamps!EnqueueVideo
    <2>2. QED BY <1>1, <2>1, ProducersStep DEF StampsRise
  <1>2. CASE Stamps!Connect \/ Stamps!Start \/ Stamps!Lose \/ Stamps!Block \/ Stamps!Unblock
    <2>1. UNCHANGED <<time, due, audioQueue, opusQueue, videoQueue>>
      BY <1>2 DEF Stamps!Connect, Stamps!Start, Stamps!Lose, Stamps!Block, Stamps!Unblock,
                  Stamps!queueVars
    <2>2. Stamps!Start => push.at = "start"
      BY DEF Stamps!Start
    <2>3. Stamps!Lose => ~linked'
      BY DEF Stamps!Lose
    <2>4. Stamps!Connect \/ Stamps!Block \/ Stamps!Unblock => stamps' = stamps
      BY DEF Stamps!Connect, Stamps!Block, Stamps!Unblock
    <2>5. StampInv'
      BY <1>2, <2>1, ConnectionStep
    <2>6. QED BY <1>2, <2>1, <2>2, <2>3, <2>4, <2>5 DEF StampsRise
  <1>3. CASE Stamps!PushAac
    <2>1. videoQueue' = videoQueue
      BY <1>3 DEF Stamps!PushAac
    <2>2. QED BY <1>3, <2>1, PushAacStep DEF StampsRise
  <1>4. CASE Stamps!PushOpus
    <2>1. videoQueue' = videoQueue
      BY <1>4 DEF Stamps!PushOpus
    <2>2. QED BY <1>4, <2>1, PushOpusStep DEF StampsRise
  <1>5. CASE Stamps!PushVideo
    BY <1>5, PushVideoStep DEF StampsRise
  <1>6. CASE UNCHANGED stampVars
    BY <1>6 DEF StampInv, StampTypes, StampsRise, Behind, Owed, Writes, stampVars
  <1>7. QED BY <1>1, <1>2, <1>3, <1>4, <1>5, <1>6 DEF Stamps!Next

LEMMA StampInitial == DeviceInit => StampInv
  <1> SUFFICES ASSUME DeviceInit PROVE StampInv
    OBVIOUS
  <1>1. /\ time = 2 * Window /\ audioQueue = <<>> /\ opusQueue = <<>> /\ videoQueue = <<>>
        /\ push = Stamps!NoThread /\ stamps = Stamps!NoTags
    BY PartInit DEF Stamps!Init
  <1>2. time \in Nat
    BY <1>1, StampConstants
  <1>3. push \in Threads /\ push.at = "none"
    BY <1>1, FreshThread
  <1>4. stamps \in Tags /\ stamps.track = "none"
    BY <1>1 DEF Tags, Stamps!NoTags
  <1>5. /\ audioQueue \in Seq(Int) /\ opusQueue \in Seq(Int) /\ videoQueue \in Seq(Int)
        /\ Len(videoQueue) <= VideoSize
    BY <1>1, StampConstants
  <1>6. QED BY <1>2, <1>3, <1>4, <1>5 DEF StampInv, StampTypes, Writes

\* FlvPush.cpp:760, 1017: the stamps of a connection's audio tags never step back and
\* each picture is later than the one before, for any sizes of the queues, any rate of
\* packets, any blocking, and any number of connections with what they leave queued.
THEOREM StampsOrderedHolds == DeviceSpec => StampsOrdered
  <1>1. StampInv /\ [DeviceNext]_deviceVars => StampInv'
    BY PartStep, StampStep
  <1>2. StampInv /\ [DeviceNext]_deviceVars =>
            [push.at \in {"aac", "opus", "video"} /\ linked' =>
                /\ stamps.audio <= stamps'.audio
                /\ videoQueue' # videoQueue /\ push' # push => stamps.video < stamps'.video]_stampVars
    BY PartStep, StampStep DEF StampsRise
  <1>3. QED BY <1>1, <1>2, StampInitial, PTL DEF DeviceSpec, StampsOrdered, Stamps!StampsOrdered, stampVars, Stamps!stampVars

\* The half of LeadBounded that needs no hypothesis: however long writes block and
\* whatever an earlier connection has left queued, a picture is stamped at most a full
\* queue after the time at which it is written (FlvPush.cpp:1019).
PictureLeadBounded == stamps.track = "video" => stamps.ahead <= VideoSize

THEOREM PictureLeadHolds == DeviceSpec => []PictureLeadBounded
  <1>1. StampInv /\ [DeviceNext]_deviceVars => StampInv'
    BY PartStep, StampStep
  <1>2. StampInv => PictureLeadBounded
    BY DEF StampInv, PictureLeadBounded
  <1>3. QED BY <1>1, <1>2, StampInitial, PTL DEF DeviceSpec

----------------------------------------------------------------------------
(* How far an audio tag is ahead of the time at which it is written. *)

\* Time in rounds of w steps.
LEMMA Division ==
  ASSUME NEW n \in Nat, NEW w \in Nat, w > 0
  PROVE  \E q \in Int, r \in 0..(w - 1) : n = w * q + r
  <1> DEFINE q == n \div w
  <1>1. q \in Int /\ w * q <= n /\ n < w * (q + 1)
    BY SMT
  <1> HIDE DEF q
  <1>2. w * q \in Int /\ w * (q + 1) = w * q + w
    BY <1>1
  <1>3. n - w * q \in 0..(w - 1) /\ n = w * q + (n - w * q)
    BY <1>1, <1>2
  <1>4. QED BY <1>1, <1>3

LEMMA RemainderIs ==
  ASSUME NEW n \in Int, NEW w \in Nat, w > 0, NEW q \in Int, NEW r \in 0..(w - 1), n = w * q + r
  PROVE  n % w = r
  BY SMT

LEMMA NextRemainder ==
  ASSUME NEW n \in Nat, NEW w \in Nat, w > 0
  PROVE  /\ n % w \in 0..(w - 1)
         /\ (n + 1) % w = 0 => n % w = w - 1
         /\ (n + 1) % w # 0 => (n + 1) % w = (n % w) + 1
  <1>1. PICK q \in Int, r \in 0..(w - 1) : n = w * q + r
    BY Division
  <1>2. n % w = r
    BY <1>1, RemainderIs
  <1>3. CASE r = w - 1
    <2>1. n + 1 = w * (q + 1) + 0 /\ q + 1 \in Int /\ 0 \in 0..(w - 1) /\ n + 1 \in Int
      BY <1>1, <1>3
    <2>2. (n + 1) % w = 0
      BY <2>1, RemainderIs
    <2>3. QED BY <1>2, <1>3, <2>2
  <1>4. CASE r # w - 1
    <2>1. n + 1 = w * q + (r + 1) /\ r + 1 \in 0..(w - 1) /\ n + 1 \in Int
      BY <1>1, <1>4
    <2>2. (n + 1) % w = r + 1
      BY <2>1, RemainderIs
    <2>3. QED BY <1>2, <2>1, <2>2
  <1>5. QED BY <1>3, <1>4

\* When the last AAC frame, its Opus packets and the last picture were handed over.
LastAudio == IF "aac" \in due THEN time - Window ELSE time - (time % Window)
LastOpus == IF "aac" \in due \/ "opus" \in due THEN time - Window ELSE time - (time % Window)
LastPicture == IF "video" \in due THEN time - Interval ELSE time - (time % Interval)

\* What is handed over comes on its grid, an AAC frame before its Opus packets.
DueInv ==
    /\ due \subseteq {"aac", "opus", "video"}
    /\ "aac" \in due \/ "opus" \in due => time % Window = 0
    /\ "video" \in due => time % Interval = 0
    /\ ~("aac" \in due /\ "opus" \in due)

LEMMA LastTimes ==
  ASSUME time \in Nat
  PROVE  /\ LastAudio \in Int /\ time - Window <= LastAudio /\ LastAudio <= time
         /\ LastOpus \in Int /\ time - Window <= LastOpus /\ LastOpus <= time
         /\ LastPicture \in Int /\ time - Interval <= LastPicture /\ LastPicture <= time
  <1>1. time % Window \in 0..(Window - 1) /\ time % Interval \in 0..(Interval - 1)
    BY StampAssumption, NextRemainder
  <1> DEFINE w == time % Window
             p == time % Interval
  <1>2. w \in 0..(Window - 1) /\ p \in 0..(Interval - 1) /\ Window \in Nat /\ Interval \in Nat
    BY <1>1, StampAssumption
  <1>3. /\ LastAudio = IF "aac" \in due THEN time - Window ELSE time - w
        /\ LastOpus = IF "aac" \in due \/ "opus" \in due THEN time - Window ELSE time - w
        /\ LastPicture = IF "video" \in due THEN time - Interval ELSE time - p
    BY Zenon DEF LastAudio, LastOpus, LastPicture
  <1> HIDE DEF w, p
  <1>4. QED BY <1>2, <1>3

\* Time passes when everything has been handed over.
LEMMA TickTimes ==
  ASSUME DueInv, time \in Nat, Stamps!Tick
  PROVE  DueInv' /\ LastAudio' = LastAudio /\ LastOpus' = LastOpus /\ LastPicture' = LastPicture
  <1>1. time' = time + 1 /\ due = {} /\ due' = Stamps!Ready(time + 1)
    BY DEF Stamps!Tick
  <1>2. /\ due' \subseteq {"aac", "video"}
        /\ "aac" \in due' <=> time' % Window = 0
        /\ "video" \in due' <=> time' % Interval = 0
    BY <1>1 DEF Stamps!Ready
  <1> DEFINE w == time % Window
             p == time % Interval
             v == time' % Window
             q == time' % Interval
  <1>3. /\ w \in 0..(Window - 1) /\ (v = 0 => w = Window - 1) /\ (v # 0 => v = w + 1)
        /\ p \in 0..(Interval - 1) /\ (q = 0 => p = Interval - 1) /\ (q # 0 => q = p + 1)
    <2>1. Window \in Nat /\ Window > 0 /\ Interval \in Nat /\ Interval > 0
      BY StampAssumption
    <2>2. QED BY <1>1, <2>1, NextRemainder
  <1>4. /\ LastAudio = time - w /\ LastOpus = time - w /\ LastPicture = time - p
    <2>1. "aac" \notin due /\ "opus" \notin due /\ "video" \notin due
      BY <1>1
    <2>2. QED BY <2>1, Zenon DEF LastAudio, LastOpus, LastPicture
  <1>5. /\ LastAudio' = IF "aac" \in due' THEN time' - Window ELSE time' - v
        /\ LastOpus' = IF "aac" \in due' \/ "opus" \in due' THEN time' - Window ELSE time' - v
        /\ LastPicture' = IF "video" \in due' THEN time' - Interval ELSE time' - q
    BY Zenon DEF LastAudio, LastOpus, LastPicture
  <1>6. DueInv'
    BY <1>1, <1>2 DEF DueInv
  <1>7. "opus" \notin due' /\ ("aac" \in due' <=> v = 0) /\ ("video" \in due' <=> q = 0)
    BY <1>2
  <1>8. Window \in Nat /\ Interval \in Nat
    BY StampAssumption
  <1> HIDE DEF w, p, v, q
  <1>9. QED BY <1>1, <1>3, <1>4, <1>5, <1>6, <1>7, <1>8

\* A frame, its packets or a picture are handed over on time.
LEMMA HandedTimes ==
  ASSUME DueInv, time \in Nat, time' = time
  PROVE  /\ Stamps!EnqueueAudio =>
                /\ DueInv' /\ LastOpus' = LastOpus /\ LastPicture' = LastPicture
                /\ LastAudio = time - Window /\ LastAudio' = time
         /\ Stamps!EnqueueOpus =>
                /\ DueInv' /\ LastAudio' = LastAudio /\ LastPicture' = LastPicture
                /\ LastOpus = time - Window /\ LastOpus' = time
         /\ Stamps!EnqueueVideo =>
                /\ DueInv' /\ LastAudio' = LastAudio /\ LastOpus' = LastOpus
                /\ LastPicture = time - Interval /\ LastPicture' = time
  <1> DEFINE w == time % Window
             p == time % Interval
  <1>1. w \in Int /\ p \in Int /\ Window \in Nat /\ Interval \in Nat
    <2>1. Window \in Nat /\ Window > 0 /\ Interval \in Nat /\ Interval > 0
      BY StampAssumption
    <2>2. w \in 0..(Window - 1) /\ p \in 0..(Interval - 1)
      BY <2>1, NextRemainder
    <2>3. QED BY <2>1, <2>2
  <1>2. /\ LastAudio = IF "aac" \in due THEN time - Window ELSE time - w
        /\ LastOpus = IF "aac" \in due \/ "opus" \in due THEN time - Window ELSE time - w
        /\ LastPicture = IF "video" \in due THEN time - Interval ELSE time - p
    BY Zenon DEF LastAudio, LastOpus, LastPicture
  <1>3. /\ LastAudio' = IF "aac" \in due' THEN time - Window ELSE time - w
        /\ LastOpus' = IF "aac" \in due' \/ "opus" \in due' THEN time - Window ELSE time - w
        /\ LastPicture' = IF "video" \in due' THEN time - Interval ELSE time - p
    BY Zenon DEF LastAudio, LastOpus, LastPicture
  <1>4. DueInv' <=> /\ due' \subseteq {"aac", "opus", "video"}
                    /\ "aac" \in due' \/ "opus" \in due' => w = 0
                    /\ "video" \in due' => p = 0
                    /\ ~("aac" \in due' /\ "opus" \in due')
    BY Zenon DEF DueInv
  <1>5. /\ due \subseteq {"aac", "opus", "video"}
        /\ "aac" \in due \/ "opus" \in due => w = 0
        /\ "video" \in due => p = 0
        /\ ~("aac" \in due /\ "opus" \in due)
    BY DEF DueInv
  <1> HIDE DEF w, p
  <1>6. ASSUME Stamps!EnqueueAudio
        PROVE  /\ DueInv' /\ LastOpus' = LastOpus /\ LastPicture' = LastPicture
               /\ LastAudio = time - Window /\ LastAudio' = time
    <2>1. "aac" \in due /\ due' = (due \ {"aac"}) \cup {"opus"}
      BY <1>6 DEF Stamps!EnqueueAudio
    <2>2. QED BY <1>1, <1>2, <1>3, <1>4, <1>5, <2>1
  <1>7. ASSUME Stamps!EnqueueOpus
        PROVE  /\ DueInv' /\ LastAudio' = LastAudio /\ LastPicture' = LastPicture
               /\ LastOpus = time - Window /\ LastOpus' = time
    <2>1. "opus" \in due /\ due' = due \ {"opus"}
      BY <1>7 DEF Stamps!EnqueueOpus
    <2>2. QED BY <1>1, <1>2, <1>3, <1>4, <1>5, <2>1
  <1>8. ASSUME Stamps!EnqueueVideo
        PROVE  /\ DueInv' /\ LastAudio' = LastAudio /\ LastOpus' = LastOpus
               /\ LastPicture = time - Interval /\ LastPicture' = time
    <2>1. "video" \in due /\ due' = due \ {"video"}
      BY <1>8 DEF Stamps!EnqueueVideo
    <2>2. QED BY <1>1, <1>2, <1>3, <1>4, <1>5, <2>1
  <1>9. QED BY <1>6, <1>7, <1>8

\* The hypotheses: one connection, which finds the queues empty; the Opus queue takes
\* what comes with an AAC frame; and pictures that fill their queue have all been
\* captured within the time that the Opus queue holds, or within the three seconds
\* beyond which captureElapsed anchors anew.
OneLink == MaxStampConns \in {0, 1}
QueuesYoung ==
    /\ Window <= OpusSize
    /\ VideoSize * Interval <= Late \/ VideoSize * Interval <= OpusSize + Window

Lead == OpusSize + Window
ShiftOf(a) == a.elapsed - a.pts + push.start

\* The queues of a connection hold the last that was handed over, without a gap.
AudioForm ==
    /\ audioQueue # <<>> => audioQueue[Len(audioQueue)] = LastAudio - Window
    /\ \A i \in 1..Len(audioQueue) : audioQueue[i] < time
OpusForm ==
    /\ Len(opusQueue) <= OpusSize
    /\ \A i \in 1..Len(opusQueue) : opusQueue[i] = LastOpus - Len(opusQueue) - 1 + i
PictureForm ==
    \A i \in 1..Len(videoQueue) :
        videoQueue[i] = LastPicture - 1 - (Len(videoQueue) - i) * Interval
\* No picture is older than the AAC frame that is to come.
AllFresh == \A i \in 1..Len(videoQueue) : videoQueue[i] >= LastAudio - 1

\* A packet is mapped to the time of its capture and this much.
AnchorForm ==
    push.anchor.set =>
        /\ ShiftOf(push.anchor) >= 1
        /\ push.at \in {"opus", "video"} \/ audioQueue = <<>> => ShiftOf(push.anchor) <= Lead + 1

\* One step for each packet that is queued: an audio tag's lead, and the grid's.
AudioAhead ==
    /\ 0 <= push.lastAudioMs /\ push.opusPrev <= push.lastAudioMs /\ push.lastOpusMs <= push.lastAudioMs
    /\ push.lastAudioMs + Len(opusQueue) <= LastOpus - push.start + Lead
    /\ push.opusPtsIndex + Len(opusQueue) <= LastOpus - push.start + Lead

LinkForm ==
    /\ (linked <=> push.at # "none") /\ connsLeft \in {0, 1}
    /\ linked => connsLeft = 0
    /\ connsLeft = 1 => audioQueue = <<>> /\ opusQueue = <<>> /\ videoQueue = <<>>
    /\ push.at = "start" =>
        ~push.anchor.set /\ push.opusPtsIndex = -1 /\ push.opusPrev <= 0 /\ push.lastOpusMs = 0

LeadInv ==
    /\ DueInv /\ LinkForm
    /\ linked => AudioForm /\ OpusForm /\ PictureForm
    /\ linked /\ ~push.anchor.set /\ audioQueue = <<>> => AllFresh
    /\ Writes => AnchorForm /\ AudioAhead
    /\ stamps.track # "video" => stamps.ahead <= Lead

LEMMA NewestForm ==
  ASSUME NEW q \in Seq(Int), NEW n \in Nat
  PROVE  /\ Stamps!Newest(q, n) \in Seq(Int)
         /\ Len(Stamps!Newest(q, n)) <= n /\ Len(Stamps!Newest(q, n)) <= Len(q)
         /\ n > 0 /\ q # <<>> => Stamps!Newest(q, n) # <<>>
         /\ \A i \in 1..Len(Stamps!Newest(q, n)) :
                /\ Stamps!Newest(q, n)[i] = q[Len(q) - Len(Stamps!Newest(q, n)) + i]
                /\ Len(q) - Len(Stamps!Newest(q, n)) + i \in 1..Len(q)
  <1> DEFINE l == Len(q)
             r == Stamps!Newest(q, n)
  <1> HIDE DEF r
  <1>1. l \in Nat /\ (q # <<>> => l > 0)
    OBVIOUS
  <1>2. CASE l > n
    <2>1. r = SubSeq(q, l - n + 1, l)
      BY <1>2 DEF Stamps!Newest, r
    <2>2. r \in Seq(Int) /\ Len(r) = n /\ \A i \in 1..n : r[i] = q[l - n + i]
      BY <1>1, <1>2, <2>1
    <2>3. \A i \in 1..n : l - n + i \in 1..l
      BY <1>1, <1>2
    <2>4. n > 0 => r # <<>>
      BY <2>2
    <2> HIDE DEF l
    <2>5. n <= n /\ n <= l
      BY <1>1, <1>2
    <2>6. QED BY <2>2, <2>3, <2>4, <2>5, Zenon DEF r, l
  <1>3. CASE ~(l > n)
    <2>1. r = q
      BY <1>3 DEF Stamps!Newest, r
    <2>2. l <= n /\ l <= l /\ \A i \in 1..l : l - l + i = i
      BY <1>1, <1>3
    <2>3. QED BY <1>1, <2>1, <2>2, Zenon DEF r, l
  <1>4. QED BY <1>2, <1>3

\* Products of two constants or of a constant and a length, which the provers take for
\* opaque numbers.
LEMMA Multiples ==
  ASSUME NEW n \in Int, NEW w \in Nat
  PROVE  /\ (n + 1) * w = n * w + w
         /\ n * w \in Int
         /\ n >= 0 => n * w >= 0
  OBVIOUS

LEMMA MultiplesGrow ==
  ASSUME NEW n \in Int, NEW m \in Int, NEW w \in Nat, n <= m
  PROVE  n * w <= m * w
  <1>1. PICK k \in Nat : m = n + k
    <2>1. m - n \in Nat /\ m = n + (m - n)
      OBVIOUS
    <2>2. QED BY <2>1
  <1>2. k * w >= 0 /\ k * w \in Int /\ n * w \in Int
    BY Multiples
  <1>3. m * w = n * w + k * w
    BY <1>1
  <1>4. QED BY <1>2, <1>3

LEMMA LeadTick ==
  ASSUME StampInv, LeadInv, Stamps!Tick
  PROVE  LeadInv'
  <1>1. /\ time \in Nat /\ time' = time + 1
        /\ UNCHANGED <<linked, audioQueue, opusQueue, videoQueue, push, stamps, connsLeft>>
    BY ThreadFields DEF Stamps!Tick, Stamps!queueVars, Stamps!boundVars
  <1>2. DueInv' /\ LastAudio' = LastAudio /\ LastOpus' = LastOpus /\ LastPicture' = LastPicture
    BY <1>1, TickTimes DEF LeadInv
  <1>3. AudioForm => AudioForm'
    <2> SUFFICES ASSUME AudioForm PROVE AudioForm'
      OBVIOUS
    <2>1. \A i \in 1..Len(audioQueue) : audioQueue[i] \in Int
      BY DEF StampInv, StampTypes
    <2>2. \A i \in 1..Len(audioQueue) : audioQueue[i] < time + 1
      BY <1>1, <2>1 DEF AudioForm
    <2>3. QED BY <1>1, <1>2, <2>2 DEF AudioForm
  <1>4. (OpusForm => OpusForm') /\ (PictureForm => PictureForm') /\ (AllFresh => AllFresh')
    BY <1>1, <1>2 DEF OpusForm, PictureForm, AllFresh
  <1>5. LinkForm' = LinkForm /\ AnchorForm' = AnchorForm /\ AudioAhead' = AudioAhead
    BY <1>1, <1>2 DEF LinkForm, AnchorForm, AudioAhead, ShiftOf
  <1>6. Writes' = Writes
    BY <1>1 DEF Writes
  <1>7. QED BY <1>1, <1>2, <1>3, <1>4, <1>5, <1>6 DEF LeadInv

LEMMA LeadAudio ==
  ASSUME StampInv, LeadInv, Stamps!EnqueueAudio
  PROVE  LeadInv'
  <1>1. /\ time \in Nat /\ time' = time /\ Window \in Nat /\ Window > 0
        /\ UNCHANGED <<linked, opusQueue, videoQueue, push, stamps, connsLeft>>
    BY ThreadFields, StampAssumption DEF Stamps!EnqueueAudio, Stamps!boundVars
  <1>2. /\ DueInv' /\ LastOpus' = LastOpus /\ LastPicture' = LastPicture
        /\ LastAudio = time - Window /\ LastAudio' = time
    BY <1>1, HandedTimes DEF LeadInv
  <1>3. OpusForm' = OpusForm /\ PictureForm' = PictureForm /\ AudioAhead' = AudioAhead /\ Writes' = Writes
    BY <1>1, <1>2 DEF OpusForm, PictureForm, AudioAhead, Writes
  <1>4. CASE ~linked
    <2>1. audioQueue' = audioQueue /\ ~linked'
      BY <1>1, <1>4 DEF Stamps!EnqueueAudio
    <2>2. ~Writes'
      BY <1>1, <1>4 DEF LeadInv, LinkForm, Writes
    <2>3. LinkForm'
      BY <1>1, <2>1 DEF LeadInv, LinkForm
    <2>4. QED BY <1>1, <1>2, <2>1, <2>2, <2>3 DEF LeadInv
  <1>5. CASE linked
    <2> DEFINE q == Append(audioQueue, time - Window)
    <2>1. audioQueue' = Stamps!Newest(q, AudioSize)
      BY <1>5 DEF Stamps!EnqueueAudio
    <2>2. /\ q \in Seq(Int) /\ Len(q) = Len(audioQueue) + 1 /\ q # <<>> /\ q[Len(q)] = time - Window
          /\ \A i \in 1..Len(q) : q[i] < time
      <3>1. audioQueue \in Seq(Int) /\ \A i \in 1..Len(audioQueue) : audioQueue[i] < time
        BY <1>5 DEF StampInv, StampTypes, LeadInv, AudioForm
      <3>2. QED BY <1>1, <3>1
    <2>3. AudioSize \in Nat /\ AudioSize > 0
      BY StampAssumption
    <2> HIDE DEF q
    <2>4. /\ audioQueue' \in Seq(Int) /\ audioQueue' # <<>>
          /\ \A i \in 1..Len(audioQueue') :
                 audioQueue'[i] = q[Len(q) - Len(audioQueue') + i] /\ Len(q) - Len(audioQueue') + i \in 1..Len(q)
      <3> DEFINE r == Stamps!Newest(q, AudioSize)
      <3>1. q \in Seq(Int) /\ AudioSize \in Nat /\ AudioSize > 0 /\ q # <<>>
        BY <2>1, <2>2, <2>3
      <3>2. /\ r \in Seq(Int) /\ Len(r) <= AudioSize /\ Len(r) <= Len(q) /\ r # <<>>
            /\ \A i \in 1..Len(r) : r[i] = q[Len(q) - Len(r) + i] /\ Len(q) - Len(r) + i \in 1..Len(q)
        BY <3>1, NewestForm, Zenon
      <3>3. QED BY <2>1, <3>2, Zenon
    <2>5. Len(audioQueue') \in 1..Len(audioQueue') /\ Len(audioQueue') \in Nat /\ Len(q) \in Nat
      BY <2>2, <2>4
    <2>6. audioQueue'[Len(audioQueue')] = time - Window
      <3> DEFINE n == Len(audioQueue')
      <3>1. audioQueue'[n] = q[Len(q) - n + n] /\ n \in Nat
        BY <2>4, <2>5
      <3> HIDE DEF n
      <3>2. Len(q) - n + n = Len(q)
        BY <2>5, <3>1
      <3>3. QED BY <2>2, <3>1, <3>2 DEF n
    <2>7. AudioForm'
      BY <1>1, <1>2, <2>2, <2>4, <2>6 DEF AudioForm
    <2>8. LinkForm'
      BY <1>1, <1>5 DEF LeadInv, LinkForm
    <2>9. AnchorForm => AnchorForm'
      BY <1>1, <2>4 DEF AnchorForm, ShiftOf
    <2>10. QED BY <1>1, <1>2, <1>3, <1>5, <2>4, <2>7, <2>8, <2>9 DEF LeadInv
  <1>6. QED BY <1>4, <1>5

LEMMA LeadOpus ==
  ASSUME StampInv, LeadInv, Stamps!EnqueueOpus
  PROVE  LeadInv'
  <1>1. /\ time \in Nat /\ time' = time /\ Window \in Nat /\ Window > 0
        /\ UNCHANGED <<linked, audioQueue, videoQueue, push, stamps, connsLeft>>
    BY ThreadFields, StampAssumption DEF Stamps!EnqueueOpus, Stamps!boundVars
  <1>2. /\ DueInv' /\ LastAudio' = LastAudio /\ LastPicture' = LastPicture
        /\ LastOpus = time - Window /\ LastOpus' = time
    BY <1>1, HandedTimes DEF LeadInv
  <1>3. /\ AudioForm' = AudioForm /\ PictureForm' = PictureForm /\ AllFresh' = AllFresh
        /\ AnchorForm' = AnchorForm /\ Writes' = Writes
    BY <1>1, <1>2 DEF AudioForm, PictureForm, AllFresh, AnchorForm, ShiftOf, Writes
  <1>4. CASE ~linked
    <2>1. opusQueue' = opusQueue /\ ~linked'
      BY <1>1, <1>4 DEF Stamps!EnqueueOpus
    <2>2. ~Writes'
      BY <1>1, <1>4 DEF LeadInv, LinkForm, Writes
    <2>3. LinkForm'
      BY <1>1, <2>1 DEF LeadInv, LinkForm
    <2>4. QED BY <1>1, <1>2, <2>1, <2>2, <2>3 DEF LeadInv
  <1>5. CASE linked
    <2> DEFINE f == [i \in 1..Window |-> time - Window + i - 1]
               q == opusQueue \o f
    <2>1. opusQueue' = Stamps!Newest(q, OpusSize)
      BY <1>5 DEF Stamps!EnqueueOpus
    <2>2. /\ opusQueue \in Seq(Int) /\ Len(opusQueue) \in Nat
          /\ \A i \in 1..Len(opusQueue) : opusQueue[i] = LastOpus - Len(opusQueue) - 1 + i
      BY <1>5 DEF StampInv, StampTypes, LeadInv, OpusForm
    <2>3. f \in Seq(Int) /\ Len(f) = Window /\ \A i \in 1..Window : f[i] = time - Window + i - 1
      BY <1>1
    <2> HIDE DEF f
    <2>4. /\ q \in Seq(Int) /\ Len(q) = Len(opusQueue) + Window
          /\ \A i \in 1..Len(q) : q[i] = IF i <= Len(opusQueue) THEN opusQueue[i] ELSE f[i - Len(opusQueue)]
      <3>1. opusQueue \in Seq(Int) /\ f \in Seq(Int)
        BY <2>2, <2>3
      <3>2. /\ q \in Seq(Int) /\ Len(q) = Len(opusQueue) + Len(f)
            /\ \A i \in 1..Len(q) : q[i] = IF i <= Len(opusQueue) THEN opusQueue[i] ELSE f[i - Len(opusQueue)]
        BY <3>1, ConcatProperties
      <3>3. QED BY <2>3, <3>2
    <2> HIDE DEF q
    <2>5. \A i \in 1..Len(q) : q[i] = time - Len(q) - 1 + i
      <3> SUFFICES ASSUME NEW i \in 1..Len(q) PROVE q[i] = time - Len(q) - 1 + i
        OBVIOUS
      <3>1. CASE i <= Len(opusQueue)
        <4>1. i \in 1..Len(opusQueue)
          BY <2>2, <3>1
        <4>2. q[i] = time - Window - Len(opusQueue) - 1 + i
          BY <1>2, <2>2, <2>4, <3>1, <4>1
        <4>3. QED BY <1>1, <2>2, <2>4, <4>2
      <3>2. CASE ~(i <= Len(opusQueue))
        <4>1. i - Len(opusQueue) \in 1..Window
          BY <1>1, <2>2, <2>4, <3>2
        <4>2. q[i] = time - Window + (i - Len(opusQueue)) - 1
          BY <2>3, <2>4, <3>2, <4>1
        <4>3. QED BY <1>1, <2>2, <2>4, <4>2
      <3>3. QED BY <3>1, <3>2
    <2>6. OpusSize \in Nat
      BY StampAssumption
    <2>7. /\ opusQueue' \in Seq(Int) /\ Len(opusQueue') <= OpusSize /\ Len(opusQueue') <= Len(q)
          /\ \A i \in 1..Len(opusQueue') :
                 opusQueue'[i] = q[Len(q) - Len(opusQueue') + i] /\ Len(q) - Len(opusQueue') + i \in 1..Len(q)
      <3> DEFINE r == Stamps!Newest(q, OpusSize)
      <3>1. q \in Seq(Int) /\ OpusSize \in Nat
        BY <2>1, <2>4, <2>6
      <3>2. /\ r \in Seq(Int) /\ Len(r) <= OpusSize /\ Len(r) <= Len(q)
            /\ \A i \in 1..Len(r) : r[i] = q[Len(q) - Len(r) + i] /\ Len(q) - Len(r) + i \in 1..Len(q)
        BY <3>1, NewestForm, Zenon
      <3>3. QED BY <2>1, <3>2, Zenon
    <2>8. Len(opusQueue') \in Nat /\ Len(q) \in Nat
      BY <2>4, <2>7
    <2>9. \A i \in 1..Len(opusQueue') : opusQueue'[i] = time - Len(opusQueue') - 1 + i
      <3> SUFFICES ASSUME NEW i \in 1..Len(opusQueue') PROVE opusQueue'[i] = time - Len(opusQueue') - 1 + i
        OBVIOUS
      <3> DEFINE n == Len(opusQueue')
                 j == Len(q) - n + i
      <3>1. opusQueue'[i] = q[j] /\ j \in 1..Len(q)
        BY <2>7
      <3>2. q[j] = time - Len(q) - 1 + j
        BY <2>5, <3>1
      <3>3. n \in Nat /\ i \in Int
        BY <2>8
      <3>4. opusQueue'[i] = time - Len(q) - 1 + (Len(q) - n + i)
        BY <3>1, <3>2
      <3> HIDE DEF n, j
      <3>5. time - Len(q) - 1 + (Len(q) - n + i) = time - n - 1 + i
        BY <1>1, <2>8, <3>3
      <3>6. QED BY <3>4, <3>5 DEF n
    <2>10. OpusForm'
      BY <1>2, <2>7, <2>9 DEF OpusForm
    <2>11. AudioAhead /\ push \in Threads => AudioAhead'
      <3> SUFFICES ASSUME AudioAhead, push \in Threads PROVE AudioAhead'
        OBVIOUS
      <3>1. Len(opusQueue') <= Len(opusQueue) + Window
        BY <2>4, <2>7
      <3>2. /\ push.lastAudioMs \in Int /\ push.opusPtsIndex \in Int /\ push.start \in Int /\ Lead \in Int
        BY <1>1, <2>6 DEF Threads, Lead
      <3>3. /\ push.lastAudioMs + Len(opusQueue) <= (time - Window) - push.start + Lead
            /\ push.opusPtsIndex + Len(opusQueue) <= (time - Window) - push.start + Lead
        BY <1>2 DEF AudioAhead
      <3>4. /\ push.lastAudioMs + Len(opusQueue') <= time - push.start + Lead
            /\ push.opusPtsIndex + Len(opusQueue') <= time - push.start + Lead
        <4> DEFINE m == Len(opusQueue)
                   n == Len(opusQueue')
        <4>1. m \in Nat /\ n \in Nat /\ n <= m + Window
          BY <2>2, <2>8, <3>1
        <4>2. /\ push.lastAudioMs + m <= (time - Window) - push.start + Lead
              /\ push.opusPtsIndex + m <= (time - Window) - push.start + Lead
          BY <3>3
        <4> HIDE DEF m, n
        <4>3. /\ push.lastAudioMs + n <= time - push.start + Lead
              /\ push.opusPtsIndex + n <= time - push.start + Lead
          BY <1>1, <3>2, <4>1, <4>2
        <4>4. QED BY <4>3 DEF n
      <3>5. QED BY <1>1, <1>2, <3>4 DEF AudioAhead, Lead
    <2>12. LinkForm'
      BY <1>1, <1>5 DEF LeadInv, LinkForm
    <2>13. push \in Threads
      BY DEF StampInv, StampTypes
    <2>14. QED BY <1>1, <1>2, <1>3, <1>5, <2>10, <2>11, <2>12, <2>13 DEF LeadInv
  <1>6. QED BY <1>4, <1>5

LEMMA LeadPicture ==
  ASSUME StampInv, LeadInv, Stamps!EnqueueVideo
  PROVE  LeadInv'
  <1>1. /\ time \in Nat /\ time' = time /\ Interval \in Nat /\ Interval > 0
        /\ UNCHANGED <<linked, audioQueue, opusQueue, push, stamps, connsLeft>>
    BY ThreadFields, StampAssumption DEF Stamps!EnqueueVideo, Stamps!boundVars
  <1>2. /\ DueInv' /\ LastAudio' = LastAudio /\ LastOpus' = LastOpus
        /\ LastPicture = time - Interval /\ LastPicture' = time
    BY <1>1, HandedTimes DEF LeadInv
  <1>3. AudioForm' = AudioForm /\ OpusForm' = OpusForm /\ AnchorForm' = AnchorForm
    BY <1>1, <1>2 DEF AudioForm, OpusForm, AnchorForm, ShiftOf
  <1>4. AudioAhead' = AudioAhead /\ Writes' = Writes
    BY <1>1, <1>2 DEF AudioAhead, Writes
  <1>5. CASE ~linked
    <2>1. videoQueue' = videoQueue /\ ~linked'
      BY <1>1, <1>5 DEF Stamps!EnqueueVideo
    <2>2. ~Writes'
      BY <1>1, <1>5 DEF LeadInv, LinkForm, Writes
    <2>3. LinkForm'
      BY <1>1, <2>1 DEF LeadInv, LinkForm
    <2>4. QED BY <1>1, <1>2, <2>1, <2>2, <2>3 DEF LeadInv
  <1>6. CASE linked
    <2> DEFINE q == IF Len(videoQueue) >= VideoSize THEN <<>> ELSE videoQueue
               l == Len(q)
    <2>1. videoQueue' = Append(q, time - 1)
      BY <1>6 DEF Stamps!EnqueueVideo
    <2>2. videoQueue \in Seq(Int) /\ PictureForm
      BY <1>6 DEF StampInv, StampTypes, LeadInv
    <2>3. q \in Seq(Int) /\ \A i \in 1..l : q[i] = (time - Interval) - 1 - (l - i) * Interval
      BY <1>2, <2>2 DEF PictureForm
    <2>4. (~push.anchor.set /\ audioQueue = <<>>) => \A i \in 1..l : q[i] >= LastAudio - 1
      BY <1>6, <2>2 DEF LeadInv, AllFresh
    <2> HIDE DEF q
    <2>5. l \in Nat
      BY <2>3
    <2>6. /\ videoQueue' \in Seq(Int) /\ Len(videoQueue') = l + 1
          /\ videoQueue'[l + 1] = time - 1 /\ \A i \in 1..l : videoQueue'[i] = q[i]
      BY <1>1, <2>1, <2>3
    <2> HIDE DEF l
    <2>7. \A i \in 1..(l + 1) : videoQueue'[i] = time - 1 - (l + 1 - i) * Interval
      <3> SUFFICES ASSUME NEW i \in 1..(l + 1) PROVE videoQueue'[i] = time - 1 - (l + 1 - i) * Interval
        OBVIOUS
      <3>1. CASE i = l + 1
        <4>1. (l + 1 - i) * Interval = 0
          BY <1>1, <2>5, <3>1
        <4>2. QED BY <1>1, <2>6, <3>1, <4>1
      <3>2. CASE i # l + 1
        <4>1. i \in 1..l
          BY <2>5, <3>2
        <4> DEFINE n == l - i
        <4>2. n \in Int /\ l + 1 - i = n + 1
          BY <2>5, <4>1
        <4>3. videoQueue'[i] = (time - Interval) - 1 - n * Interval
          BY <2>3, <2>6, <4>1
        <4> HIDE DEF n
        <4>4. (n + 1) * Interval = n * Interval + Interval /\ n * Interval \in Int
          BY <1>1, <4>2, Multiples
        <4>5. QED BY <1>1, <4>2, <4>3, <4>4
      <3>3. QED BY <3>1, <3>2
    <2>8. PictureForm'
      <3> DEFINE n == Len(videoQueue')
      <3>1. n = l + 1
        BY <2>6
      <3> HIDE DEF n
      <3>2. \A i \in 1..n : videoQueue'[i] = time - 1 - (n - i) * Interval
        BY <2>5, <2>7, <3>1, <1>1
      <3>3. QED BY <1>2, <3>2, Zenon DEF PictureForm, n
    <2>9. (~push.anchor.set /\ audioQueue = <<>>) => AllFresh'
      <3> SUFFICES ASSUME ~push.anchor.set, audioQueue = <<>>, NEW i \in 1..(l + 1)
                   PROVE  videoQueue'[i] >= LastAudio - 1
        BY <1>2, <2>6 DEF AllFresh
      <3>1. CASE i = l + 1
        BY <1>1, <2>6, <3>1, LastTimes
      <3>2. CASE i # l + 1
        <4>1. i \in 1..l
          BY <2>5, <3>2
        <4>2. QED BY <2>4, <2>6, <4>1
      <3>3. QED BY <3>1, <3>2
    <2>10. LinkForm'
      BY <1>1, <1>6 DEF LeadInv, LinkForm
    <2>11. QED BY <1>1, <1>2, <1>3, <1>4, <1>6, <2>8, <2>9, <2>10 DEF LeadInv
  <1>7. QED BY <1>5, <1>6

\* A connection begins with nothing queued, ends for good, blocks.
LEMMA LeadConnection ==
  ASSUME QueuesYoung, StampInv, LeadInv, UNCHANGED <<time, due, audioQueue, opusQueue, videoQueue>>,
         Stamps!Connect \/ Stamps!Start \/ Stamps!Lose \/ Stamps!Block \/ Stamps!Unblock
  PROVE  LeadInv'
  <1>1. /\ DueInv' = DueInv /\ LastAudio' = LastAudio /\ LastOpus' = LastOpus /\ LastPicture' = LastPicture
    BY DEF DueInv, LastAudio, LastOpus, LastPicture
  <1>2. /\ AudioForm' = AudioForm /\ OpusForm' = OpusForm /\ PictureForm' = PictureForm /\ AllFresh' = AllFresh
    BY <1>1 DEF AudioForm, OpusForm, PictureForm, AllFresh
  <1>3. CASE Stamps!Connect
    <2>1. /\ linked' /\ stamps' = stamps /\ connsLeft' = connsLeft - 1 /\ connsLeft > 0
          /\ push' = [Stamps!NoThread EXCEPT !.at = "start"]
      BY <1>3 DEF Stamps!Connect
    <2>2. connsLeft = 1 /\ connsLeft' = 0 /\ audioQueue = <<>> /\ opusQueue = <<>> /\ videoQueue = <<>>
      BY <2>1 DEF LeadInv, LinkForm
    <2>3. /\ push'.at = "start" /\ ~push'.anchor.set /\ push'.opusPtsIndex = -1 /\ push'.lastOpusMs = 0
          /\ push'.opusPrev = Stamps!Never
      BY <2>1 DEF Stamps!NoThread
    <2>4. Stamps!Never <= 0
      BY StampConstants DEF Stamps!Never
    <2>5. LinkForm' /\ ~Writes'
      BY <2>1, <2>2, <2>3, <2>4 DEF LinkForm, Writes
    <2>6. Len(opusQueue) <= OpusSize
      BY <2>2, StampConstants
    <2>7. AudioForm /\ OpusForm /\ PictureForm /\ AllFresh
      BY <2>2, <2>6 DEF AudioForm, OpusForm, PictureForm, AllFresh
    <2>8. QED BY <1>1, <1>2, <2>1, <2>5, <2>7 DEF LeadInv
  <1>4. CASE Stamps!Lose
    <2>1. linked /\ ~linked' /\ stamps' = stamps /\ connsLeft' = connsLeft /\ push' = Stamps!NoThread
      BY <1>4 DEF Stamps!Lose, Stamps!boundVars
    <2>2. push'.at = "none"
      BY <2>1, FreshThread
    <2>3. connsLeft' = 0
      BY <2>1 DEF LeadInv, LinkForm
    <2>4. LinkForm' /\ ~Writes'
      BY <2>1, <2>2, <2>3 DEF LinkForm, Writes
    <2>5. QED BY <1>1, <2>1, <2>4 DEF LeadInv
  <1>5. CASE Stamps!Block \/ Stamps!Unblock
    <2>1. UNCHANGED <<linked, push, stamps, connsLeft>>
      BY <1>5 DEF Stamps!Block, Stamps!Unblock, Stamps!boundVars
    <2>2. LinkForm' = LinkForm /\ AnchorForm' = AnchorForm /\ AudioAhead' = AudioAhead /\ Writes' = Writes
      BY <1>1, <2>1 DEF LinkForm, AnchorForm, AudioAhead, ShiftOf, Writes
    <2>3. QED BY <1>1, <1>2, <2>1, <2>2 DEF LeadInv
  <1>6. CASE Stamps!Start
    <2>1. /\ push.at = "start" /\ push' = [push EXCEPT !.at = "aac", !.start = time] /\ stamps' = Stamps!NoTags
          /\ linked' = linked /\ connsLeft' = connsLeft
      BY <1>6 DEF Stamps!Start, Stamps!boundVars
    <2>2. linked /\ connsLeft = 0 /\ ~push.anchor.set /\ push.opusPtsIndex = -1 /\ push.opusPrev <= 0
          /\ push.lastOpusMs = 0 /\ push.lastAudioMs = 0
      BY <2>1 DEF LeadInv, LinkForm, StampInv
    <2>3. push \in Threads
      BY DEF StampInv, StampTypes
    <2>4. /\ push'.at = "aac" /\ push'.start = time /\ push'.anchor = push.anchor
          /\ push'.opusPtsIndex = -1 /\ push'.opusPrev <= 0 /\ push'.lastOpusMs = 0 /\ push'.lastAudioMs = 0
      BY <2>1, <2>2, <2>3 DEF Threads
    <2>5. LinkForm'
      BY <2>1, <2>2, <2>4 DEF LinkForm
    <2>6. AnchorForm'
      BY <2>2, <2>4 DEF AnchorForm
    <2>7. AudioAhead'
      <3>1. /\ LastOpus \in Int /\ time - Window <= LastOpus /\ time \in Nat /\ Len(opusQueue) \in Nat
            /\ Len(opusQueue) <= OpusSize /\ OpusSize \in Nat /\ Window \in Nat
        BY <2>2, LastTimes, ThreadFields, StampAssumption DEF LeadInv, OpusForm, StampInv, StampTypes
      <3>2. 0 + Len(opusQueue) <= LastOpus - time + (OpusSize + Window)
            /\ -1 + Len(opusQueue) <= LastOpus - time + (OpusSize + Window)
        BY <3>1
      <3>3. QED BY <1>1, <2>4, <3>2 DEF AudioAhead, Lead
    <2>8. stamps'.ahead <= Lead
      BY <2>1, StampAssumption DEF Lead, Stamps!NoTags
    <2>9. linked' /\ ~push'.anchor.set /\ audioQueue' = <<>> => AllFresh'
      BY <1>2, <2>1, <2>2, <2>4 DEF LeadInv
    <2>10. QED BY <1>1, <1>2, <2>1, <2>2, <2>5, <2>6, <2>7, <2>8, <2>9 DEF LeadInv
  <1>7. QED BY <1>3, <1>4, <1>5, <1>6

\* A thread that finds this queue empty goes on to the next.
LEMMA LeadGoesOn ==
  ASSUME StampInv, LeadInv, Writes, NEW at \in {"aac", "opus", "video"}, push' = [push EXCEPT !.at = at],
         at = "opus" => audioQueue = <<>>, at = "video" => push.at = "opus",
         UNCHANGED <<time, due, linked, audioQueue, opusQueue, videoQueue, stamps, connsLeft>>
  PROVE  LeadInv'
  <1>1. /\ DueInv' = DueInv /\ LastAudio' = LastAudio /\ LastOpus' = LastOpus /\ LastPicture' = LastPicture
    BY DEF DueInv, LastAudio, LastOpus, LastPicture
  <1>2. /\ AudioForm' = AudioForm /\ OpusForm' = OpusForm /\ PictureForm' = PictureForm /\ AllFresh' = AllFresh
    BY <1>1 DEF AudioForm, OpusForm, PictureForm, AllFresh
  <1>3. push \in Threads
    BY DEF StampInv, StampTypes
  <1>4. /\ push'.at = at /\ push'.start = push.start /\ push'.anchor = push.anchor
        /\ push'.opusPrev = push.opusPrev /\ push'.opusPtsIndex = push.opusPtsIndex
        /\ push'.lastAudioMs = push.lastAudioMs /\ push'.lastOpusMs = push.lastOpusMs
    BY <1>3 DEF Threads
  <1>5. AudioAhead' = AudioAhead
    BY <1>1, <1>4 DEF AudioAhead
  <1>6. AnchorForm'
    <2>1. ShiftOf(push.anchor)' = ShiftOf(push.anchor)
      BY <1>4 DEF ShiftOf
    <2>2. AnchorForm
      BY DEF LeadInv
    <2>3. QED BY <1>4, <2>1, <2>2 DEF AnchorForm
  <1>7. LinkForm'
    BY <1>4 DEF LeadInv, LinkForm, Writes
  <1>8. QED BY <1>1, <1>2, <1>4, <1>5, <1>6, <1>7 DEF LeadInv

\* What captureElapsed's anchor maps a packet to, and from which age it anchors anew.
LEMMA AnchoredShift ==
  ASSUME time \in Int, push.start \in Int, NEW a \in Anchors, NEW pts \in Int
  PROVE  /\ Stamps!Anchored(a, pts) \in Anchors /\ Stamps!Anchored(a, pts).set
         /\ ShiftOf(Stamps!Anchored(a, pts)) \in Int /\ ShiftOf(a) \in Int
         /\ ShiftOf(Stamps!Anchored(a, pts)) <= time - pts
         /\ \/ ShiftOf(Stamps!Anchored(a, pts)) = time - pts
            \/ a.set /\ ShiftOf(Stamps!Anchored(a, pts)) = ShiftOf(a)
         /\ a.set /\ ShiftOf(a) >= time - pts - Late => ShiftOf(Stamps!Anchored(a, pts)) <= ShiftOf(a)
  <1> DEFINE e == a.elapsed + pts - a.pts
             now_ == time - push.start
             b == Stamps!Anchored(a, pts)
  <1>1. e \in Int /\ now_ \in Int /\ a.set \in BOOLEAN /\ a.pts \in Int /\ a.elapsed \in Int /\ Late \in Nat
    BY StampConstants DEF Anchors
  <1>2. b \in Anchors
    BY AnchoredNotAhead
  <1>3. ShiftOf(a) = a.elapsed - a.pts + push.start /\ ShiftOf(b) = b.elapsed - b.pts + push.start
    BY DEF ShiftOf
  <1>4. CASE ~a.set \/ e < now_ - Late
    <2>1. b = [set |-> TRUE, pts |-> pts, elapsed |-> now_]
      BY <1>4 DEF Stamps!Anchored, Stamps!NowElapsed
    <2>2. b.set /\ b.pts = pts /\ b.elapsed = now_
      BY <2>1
    <2> HIDE DEF b
    <2>3. ShiftOf(b) = time - pts
      BY <1>1, <1>3, <2>2
    <2>4. ~(a.set /\ ShiftOf(a) >= time - pts - Late)
      BY <1>1, <1>3, <1>4
    <2>5. ShiftOf(b) \in Int /\ ShiftOf(a) \in Int /\ time - pts <= time - pts
      BY <1>1, <1>3, <2>3
    <2>6. QED BY <1>2, <2>2, <2>3, <2>4, <2>5 DEF b
  <1>5. CASE ~(~a.set \/ e < now_ - Late) /\ e > now_
    <2>1. b = [a EXCEPT !.elapsed = a.elapsed - (e - now_)]
      BY <1>5 DEF Stamps!Anchored, Stamps!NowElapsed, Anchors
    <2>2. b.set /\ b.pts = a.pts /\ b.elapsed = a.elapsed - (e - now_)
      BY <1>5, <2>1 DEF Anchors
    <2> HIDE DEF b
    <2>3. ShiftOf(b) = time - pts /\ ShiftOf(b) <= ShiftOf(a)
      <3> DEFINE x == a.elapsed
                 y == a.pts
                 s == push.start
      <3>1. /\ x \in Int /\ y \in Int /\ s \in Int /\ ShiftOf(a) = x - y + s
            /\ ShiftOf(b) = (x - ((x + pts - y) - (time - s))) - y + s /\ x + pts - y > time - s
        BY <1>1, <1>3, <1>5, <2>2
      <3> HIDE DEF x, y, s, e, now_
      <3>2. QED BY <3>1
    <2>4. ShiftOf(b) \in Int /\ ShiftOf(a) \in Int /\ time - pts <= time - pts
      BY <1>1, <1>3, <2>3
    <2>5. QED BY <1>2, <2>2, <2>3, <2>4 DEF b
  <1>6. CASE ~(~a.set \/ e < now_ - Late) /\ ~(e > now_)
    <2>1. b = a
      BY <1>6 DEF Stamps!Anchored, Stamps!NowElapsed
    <2>2. a.set /\ ShiftOf(a) \in Int /\ ShiftOf(a) <= time - pts /\ ShiftOf(a) <= ShiftOf(a)
      BY <1>1, <1>3, <1>6
    <2>3. QED BY <1>2, <2>1, <2>2
  <1>7. QED BY <1>4, <1>5, <1>6

\* The oldest picture has been queued for no longer than it takes to fill the queue.
LEMMA OldestPicture ==
  ASSUME StampInv, PictureForm, videoQueue # <<>>
  PROVE  /\ Head(videoQueue) \in Int /\ Head(videoQueue) = videoQueue[1]
         /\ time - Head(videoQueue) >= 1 /\ time - Head(videoQueue) <= VideoSize * Interval + 1
  <1> DEFINE l == Len(videoQueue)
             x == videoQueue[1]
  <1>1. /\ Head(videoQueue) = x /\ x \in Int /\ l \in Nat /\ l > 0 /\ l <= VideoSize
        /\ x = LastPicture - 1 - (l - 1) * Interval
    BY DEF StampInv, StampTypes, PictureForm
  <1>2. LastPicture \in Int /\ time - Interval <= LastPicture /\ LastPicture <= time /\ time \in Nat
    BY ThreadFields, LastTimes
  <1>3. VideoSize \in Nat /\ Interval \in Nat /\ Interval > 0
    BY StampAssumption
  <1> HIDE DEF l, x
  <1> DEFINE n == l - 1
  <1>4. n \in Int /\ n >= 0 /\ n + 1 = l
    BY <1>1
  <1>5. x = LastPicture - 1 - n * Interval
    BY <1>1
  <1> HIDE DEF n
  <1>6. n * Interval \in Int /\ n * Interval >= 0 /\ l * Interval = n * Interval + Interval
    BY <1>3, <1>4, Multiples
  <1>7. l * Interval <= VideoSize * Interval
    BY <1>1, <1>3, MultiplesGrow
  <1>8. VideoSize * Interval \in Int
    BY <1>3, Multiples
  <1> DEFINE m == n * Interval
             k == l * Interval
             v == VideoSize * Interval
  <1>9. m \in Int /\ m >= 0 /\ k = m + Interval /\ k <= v /\ v \in Int /\ x = LastPicture - 1 - m
    BY <1>5, <1>6, <1>7, <1>8
  <1> HIDE DEF m, k, v
  <1>10. time - x >= 1 /\ time - x <= v + 1
    BY <1>1, <1>2, <1>3, <1>9
  <1>11. QED BY <1>1, <1>10 DEF x, v

\* A thread's record when it has written a tag.
LEMMA ThreadTags ==
  ASSUME NEW p \in Threads, NEW a \in Anchors, NEW ms \in Int, NEW prev \in Int, NEW index \in Int
  PROVE  /\ LET q == [p EXCEPT !.anchor = a, !.lastAudioMs = ms]
            IN  /\ q.at = p.at /\ q.start = p.start /\ q.anchor = a /\ q.lastAudioMs = ms
                /\ q.opusPrev = p.opusPrev /\ q.opusPtsIndex = p.opusPtsIndex /\ q.lastOpusMs = p.lastOpusMs
         /\ LET q == [p EXCEPT !.opusPrev = prev, !.opusPtsIndex = index, !.lastOpusMs = ms, !.lastAudioMs = ms]
            IN  /\ q.at = p.at /\ q.start = p.start /\ q.anchor = p.anchor /\ q.lastAudioMs = ms
                /\ q.opusPrev = prev /\ q.opusPtsIndex = index /\ q.lastOpusMs = ms
         /\ LET q == [p EXCEPT !.at = "aac", !.anchor = a, !.stLastMs = ms]
            IN  /\ q.at = "aac" /\ q.start = p.start /\ q.anchor = a /\ q.lastAudioMs = p.lastAudioMs
                /\ q.opusPrev = p.opusPrev /\ q.opusPtsIndex = p.opusPtsIndex /\ q.lastOpusMs = p.lastOpusMs
  BY DEF Threads

LEMMA Rest ==
  ASSUME NEW q \in Seq(Int), q # <<>>
  PROVE  /\ Head(q) \in Int /\ Head(q) = q[1] /\ Len(q) \in Nat /\ Len(q) > 0
         /\ Tail(q) \in Seq(Int) /\ Len(Tail(q)) = Len(q) - 1
         /\ \A i \in 1..(Len(q) - 1) : Tail(q)[i] = q[i + 1]
         /\ Tail(q) = <<>> <=> Len(q) = 1
  <1>1. /\ Head(q) \in Int /\ Head(q) = q[1] /\ Len(q) \in Nat /\ Len(q) > 0
        /\ Tail(q) \in Seq(Int) /\ Len(Tail(q)) = Len(q) - 1
        /\ \A i \in 1..(Len(q) - 1) : Tail(q)[i] = q[i + 1]
    OBVIOUS
  <1> DEFINE t == Tail(q)
  <1>2. t \in Seq(Int) /\ Len(t) = Len(q) - 1
    BY <1>1
  <1> HIDE DEF t
  <1>3. t = <<>> <=> Len(t) = 0
    BY <1>2, EmptySeq
  <1>4. t = <<>> <=> Len(q) = 1
    BY <1>1, <1>2, <1>3
  <1>5. QED BY <1>1, <1>4, Zenon DEF t

\* What is known where a packet is taken.
Taking ==
    /\ linked /\ connsLeft = 0 /\ AudioForm /\ OpusForm /\ PictureForm /\ AnchorForm /\ AudioAhead
    /\ push \in Threads /\ push.anchor \in Anchors /\ push.start \in Int /\ push.start <= time
    /\ time \in Nat /\ Window \in Nat /\ Window > 0 /\ OpusSize \in Nat /\ Lead \in Int
    /\ Window <= OpusSize /\ Lead = OpusSize + Window /\ Len(opusQueue) \in Nat
    /\ LastAudio \in Int /\ time - Window <= LastAudio /\ LastAudio <= time
    /\ LastOpus \in Int /\ time - Window <= LastOpus /\ LastOpus <= time

LEMMA WhereTagged ==
  ASSUME QueuesYoung, StampInv, LeadInv, Writes
  PROVE  Taking
  <1>1. /\ push \in Threads /\ time \in Nat /\ push.start <= time /\ opusQueue \in Seq(Int)
    BY DEF StampInv, StampTypes
  <1>2. push.anchor \in Anchors /\ push.start \in Int
    BY ThreadFields
  <1>3. linked /\ connsLeft = 0
    BY DEF LeadInv, LinkForm, Writes
  <1>4. AudioForm /\ OpusForm /\ PictureForm /\ AnchorForm /\ AudioAhead
    BY <1>3 DEF LeadInv
  <1>5. /\ Window \in Nat /\ Window > 0 /\ OpusSize \in Nat /\ Window <= OpusSize
    BY StampAssumption DEF QueuesYoung
  <1>6. Lead \in Int /\ Lead = OpusSize + Window /\ Len(opusQueue) \in Nat
    BY <1>1, <1>5 DEF Lead
  <1>7. QED BY <1>1, <1>2, <1>3, <1>4, <1>5, <1>6, LastTimes DEF Taking

\* A tag that is stamped no later than now, or not after the tag before, at time t of a
\* connection that began at s, with o packets queued of which the last came at h.
LEMMA NoFurther ==
  ASSUME NEW t \in Int, NEW s \in Int, NEW h \in Int, NEW o \in Int, NEW size \in Int, NEW w \in Int,
         NEW last \in Int, NEW ms \in Int,
         t - w <= h, h <= t, 0 <= o, o <= size, last + o <= h - s + (size + w), ms = last \/ ms <= t - s
  PROVE  ms + o <= h - s + (size + w) /\ ms - (t - s) <= size + w
  OBVIOUS

LEMMA LeadAac ==
  ASSUME QueuesYoung, StampInv, LeadInv, Stamps!PushAac
  PROVE  LeadInv'
  <1>1. /\ Writes /\ push.at = "aac"
        /\ UNCHANGED <<time, due, linked, opusQueue, videoQueue, connsLeft>>
    BY DEF Stamps!PushAac, Stamps!boundVars, Writes
  <1>2. CASE audioQueue = <<>>
    <2>1. push' = [push EXCEPT !.at = "opus"] /\ UNCHANGED <<audioQueue, stamps>>
      BY <1>2 DEF Stamps!PushAac
    <2>2. QED BY <1>1, <1>2, <2>1, LeadGoesOn
  <1>3. CASE audioQueue # <<>>
    <2> DEFINE pts == Head(audioQueue)
               a == Stamps!Anchored(push.anchor, pts)
               ms == Stamps!MonotonicMs(push.lastAudioMs, Stamps!Ms(Stamps!Mapped(a, pts)))
               e == time - push.start
    <2>0. Taking
      BY <1>1, WhereTagged
    <2> USE <1>1, <2>0 DEF Taking
    <2>1. /\ audioQueue \in Seq(Int) /\ pts \in Int /\ pts = audioQueue[1] /\ Len(audioQueue) \in Nat
          /\ Len(audioQueue) > 0 /\ Tail(audioQueue) \in Seq(Int)
          /\ Len(Tail(audioQueue)) = Len(audioQueue) - 1
          /\ \A i \in 1..(Len(audioQueue) - 1) : Tail(audioQueue)[i] = audioQueue[i + 1]
          /\ Tail(audioQueue) = <<>> <=> Len(audioQueue) = 1
      <3>1. audioQueue \in Seq(Int)
        BY DEF StampInv, StampTypes
      <3>2. QED BY <1>3, <3>1, Rest
    <2>2. pts < time /\ (Len(audioQueue) = 1 => pts = LastAudio - Window)
      <3>1. audioQueue[1] < time
        <4>1. 1 \in 1..Len(audioQueue)
          BY <2>1
        <4>2. QED BY <4>1 DEF AudioForm
      <3>2. audioQueue[Len(audioQueue)] = LastAudio - Window
        BY <1>3 DEF AudioForm
      <3>3. QED BY <2>1, <3>1, <3>2
    <2>3. /\ a \in Anchors /\ a.set /\ ShiftOf(a) \in Int /\ ShiftOf(a) <= time - pts
          /\ ShiftOf(a) = time - pts \/ (push.anchor.set /\ ShiftOf(a) = ShiftOf(push.anchor))
          /\ Stamps!Mapped(a, pts) \in Int /\ Stamps!Mapped(a, pts) <= e
      <3> HIDE DEF pts
      <3>1. time \in Int /\ push.start \in Int /\ push.anchor \in Anchors /\ pts \in Int
        BY <2>1
      <3>2. QED BY <3>1, AnchoredShift, AnchoredNotAhead
    <2>4. e \in Int /\ e >= 0 /\ push.lastAudioMs \in Int /\ push.opusPrev \in Int /\ push.lastOpusMs \in Int
      BY ThreadFields
    <2> HIDE DEF a
    <2>5. ms \in Int /\ push.lastAudioMs <= ms /\ (ms = push.lastAudioMs \/ ms <= e)
      <3> HIDE DEF e, pts
      <3>1. QED BY <2>3, <2>4 DEF Stamps!MonotonicMs, Stamps!Ms
    <2>6. /\ audioQueue' = Tail(audioQueue) /\ push' = [push EXCEPT !.anchor = a, !.lastAudioMs = ms]
          /\ stamps'.ahead = ms - e /\ stamps'.track = "aac"
      BY <1>3 DEF Stamps!PushAac, Stamps!Tagged, Stamps!NowElapsed, a
    <2> HIDE DEF ms
    <2>7. /\ push'.at = push.at /\ push'.start = push.start /\ push'.anchor = a /\ push'.lastAudioMs = ms
          /\ push'.opusPrev = push.opusPrev /\ push'.opusPtsIndex = push.opusPtsIndex
          /\ push'.lastOpusMs = push.lastOpusMs
      BY <2>3, <2>5, <2>6, ThreadTags
    <2>8. /\ DueInv' = DueInv /\ LastAudio' = LastAudio /\ LastOpus' = LastOpus /\ LastPicture' = LastPicture
      BY DEF DueInv, LastAudio, LastOpus, LastPicture
    <2>9. OpusForm' /\ PictureForm'
      BY <2>8 DEF OpusForm, PictureForm
    <2>10. AudioForm'
      <3>1. \A i \in 1..Len(audioQueue) : audioQueue[i] < time
        BY DEF AudioForm
      <3>2. \A i \in 1..(Len(audioQueue) - 1) : Tail(audioQueue)[i] < time
        BY <2>1, <3>1
      <3>3. CASE Len(audioQueue) = 1
        <4>1. audioQueue' = <<>> /\ Len(audioQueue') = 0
          BY <2>1, <2>6, <3>3, EmptySeq
        <4>2. 1..Len(audioQueue') = {}
          BY <4>1
        <4>3. QED BY <4>1, <4>2 DEF AudioForm
      <3>4. CASE Len(audioQueue) # 1
        <4>1. Tail(audioQueue)[Len(audioQueue) - 1] = audioQueue[Len(audioQueue)]
          BY <2>1, <3>4
        <4>2. audioQueue[Len(audioQueue)] = LastAudio - Window
          BY <1>3 DEF AudioForm
        <4>3. QED BY <2>1, <2>6, <2>8, <3>2, <4>1, <4>2 DEF AudioForm
      <3>5. QED BY <3>3, <3>4
    <2>11. AnchorForm'
      <3>1. ShiftOf(push.anchor)' = ShiftOf(a)
        BY <2>7 DEF ShiftOf
      <3>2. ShiftOf(a) >= 1
        BY <2>1, <2>2, <2>3 DEF AnchorForm
      <3>3. audioQueue' = <<>> => ShiftOf(a) <= Lead + 1
        <4> SUFFICES ASSUME audioQueue' = <<>> PROVE ShiftOf(a) <= Lead + 1
          OBVIOUS
        <4>1. Len(audioQueue) = 1
          BY <2>1, <2>6
        <4>2. pts = LastAudio - Window
          BY <2>2, <4>1
        <4> HIDE DEF pts
        <4>3. QED BY <2>3, <4>2
      <3>4. QED BY <2>7, <3>1, <3>2, <3>3 DEF AnchorForm
    <2>12. AudioAhead' /\ stamps'.ahead <= Lead
      <3> DEFINE o == Len(opusQueue)
      <3>1. /\ 0 <= push.lastAudioMs /\ push.opusPrev <= push.lastAudioMs
            /\ push.lastOpusMs <= push.lastAudioMs
            /\ push.lastAudioMs + o <= LastOpus - push.start + Lead
            /\ push.opusPtsIndex + o <= LastOpus - push.start + Lead
        BY DEF AudioAhead
      <3>2. o \in Nat /\ o <= OpusSize
        BY DEF OpusForm
      <3> HIDE DEF o
      <3>3. ms + o <= LastOpus - push.start + Lead /\ ms - e <= Lead
        <4>1. /\ LastOpus \in Int /\ o \in Int /\ OpusSize \in Int /\ Window \in Int /\ push.start \in Int
              /\ time \in Int /\ push.lastAudioMs \in Int /\ ms \in Int
          BY <2>4, <2>5, <3>2
        <4>2. /\ time - Window <= LastOpus /\ LastOpus <= time /\ 0 <= o /\ o <= OpusSize
              /\ push.lastAudioMs + o <= LastOpus - push.start + (OpusSize + Window)
              /\ ms = push.lastAudioMs \/ ms <= time - push.start
          BY <2>5, <3>1, <3>2
        <4>3. /\ ms + o <= LastOpus - push.start + (OpusSize + Window)
              /\ ms - (time - push.start) <= OpusSize + Window
          BY <4>1, <4>2, NoFurther
        <4>4. QED BY <4>3
      <3>4. 0 <= ms /\ push.opusPrev <= ms /\ push.lastOpusMs <= ms
        BY <2>4, <2>5, <3>1
      <3> HIDE DEF e
      <3>5. Len(opusQueue)' = o /\ Lead' = Lead
        BY DEF o, Lead
      <3>6. QED BY <2>6, <2>7, <2>8, <3>1, <3>3, <3>4, <3>5 DEF AudioAhead
    <2>13. LinkForm'
      BY <2>7 DEF LeadInv, LinkForm
    <2>14. DueInv' /\ push'.anchor.set
      BY <2>3, <2>7, <2>8 DEF LeadInv
    <2>15. QED BY <2>9, <2>10, <2>11, <2>12, <2>13, <2>14 DEF LeadInv
  <1>4. QED BY <1>2, <1>3

\* The same for one of o Opus packets, which is stamped a step after one that went no
\* further, or is mapped to a time of its own, or is stamped no later than now.
LEMMA OpusNoFurther ==
  ASSUME NEW t \in Int, NEW s \in Int, NEW h \in Int, NEW o \in Int, NEW size \in Int, NEW w \in Int,
         NEW last \in Int, NEW ms \in Int, NEW shift \in Int,
         t - w <= h, h <= t, 1 <= o, o <= size,
         \/ ms <= last + 1 /\ last + o <= h - s + (size + w)
         \/ ms <= shift + (h - o) - s /\ shift <= size + w + 1
         \/ ms <= t - s
  PROVE  ms + (o - 1) <= h - s + (size + w) /\ ms - (t - s) <= size + w
  OBVIOUS

LEMMA LeadOpusTag ==
  ASSUME QueuesYoung, StampInv, LeadInv, Stamps!PushOpus
  PROVE  LeadInv'
  <1>1. /\ Writes /\ push.at = "opus"
        /\ UNCHANGED <<time, due, linked, audioQueue, videoQueue, connsLeft>>
    BY DEF Stamps!PushOpus, Stamps!boundVars, Writes
  <1>2. CASE opusQueue = <<>>
    <2>1. push' = [push EXCEPT !.at = "video"] /\ UNCHANGED <<opusQueue, stamps>>
      BY <1>2 DEF Stamps!PushOpus
    <2>2. QED BY <1>1, <2>1, LeadGoesOn
  <1>3. CASE opusQueue # <<>>
    <2> DEFINE pts == Head(opusQueue)
               o == Len(opusQueue)
               e == time - push.start
               mapped == Stamps!Mapped(push.anchor, pts)
               index == Stamps!PtsIndex
               elapsed == IF push.anchor.set THEN Stamps!Larger(mapped, push.opusPrev) ELSE index
               ms == Stamps!OpusMs(elapsed)
               prev == IF push.anchor.set THEN elapsed ELSE push.opusPrev
               next == IF push.anchor.set THEN push.opusPtsIndex ELSE index + 1
    <2>0. Taking
      BY <1>1, WhereTagged
    <2> USE <1>1, <2>0 DEF Taking
    <2>1. /\ opusQueue \in Seq(Int) /\ pts \in Int /\ pts = opusQueue[1] /\ o \in Nat /\ o > 0
          /\ Tail(opusQueue) \in Seq(Int) /\ Len(Tail(opusQueue)) = o - 1
          /\ \A i \in 1..(o - 1) : Tail(opusQueue)[i] = opusQueue[i + 1]
      <3>1. opusQueue \in Seq(Int)
        BY DEF StampInv, StampTypes
      <3>2. QED BY <1>3, <3>1, Rest
    <2>2. o <= OpusSize /\ \A i \in 1..o : opusQueue[i] = LastOpus - o - 1 + i
      BY DEF OpusForm
    <2>3. pts = LastOpus - o
      <3>1. 1 \in 1..o
        BY <2>1
      <3>2. opusQueue[1] = LastOpus - o - 1 + 1
        BY <2>2, <3>1
      <3>3. QED BY <2>1, <3>2
    <2>4. /\ e \in Int /\ e >= 0 /\ push.lastAudioMs \in Int /\ push.opusPrev \in Int
          /\ push.lastOpusMs \in Int /\ push.opusPtsIndex \in Int /\ push.anchor \in Anchors
      BY ThreadFields
    <2>5. /\ 0 <= push.lastAudioMs /\ push.opusPrev <= push.lastAudioMs
          /\ push.lastOpusMs <= push.lastAudioMs
          /\ push.lastAudioMs + o <= LastOpus - push.start + (OpusSize + Window)
          /\ push.opusPtsIndex + o <= LastOpus - push.start + (OpusSize + Window)
      BY DEF AudioAhead
    <2>6. /\ mapped \in Int /\ ShiftOf(push.anchor) \in Int
          /\ mapped = ShiftOf(push.anchor) + (LastOpus - o) - push.start
      <3> DEFINE a == push.anchor
      <3>1. a.elapsed \in Int /\ a.pts \in Int
        BY <2>4 DEF Anchors
      <3>2. mapped = a.elapsed + pts - a.pts /\ ShiftOf(a) = a.elapsed - a.pts + push.start
        BY DEF Stamps!Mapped, ShiftOf
      <3> DEFINE x == a.elapsed
                 y == a.pts
                 z == ShiftOf(a)
                 s == push.start
                 h == LastOpus - o
      <3>3. /\ x \in Int /\ y \in Int /\ s \in Int /\ h \in Int
            /\ mapped = x + h - y /\ z = x - y + s
        BY <2>1, <2>3, <3>1, <3>2
      <3> HIDE DEF mapped, a, pts, x, y, z, s, h
      <3>4. mapped \in Int /\ z \in Int /\ mapped = z + h - s
        BY <3>3
      <3>5. QED BY <3>4 DEF a, z, h, s
    <2>7. push.anchor.set => ShiftOf(push.anchor) <= OpusSize + Window + 1
      BY DEF AnchorForm
    <2>8. index \in Int /\ (index = e \/ index = push.opusPtsIndex)
      BY <2>4, StampConstants DEF Stamps!PtsIndex, Stamps!NowElapsed
    <2> HIDE DEF mapped, index, pts, o
    <2>9. /\ elapsed \in Int
          /\ push.anchor.set => elapsed = mapped \/ elapsed = push.opusPrev
          /\ ~push.anchor.set => elapsed = index
      BY <2>4, <2>6, <2>8 DEF Stamps!Larger
    <2> HIDE DEF elapsed
    <2>10. /\ ms \in Int /\ push.lastAudioMs <= ms /\ elapsed <= ms
           /\ ms = elapsed \/ ms = 0 \/ ms = push.lastAudioMs \/ ms = push.lastOpusMs + 1
      <3> HIDE DEF e
      <3>1. QED BY <2>4, <2>9 DEF Stamps!OpusMs, Stamps!Larger, Stamps!Ms
    <2>11. /\ opusQueue' = Tail(opusQueue) /\ stamps'.ahead = ms - e
           /\ push' = [push EXCEPT !.opusPrev = prev, !.opusPtsIndex = next,
                                   !.lastOpusMs = ms, !.lastAudioMs = ms]
      BY <1>3 DEF Stamps!PushOpus, Stamps!OpusTag, Stamps!Tagged, Stamps!NowElapsed, elapsed, index, mapped, pts
    <2>12. prev \in Int /\ next \in Int
      BY <2>4, <2>8, <2>9
    <2>13. prev <= ms
      BY <2>4, <2>5, <2>9, <2>10
    <2>14. \/ ms <= push.lastAudioMs + 1
           \/ ShiftOf(push.anchor) <= OpusSize + Window + 1 /\ ms = mapped
           \/ ms = e
           \/ ms = push.opusPtsIndex
      <3>1. CASE ms = elapsed
        <4>1. CASE push.anchor.set
          <5>1. CASE elapsed = mapped
            BY <2>7, <3>1, <4>1, <5>1
          <5>2. CASE elapsed = push.opusPrev
            BY <2>4, <2>5, <2>10, <3>1, <5>2
          <5>3. QED BY <2>9, <4>1, <5>1, <5>2
        <4>2. CASE ~push.anchor.set
          <5>1. ms = index
            BY <2>9, <3>1, <4>2
          <5> HIDE DEF ms, e
          <5>2. QED BY <2>8, <5>1
        <4>3. QED BY <4>1, <4>2
      <3>2. CASE ms = 0 \/ ms = push.lastAudioMs \/ ms = push.lastOpusMs + 1
        <4> HIDE DEF ms
        <4> DEFINE x == push.lastAudioMs
                   y == push.lastOpusMs
        <4>1. x \in Int /\ y \in Int /\ 0 <= x /\ y <= x /\ (ms = 0 \/ ms = x \/ ms = y + 1)
          BY <2>4, <2>5, <3>2, Zenon
        <4> HIDE DEF x, y
        <4>2. ms <= x + 1
          BY <4>1
        <4>3. QED BY <4>2, Zenon DEF x
      <3>3. QED BY <2>10, <3>1, <3>2
    <2>15. /\ LastOpus \in Int /\ o \in Int /\ OpusSize \in Int /\ Window \in Int /\ push.start \in Int
           /\ time \in Int /\ push.lastAudioMs \in Int /\ push.opusPtsIndex \in Int /\ ms \in Int
           /\ ShiftOf(push.anchor) \in Int /\ push.opusPtsIndex - 1 \in Int
           /\ time - Window <= LastOpus /\ LastOpus <= time /\ 1 <= o /\ o <= OpusSize
      <3>1. 1 <= o /\ o <= OpusSize
        BY <2>1, <2>2 DEF o
      <3>2. QED BY <2>1, <2>4, <2>6, <2>10, <3>1
    <2> HIDE DEF ms
    <2>16. ms + (o - 1) <= LastOpus - push.start + (OpusSize + Window) /\ ms - e <= OpusSize + Window
      <3>1. CASE ms <= push.lastAudioMs + 1
        <4> DEFINE n == push.lastAudioMs
        <4>1. n \in Int /\ ms <= n + 1 /\ n + o <= LastOpus - push.start + (OpusSize + Window)
          BY <2>5, <2>15, <3>1
        <4> HIDE DEF n
        <4>2. QED BY <2>15, <4>1, OpusNoFurther
      <3>2. CASE ShiftOf(push.anchor) <= OpusSize + Window + 1 /\ ms = mapped
        <4> DEFINE m == ShiftOf(push.anchor)
        <4>1. m \in Int /\ m <= OpusSize + Window + 1 /\ ms <= m + (LastOpus - o) - push.start
          BY <2>6, <2>15, <3>2
        <4> HIDE DEF m
        <4>2. QED BY <2>15, <4>1, OpusNoFurther
      <3>3. CASE ms = e
        <4>1. ms <= time - push.start
          BY <2>4, <3>3
        <4>2. QED BY <2>15, <4>1, OpusNoFurther
      <3>4. CASE ms = push.opusPtsIndex
        <4> DEFINE n == push.opusPtsIndex - 1
        <4>1. n \in Int /\ ms <= n + 1 /\ n + o <= LastOpus - push.start + (OpusSize + Window)
          <5> DEFINE x == push.opusPtsIndex
                     y == LastOpus - push.start + (OpusSize + Window)
          <5>1. x \in Int /\ ms = x /\ o \in Int
            BY <2>15, <3>4, Zenon
          <5>2. y \in Int
            BY <2>15
          <5>3. x + o <= y
            BY <2>5, Zenon
          <5> HIDE DEF x, y
          <5>4. x - 1 \in Int /\ ms <= (x - 1) + 1 /\ (x - 1) + o <= y
            BY <5>1, <5>2, <5>3
          <5>5. QED BY <5>4 DEF x, y
        <4> HIDE DEF n
        <4>2. QED BY <2>15, <4>1, OpusNoFurther
      <3>5. QED BY <2>14, <3>1, <3>2, <3>3, <3>4
    <2>17. next + (o - 1) <= LastOpus - push.start + (OpusSize + Window)
      <3> DEFINE bound == LastOpus - push.start + (OpusSize + Window)
      <3>1. bound \in Int /\ push.opusPtsIndex + o <= bound /\ e + o <= bound
        <4>1. push.opusPtsIndex + o <= bound
          BY <2>5
        <4>2. time - push.start + o <= LastOpus - push.start + (OpusSize + Window)
          BY <2>15
        <4>3. QED BY <2>15, <4>1, <4>2
      <3>2. next = push.opusPtsIndex \/ next = index + 1
        BY DEF next
      <3>3. index + o <= bound
        BY <2>8, <3>1
      <3> HIDE DEF bound, next, e
      <3>4. next + (o - 1) <= bound
        <4> DEFINE x == push.opusPtsIndex
        <4>1. x \in Int /\ x + o <= bound /\ (next = x \/ next = index + 1)
          BY <2>15, <3>1, <3>2
        <4> HIDE DEF x
        <4>2. CASE next = x
          BY <2>15, <3>1, <4>1, <4>2
        <4>3. CASE next = index + 1
          BY <2>8, <2>15, <3>1, <3>3, <4>3
        <4>4. QED BY <4>1, <4>2, <4>3
      <3>5. QED BY <3>4 DEF bound
    <2> HIDE DEF prev, next
    <2>18. /\ push'.at = push.at /\ push'.start = push.start /\ push'.anchor = push.anchor
           /\ push'.lastAudioMs = ms /\ push'.opusPrev = prev /\ push'.opusPtsIndex = next
           /\ push'.lastOpusMs = ms
      BY <2>10, <2>11, <2>12, ThreadTags
    <2>19. /\ DueInv' = DueInv /\ LastAudio' = LastAudio /\ LastOpus' = LastOpus /\ LastPicture' = LastPicture
      BY DEF DueInv, LastAudio, LastOpus, LastPicture
    <2>20. AudioForm' /\ PictureForm' /\ (AllFresh => AllFresh')
      BY <2>19 DEF AudioForm, PictureForm, AllFresh
    <2>21. Len(opusQueue') = o - 1
      BY <2>1, <2>11
    <2>22. OpusForm'
      <3>1. \A i \in 1..(o - 1) : Tail(opusQueue)[i] = LastOpus - (o - 1) - 1 + i
        <4> SUFFICES ASSUME NEW i \in 1..(o - 1) PROVE Tail(opusQueue)[i] = LastOpus - (o - 1) - 1 + i
          OBVIOUS
        <4>1. i + 1 \in 1..o /\ i \in Int
          BY <2>1
        <4>2. Tail(opusQueue)[i] = LastOpus - o - 1 + (i + 1)
          BY <2>1, <2>2, <4>1
        <4>3. QED BY <2>1, <4>1, <4>2
      <3>2. o - 1 <= OpusSize
        BY <2>1, <2>2
      <3>3. QED BY <2>11, <2>19, <2>21, <3>1, <3>2 DEF OpusForm
    <2>23. AnchorForm'
      <3>1. ShiftOf(push.anchor)' = ShiftOf(push.anchor)
        BY <2>18 DEF ShiftOf
      <3>2. QED BY <2>18, <3>1 DEF AnchorForm, Lead
    <2>24. AudioAhead' /\ stamps'.ahead <= Lead
      <3> HIDE DEF e
      <3>1. 0 <= ms
        BY <2>4, <2>5, <2>10
      <3>2. push.lastOpusMs' <= push.lastAudioMs' /\ ms <= ms
        BY <2>10, <2>18
      <3>3. /\ ms + Len(opusQueue') <= LastOpus - push.start + Lead
            /\ next + Len(opusQueue') <= LastOpus - push.start + Lead
        BY <2>16, <2>17, <2>21 DEF Lead
      <3>4. AudioAhead'
        BY <2>13, <2>18, <2>19, <3>1, <3>2, <3>3 DEF AudioAhead, Lead
      <3>5. stamps'.ahead <= Lead
        BY <2>11, <2>16 DEF Lead
      <3>6. QED BY <3>4, <3>5 DEF Lead
    <2>25. LinkForm'
      BY <2>18 DEF LeadInv, LinkForm
    <2>26. DueInv' /\ (linked /\ ~push'.anchor.set /\ audioQueue = <<>> => AllFresh')
      BY <2>18, <2>19, <2>20 DEF LeadInv
    <2>27. QED BY <2>20, <2>22, <2>23, <2>24, <2>25, <2>26 DEF LeadInv
  <1>4. QED BY <1>2, <1>3

LEMMA LeadPictureTag ==
  ASSUME QueuesYoung, StampInv, LeadInv, Stamps!PushVideo
  PROVE  LeadInv'
  <1>1. /\ Writes /\ push.at = "video"
        /\ UNCHANGED <<time, due, linked, audioQueue, opusQueue, connsLeft>>
    BY DEF Stamps!PushVideo, Stamps!boundVars, Writes
  <1>2. CASE videoQueue = <<>>
    <2>1. push' = [push EXCEPT !.at = "aac"] /\ UNCHANGED <<videoQueue, stamps>>
      BY <1>2 DEF Stamps!PushVideo
    <2>2. QED BY <1>1, <2>1, LeadGoesOn
  <1>3. CASE videoQueue # <<>>
    <2> DEFINE pts == Head(videoQueue)
               l == Len(videoQueue)
               a == Stamps!Anchored(push.anchor, pts)
               ms == Stamps!Larger(Stamps!Ms(Stamps!Mapped(a, pts)), push.stLastMs + 1)
    <2>0. Taking
      BY <1>1, WhereTagged
    <2> USE <1>1, <2>0 DEF Taking
    <2>1. /\ videoQueue \in Seq(Int) /\ pts \in Int /\ pts = videoQueue[1] /\ l \in Nat /\ l > 0
          /\ Tail(videoQueue) \in Seq(Int) /\ Len(Tail(videoQueue)) = l - 1
          /\ \A i \in 1..(l - 1) : Tail(videoQueue)[i] = videoQueue[i + 1]
      <3>1. videoQueue \in Seq(Int)
        BY DEF StampInv, StampTypes
      <3>2. QED BY <1>3, <3>1, Rest
    <2>2. time - pts >= 1 /\ time - pts <= VideoSize * Interval + 1
      BY <1>3, OldestPicture
    <2> HIDE DEF pts
    <2>3. /\ a \in Anchors /\ a.set /\ ShiftOf(a) \in Int /\ ShiftOf(a) <= time - pts
          /\ ShiftOf(push.anchor) \in Int
          /\ ShiftOf(a) = time - pts \/ (push.anchor.set /\ ShiftOf(a) = ShiftOf(push.anchor))
          /\ push.anchor.set /\ ShiftOf(push.anchor) >= time - pts - Late =>
                 ShiftOf(a) <= ShiftOf(push.anchor)
          /\ Stamps!Mapped(a, pts) \in Int
      <3>1. time \in Int /\ push.start \in Int /\ push.anchor \in Anchors /\ pts \in Int
        BY <2>1
      <3>2. QED BY <3>1, AnchoredShift, AnchoredNotAhead
    <2> HIDE DEF a
    <2>4. ms \in Int
      BY <2>3, ThreadFields DEF Stamps!Larger, Stamps!Ms
    <2>5. /\ videoQueue' = Tail(videoQueue) /\ stamps'.track = "video"
          /\ push' = [push EXCEPT !.at = "aac", !.anchor = a, !.stLastMs = ms]
      BY <1>3 DEF Stamps!PushVideo, Stamps!Tagged, a, pts
    <2> HIDE DEF ms, l
    <2>6. /\ push'.at = "aac" /\ push'.start = push.start /\ push'.anchor = a
          /\ push'.lastAudioMs = push.lastAudioMs /\ push'.opusPrev = push.opusPrev
          /\ push'.opusPtsIndex = push.opusPtsIndex /\ push'.lastOpusMs = push.lastOpusMs
      BY <2>3, <2>4, <2>5, ThreadTags
    <2>7. /\ DueInv' = DueInv /\ LastAudio' = LastAudio /\ LastOpus' = LastOpus /\ LastPicture' = LastPicture
      BY DEF DueInv, LastAudio, LastOpus, LastPicture
    <2>8. AudioForm' /\ OpusForm' /\ AudioAhead'
      BY <2>6, <2>7 DEF AudioForm, OpusForm, AudioAhead
    <2>9. PictureForm'
      <3>1. \A i \in 1..l : videoQueue[i] = LastPicture - 1 - (l - i) * Interval
        BY DEF PictureForm, l
      <3>2. \A i \in 1..(l - 1) : Tail(videoQueue)[i] = LastPicture - 1 - ((l - 1) - i) * Interval
        <4> SUFFICES ASSUME NEW i \in 1..(l - 1)
                     PROVE  Tail(videoQueue)[i] = LastPicture - 1 - ((l - 1) - i) * Interval
          OBVIOUS
        <4>1. i + 1 \in 1..l /\ l - (i + 1) = (l - 1) - i
          BY <2>1
        <4>2. Tail(videoQueue)[i] = videoQueue[i + 1]
          BY <2>1
        <4>3. videoQueue[i + 1] = LastPicture - 1 - (l - (i + 1)) * Interval
          BY <3>1, <4>1
        <4>4. QED BY <4>1, <4>2, <4>3
      <3> DEFINE n == Len(videoQueue')
      <3>3. n = l - 1
        BY <2>1, <2>5 DEF l
      <3> HIDE DEF n
      <3>4. \A i \in 1..n : videoQueue'[i] = LastPicture' - 1 - (n - i) * Interval
        BY <2>1, <2>5, <2>7, <3>2, <3>3
      <3>5. QED BY <3>4, Zenon DEF PictureForm, n
    <2>10. AnchorForm'
      <3>1. ShiftOf(push.anchor)' = ShiftOf(a)
        BY <2>6 DEF ShiftOf
      <3>2. ShiftOf(a) >= 1
        BY <2>1, <2>2, <2>3 DEF AnchorForm
      <3>3. audioQueue = <<>> => ShiftOf(a) <= OpusSize + Window + 1
        <4> SUFFICES ASSUME audioQueue = <<>> PROVE ShiftOf(a) <= OpusSize + Window + 1
          OBVIOUS
        <4> DEFINE v == VideoSize * Interval
        <4>1. v \in Int /\ Late \in Nat
          BY StampAssumption, Multiples
        <4>2. time - pts <= v + 1 /\ (v <= Late \/ v <= OpusSize + Window)
          BY <2>2 DEF QueuesYoung
        <4> HIDE DEF v
        <4>3. CASE ~push.anchor.set
          <5>1. \A i \in 1..l : videoQueue[i] >= LastAudio - 1
            BY <4>3 DEF LeadInv, AllFresh, l
          <5>2. 1 \in 1..l
            BY <2>1
          <5>3. pts >= LastAudio - 1
            BY <2>1, <5>1, <5>2
          <5>4. QED BY <2>1, <2>3, <5>3
        <4>4. CASE push.anchor.set
          <5>1. ShiftOf(push.anchor) >= 1 /\ ShiftOf(push.anchor) <= OpusSize + Window + 1
            BY <4>4 DEF AnchorForm
          <5>2. CASE ShiftOf(push.anchor) >= time - pts - Late
            BY <2>1, <2>3, <4>4, <5>1, <5>2
          <5>3. CASE ~(ShiftOf(push.anchor) >= time - pts - Late)
            <6>1. time - pts - Late > 1
              BY <2>1, <2>3, <4>1, <5>1, <5>3
            <6>2. v <= OpusSize + Window
              BY <2>1, <4>1, <4>2, <6>1
            <6>3. QED BY <2>1, <2>3, <4>1, <4>2, <6>2
          <5>4. QED BY <5>2, <5>3
        <4>5. QED BY <4>3, <4>4
      <3>4. QED BY <2>6, <3>1, <3>2, <3>3 DEF AnchorForm, Lead
    <2>11. LinkForm'
      BY <2>6 DEF LeadInv, LinkForm
    <2>12. DueInv' /\ push'.anchor.set
      BY <2>3, <2>6, <2>7 DEF LeadInv
    <2>13. QED BY <2>5, <2>8, <2>9, <2>10, <2>11, <2>12 DEF LeadInv
  <1>4. QED BY <1>2, <1>3

LEMMA LeadStep ==
  ASSUME QueuesYoung, StampInv, LeadInv, [Stamps!Next]_stampVars
  PROVE  LeadInv'
  <1>1. CASE Stamps!Tick \/ Stamps!EnqueueAudio \/ Stamps!EnqueueOpus \/ Stamps!EnqueueVideo
    BY <1>1, LeadTick, LeadAudio, LeadOpus, LeadPicture
  <1>2. CASE Stamps!Connect \/ Stamps!Start \/ Stamps!Lose \/ Stamps!Block \/ Stamps!Unblock
    <2>1. UNCHANGED <<time, due, audioQueue, opusQueue, videoQueue>>
      BY <1>2 DEF Stamps!Connect, Stamps!Start, Stamps!Lose, Stamps!Block, Stamps!Unblock,
                  Stamps!queueVars
    <2>2. QED BY <1>2, <2>1, LeadConnection
  <1>3. CASE Stamps!PushAac \/ Stamps!PushOpus \/ Stamps!PushVideo
    BY <1>3, LeadAac, LeadOpusTag, LeadPictureTag
  <1>4. CASE UNCHANGED stampVars
    <2>1. UNCHANGED <<time, due, linked, audioQueue, opusQueue, videoQueue, push, stamps, connsLeft>>
      BY <1>4 DEF stampVars
    <2>2. /\ DueInv' = DueInv /\ LastAudio' = LastAudio /\ LastOpus' = LastOpus /\ LastPicture' = LastPicture
      BY <2>1 DEF DueInv, LastAudio, LastOpus, LastPicture
    <2>3. /\ AudioForm' = AudioForm /\ OpusForm' = OpusForm /\ PictureForm' = PictureForm
          /\ AllFresh' = AllFresh /\ AnchorForm' = AnchorForm /\ AudioAhead' = AudioAhead
          /\ LinkForm' = LinkForm /\ Writes' = Writes
      BY <2>1, <2>2 DEF AudioForm, OpusForm, PictureForm, AllFresh, AnchorForm, ShiftOf, AudioAhead,
                        LinkForm, Writes
    <2>4. QED BY <2>1, <2>2, <2>3 DEF LeadInv
  <1>5. QED BY <1>1, <1>2, <1>3, <1>4 DEF Stamps!Next

LEMMA LeadInitial == OneLink /\ DeviceInit => LeadInv
  <1> SUFFICES ASSUME OneLink, DeviceInit PROVE LeadInv
    OBVIOUS
  <1>1. /\ time = 2 * Window /\ due = {} /\ audioQueue = <<>> /\ opusQueue = <<>> /\ videoQueue = <<>>
        /\ linked = FALSE /\ push = Stamps!NoThread /\ stamps = Stamps!NoTags /\ connsLeft = MaxStampConns
    BY PartInit DEF Stamps!Init
  <1>2. push.at = "none"
    BY <1>1, FreshThread
  <1>3. DueInv /\ LinkForm /\ ~Writes /\ ~linked
    BY <1>1, <1>2 DEF DueInv, LinkForm, OneLink, Writes
  <1>4. stamps.ahead <= Lead
    BY <1>1, StampAssumption DEF Stamps!NoTags, Lead
  <1>5. QED BY <1>3, <1>4 DEF LeadInv

\* FlvPush.cpp:646, 663: however long its writes block, a tag of a connection that finds
\* its queues empty is stamped at most one full queue of its track after the time at which
\* it is written, for any sizes of the queues and rates of packets, provided that a full
\* queue of pictures is no older than the Opus queue is long, or than the anchor may be.
THEOREM LeadBoundedHolds == OneLink /\ QueuesYoung => (DeviceSpec => []LeadBounded)
  <1> SUFFICES ASSUME OneLink, QueuesYoung PROVE DeviceSpec => []LeadBounded
    OBVIOUS
  <1>1. DeviceInit => StampInv /\ LeadInv
    BY StampInitial, LeadInitial
  <1>2. StampInv /\ LeadInv /\ [DeviceNext]_deviceVars => StampInv' /\ LeadInv'
    BY PartStep, StampStep, LeadStep
  <1>3. StampInv /\ LeadInv => LeadBounded
    BY DEF StampInv, LeadInv, Lead, LeadBounded, Stamps!LeadBounded
  <1>4. QED BY <1>1, <1>2, <1>3, PTL DEF DeviceSpec

----------------------------------------------------------------------------
(* Motion events. *)

Edges == {"start", "stop"}
Events == [edge : Edges, id : Nat]
Goroutines == [pc : {"unborn", "top", "backoff", "check", "receive", "wait", "stuck", "send", "off"},
               event : [edge : {"none", "start", "stop"}, id : Nat]]

Within(s, e) == \E i \in 1..Len(s) : s[i] = e

\* One connection: the events s it has been sent, those the watcher and the failsafe
\* are about to send, w and f, and its motionState, a and n.  The events sent and
\* about to be sent are distinct and numbered up to n, and a stop is not about to
\* overtake anything but the start the watcher holds.
Paired(s, w, f, a, n) ==
    /\ \A j \in 1..Len(s) : \A i \in 1..(j - 1) : s[i] # s[j]
    /\ w \in Events => ~Within(s, w) /\ f # w
    /\ f \in Events => ~Within(s, f)
    /\ \A e \in Events : Within(s, e) \/ e = w \/ e = f =>
        /\ e.edge = "start" => e.id < n \/ (e.id = n /\ a)
        /\ e.edge = "stop" => e.id < n /\ (Within(s, [edge |-> "start", id |-> e.id])
                                           \/ w = [edge |-> "start", id |-> e.id])
    /\ a => Within(s, [edge |-> "start", id |-> n]) \/ w = [edge |-> "start", id |-> n]

LEMMA UnsentIsNoEvent == Motion!Unsent \notin Events
  BY DEF Motion!Unsent, Events, Edges

LEMMA AppendWithin ==
  ASSUME NEW s \in Seq(Events), NEW w \in Events
  PROVE  /\ Append(s, w) \in Seq(Events) /\ Len(Append(s, w)) = Len(s) + 1 /\ Len(s) \in Nat
         /\ \A i \in 1..Len(s) : Append(s, w)[i] = s[i]
         /\ Append(s, w)[Len(s) + 1] = w
         /\ \A e : Within(Append(s, w), e) <=> Within(s, e) \/ e = w
  <1>1. /\ Append(s, w) \in Seq(Events) /\ Len(Append(s, w)) = Len(s) + 1 /\ Len(s) \in Nat
        /\ \A i \in 1..Len(s) : Append(s, w)[i] = s[i]
        /\ Append(s, w)[Len(s) + 1] = w
    OBVIOUS
  <1>2. ASSUME NEW e, Within(Append(s, w), e) PROVE Within(s, e) \/ e = w
    <2>1. PICK i \in 1..(Len(s) + 1) : Append(s, w)[i] = e
      BY <1>1, <1>2 DEF Within
    <2>2. CASE i = Len(s) + 1
      BY <1>1, <2>1, <2>2
    <2>3. CASE i # Len(s) + 1
      <3>1. i \in 1..Len(s)
        BY <1>1, <2>3
      <3>2. QED BY <1>1, <2>1, <3>1 DEF Within
    <2>4. QED BY <2>2, <2>3
  <1>3. ASSUME NEW e, Within(s, e) \/ e = w PROVE Within(Append(s, w), e)
    <2>1. CASE Within(s, e)
      <3>1. PICK i \in 1..Len(s) : s[i] = e
        BY <2>1 DEF Within
      <3>2. i \in 1..Len(Append(s, w)) /\ Append(s, w)[i] = e
        BY <1>1, <3>1
      <3>3. QED BY <3>2 DEF Within
    <2>2. CASE e = w
      <3>1. Len(s) + 1 \in 1..Len(Append(s, w))
        BY <1>1
      <3>2. QED BY <1>1, <2>2, <3>1 DEF Within
    <2>3. QED BY <1>3, <2>1, <2>2
  <1>4. QED BY <1>1, <1>2, <1>3

LEMMA WatcherStarts ==
  ASSUME NEW s, NEW w, NEW f, NEW n \in Nat, Paired(s, w, f, FALSE, n), w \notin Events
  PROVE  Paired(s, [edge |-> "start", id |-> n], f, TRUE, n)
  <1> DEFINE e0 == [edge |-> "start", id |-> n]
  <1>1. e0 \in Events /\ e0.edge = "start" /\ e0.id = n
    BY DEF Events, Edges
  <1>2. ~Within(s, e0) /\ f # e0
    BY <1>1 DEF Paired
  <1> HIDE DEF e0
  <1>3. ASSUME NEW e \in Events, Within(s, e) \/ e = e0 \/ e = f
        PROVE  /\ e.edge = "start" => e.id < n \/ (e.id = n /\ TRUE)
               /\ e.edge = "stop" => e.id < n /\ (Within(s, [edge |-> "start", id |-> e.id])
                                                  \/ e0 = [edge |-> "start", id |-> e.id])
    <2>1. CASE e = e0
      BY <1>1, <2>1
    <2>2. CASE e # e0
      <3>1. [edge |-> "start", id |-> e.id] \in Events
        BY DEF Events, Edges
      <3>2. QED BY <1>3, <2>2, <3>1 DEF Paired
    <2>3. QED BY <2>1, <2>2
  <1>4. QED BY <1>1, <1>2, <1>3 DEF Paired, e0

\* The stop of the active event, by the watcher or by the failsafe.
LEMMA WatcherStops ==
  ASSUME NEW s, NEW w, NEW f, NEW n \in Nat, Paired(s, w, f, TRUE, n), w \notin Events
  PROVE  Paired(s, [edge |-> "stop", id |-> n], f, FALSE, n + 1)
  <1> DEFINE e0 == [edge |-> "stop", id |-> n]
  <1>1. e0 \in Events /\ e0.edge = "stop" /\ e0.id = n
    BY DEF Events, Edges
  <1>2. ~Within(s, e0) /\ f # e0
    BY <1>1 DEF Paired
  <1>3. Within(s, [edge |-> "start", id |-> n])
    <2>1. [edge |-> "start", id |-> n] \in Events
      BY DEF Events, Edges
    <2>2. QED BY <2>1 DEF Paired
  <1> HIDE DEF e0
  <1>4. ASSUME NEW e \in Events, Within(s, e) \/ e = e0 \/ e = f
        PROVE  /\ e.edge = "start" => e.id < n + 1 \/ (e.id = n + 1 /\ FALSE)
               /\ e.edge = "stop" => e.id < n + 1 /\ (Within(s, [edge |-> "start", id |-> e.id])
                                                      \/ e0 = [edge |-> "start", id |-> e.id])
    <2>1. CASE e = e0
      BY <1>1, <1>3, <2>1
    <2>2. CASE e # e0
      <3>1. [edge |-> "start", id |-> e.id] \in Events /\ e.id \in Nat
        BY DEF Events, Edges
      <3>2. /\ e.edge = "start" => e.id < n \/ e.id = n
            /\ e.edge = "stop" => e.id < n /\ Within(s, [edge |-> "start", id |-> e.id])
        BY <1>4, <2>2, <3>1 DEF Paired
      <3>3. QED BY <3>1, <3>2
    <2>3. QED BY <2>1, <2>2
  <1>5. QED BY <1>1, <1>2, <1>4 DEF Paired, e0

LEMMA FailsafeStops ==
  ASSUME NEW s, NEW w, NEW f, NEW n \in Nat, Paired(s, w, f, TRUE, n), f \notin Events
  PROVE  Paired(s, w, [edge |-> "stop", id |-> n], FALSE, n + 1)
  <1> DEFINE e0 == [edge |-> "stop", id |-> n]
  <1>1. e0 \in Events /\ e0.edge = "stop" /\ e0.id = n
    BY DEF Events, Edges
  <1>2. ~Within(s, e0) /\ w # e0
    BY <1>1 DEF Paired
  <1> HIDE DEF e0
  <1>3. ASSUME NEW e \in Events, Within(s, e) \/ e = w \/ e = e0
        PROVE  /\ e.edge = "start" => e.id < n + 1 \/ (e.id = n + 1 /\ FALSE)
               /\ e.edge = "stop" => e.id < n + 1 /\ (Within(s, [edge |-> "start", id |-> e.id])
                                                      \/ w = [edge |-> "start", id |-> e.id])
    <2>1. CASE e = e0
      BY <1>1, <2>1 DEF Paired
    <2>2. CASE e # e0
      <3>1. e.id \in Nat
        BY DEF Events
      <3>2. /\ e.edge = "start" => e.id < n \/ e.id = n
            /\ e.edge = "stop" => e.id < n /\ (Within(s, [edge |-> "start", id |-> e.id])
                                               \/ w = [edge |-> "start", id |-> e.id])
        BY <1>3, <2>2, <3>1 DEF Paired
      <3>3. QED BY <3>1, <3>2
    <2>3. QED BY <2>1, <2>2
  <1>4. QED BY <1>1, <1>2, <1>3 DEF Paired, e0

\* What was about to be sent is sent.
LEMMA SendsPaired ==
  ASSUME NEW s \in Seq(Events), NEW w, NEW f, NEW a \in BOOLEAN, NEW n \in Nat,
         Paired(s, w, f, a, n)
  PROVE  /\ w \in Events => Paired(Append(s, w), Motion!Unsent, f, a, n)
         /\ f \in Events => Paired(Append(s, f), w, Motion!Unsent, a, n)
  <1>1. ASSUME NEW e \in Events, e = w \/ e = f
        PROVE  \A j \in 1..Len(Append(s, e)) : \A i \in 1..(j - 1) : Append(s, e)[i] # Append(s, e)[j]
    <2>1. ~Within(s, e)
      BY <1>1 DEF Paired
    <2>2. SUFFICES ASSUME NEW j \in 1..(Len(s) + 1), NEW i \in 1..(j - 1)
                   PROVE  Append(s, e)[i] # Append(s, e)[j]
      BY AppendWithin
    <2>3. i \in 1..Len(s) /\ Append(s, e)[i] = s[i]
      BY AppendWithin
    <2>4. CASE j = Len(s) + 1
      BY <2>1, <2>3, <2>4, AppendWithin DEF Within
    <2>5. CASE j # Len(s) + 1
      <3>1. j \in 1..Len(s)
        BY <2>5, AppendWithin
      <3>2. Append(s, e)[j] = s[j]
        BY <3>1, AppendWithin
      <3>3. QED BY <2>3, <3>1, <3>2 DEF Paired
    <2>6. QED BY <2>4, <2>5
  <1>2. ASSUME w \in Events PROVE Paired(Append(s, w), Motion!Unsent, f, a, n)
    <2>1. \A e : Within(Append(s, w), e) <=> Within(s, e) \/ e = w
      BY <1>2, AppendWithin
    <2>2. QED BY <1>1, <1>2, <2>1, UnsentIsNoEvent DEF Paired
  <1>3. ASSUME f \in Events PROVE Paired(Append(s, f), w, Motion!Unsent, a, n)
    <2>1. \A e : Within(Append(s, f), e) <=> Within(s, e) \/ e = f
      BY <1>3, AppendWithin
    <2>2. QED BY <1>1, <1>3, <2>1, UnsentIsNoEvent DEF Paired
  <1>4. QED BY <1>2, <1>3

MotionTypes ==
    /\ queue \in Seq(Edges)
    /\ st \in [Motion!Conns -> [active : BOOLEAN, eventID : Nat, old : BOOLEAN]]
    /\ watcher \in [Motion!Conns -> Goroutines] /\ failsafe \in [Motion!Conns -> Goroutines]
    /\ sent \in [Motion!Conns -> Seq(Events)]

\* Only a goroutine that is sending has an event; a connection that has not been
\* opened has nothing.
AtRest(c) ==
    /\ IF watcher[c].pc = "send" THEN watcher[c].event \in Events ELSE watcher[c].event = Motion!Unsent
    /\ IF failsafe[c].pc = "send" THEN failsafe[c].event \in Events ELSE failsafe[c].event = Motion!Unsent
    /\ watcher[c].pc = "unborn" =>
          failsafe[c].pc = "unborn" /\ sent[c] = <<>> /\ ~st[c].active

PairedOn(c) == Paired(sent[c], watcher[c].event, failsafe[c].event, st[c].active, st[c].eventID)

\* Connections are opened in turn; events are paired on the one there is.
MotionInv ==
    /\ MotionTypes
    /\ \A c \in Motion!Conns : AtRest(c)
    /\ \E k \in 0..MaxConns : Motion!Opened = 1..k
    /\ live # 0 => live \in Motion!Opened /\ PairedOn(live)

\* A step of connection c's goroutines: the others keep what they have.
LEMMA OwnStep ==
  ASSUME MotionInv, NEW c \in Motion!Conns, MotionTypes', live' = live,
         \A d \in Motion!Conns \ {c} :
            /\ st'[d] = st[d] /\ watcher'[d] = watcher[d] /\ failsafe'[d] = failsafe[d]
            /\ sent'[d] = sent[d],
         watcher[c].pc # "unborn", watcher'[c].pc # "unborn", AtRest(c)',
         c = live => PairedOn(c)'
  PROVE  MotionInv'
  <1>1. \A d \in Motion!Conns : AtRest(d)'
    <2> SUFFICES ASSUME NEW d \in Motion!Conns, d # c PROVE AtRest(d)'
      OBVIOUS
    <2>1. AtRest(d)
      BY DEF MotionInv
    <2>2. QED BY <2>1 DEF AtRest
  <1>2. Motion!Opened' = Motion!Opened
    BY DEF Motion!Opened
  <1>3. live # 0 => PairedOn(live)'
    <2>1. live # 0 => live \in Motion!Conns
      BY DEF MotionInv, Motion!Opened
    <2>2. live # 0 /\ live # c => PairedOn(live)'
      BY <2>1 DEF MotionInv, PairedOn
    <2>3. QED BY <2>2
  <1>4. QED BY <1>1, <1>2, <1>3 DEF MotionInv, PairedOn

\* Born goroutines are those of an opened connection.
LEMMA MotionFields ==
  ASSUME MotionInv, NEW c \in Motion!Conns
  PROVE  /\ watcher[c] \in Goroutines /\ failsafe[c] \in Goroutines /\ sent[c] \in Seq(Events)
         /\ st[c] \in [active : BOOLEAN, eventID : Nat, old : BOOLEAN]
         /\ st[c].active \in BOOLEAN /\ st[c].eventID \in Nat
         /\ AtRest(c)
         /\ failsafe[c].pc # "unborn" => watcher[c].pc # "unborn"
         /\ st[c].active => watcher[c].pc # "unborn"
         /\ c = live => PairedOn(c)
  <1>1. AtRest(c) /\ (c = live => PairedOn(c))
    BY DEF MotionInv, Motion!Conns
  <1>2. QED BY <1>1 DEF MotionInv, MotionTypes, AtRest

LEMMA WatcherLoops ==
  ASSUME MotionInv, NEW c \in Motion!Conns, watcher[c].pc \notin {"unborn", "send"},
         NEW pc \in {"top", "check", "backoff", "receive", "off"}, Motion!WatcherGo(c, pc),
         queue' \in Seq(Edges), UNCHANGED <<live, st, failsafe, sent>>
  PROVE  MotionInv'
  <1> DEFINE r == [Motion!Unborn EXCEPT !.pc = pc]
  <1>1. /\ r \in Goroutines /\ r.pc = pc /\ r.event = Motion!Unsent
    BY DEF Motion!Unborn, Motion!Unsent, Goroutines
  <1>2. watcher' = [watcher EXCEPT ![c] = r]
    BY DEF Motion!WatcherGo
  <1> HIDE DEF r
  <1>3. /\ watcher' \in [Motion!Conns -> Goroutines] /\ watcher'[c] = r
        /\ \A d \in Motion!Conns \ {c} : watcher'[d] = watcher[d]
    BY <1>1, <1>2 DEF MotionInv, MotionTypes
  <1>4. watcher[c].event = Motion!Unsent
    BY MotionFields DEF AtRest
  <1>5. AtRest(c)' /\ watcher'[c].pc # "unborn"
    BY <1>1, <1>3, MotionFields DEF AtRest
  <1>6. c = live => PairedOn(c)'
    BY <1>1, <1>3, <1>4, MotionFields DEF PairedOn
  <1>7. MotionTypes'
    BY <1>3 DEF MotionInv, MotionTypes
  <1>8. QED BY <1>3, <1>5, <1>6, <1>7, OwnStep

LEMMA FailsafeLoops ==
  ASSUME MotionInv, NEW c \in Motion!Conns, failsafe[c].pc \notin {"unborn", "send"},
         NEW pc \in {"wait", "stuck", "off"}, Motion!FailsafeGo(c, pc),
         UNCHANGED <<queue, live, st, watcher, sent>>
  PROVE  MotionInv'
  <1> DEFINE r == [Motion!Unborn EXCEPT !.pc = pc]
  <1>1. /\ r \in Goroutines /\ r.pc = pc /\ r.event = Motion!Unsent
    BY DEF Motion!Unborn, Motion!Unsent, Goroutines
  <1>2. failsafe' = [failsafe EXCEPT ![c] = r]
    BY DEF Motion!FailsafeGo
  <1> HIDE DEF r
  <1>3. /\ failsafe' \in [Motion!Conns -> Goroutines] /\ failsafe'[c] = r
        /\ \A d \in Motion!Conns \ {c} : failsafe'[d] = failsafe[d]
    BY <1>1, <1>2 DEF MotionInv, MotionTypes
  <1>4. failsafe[c].event = Motion!Unsent /\ watcher[c].pc # "unborn"
    BY MotionFields DEF AtRest
  <1>5. AtRest(c)'
    BY <1>1, <1>3, <1>4, MotionFields DEF AtRest
  <1>6. c = live => PairedOn(c)'
    BY <1>1, <1>3, <1>4, MotionFields DEF PairedOn
  <1>7. MotionTypes'
    BY <1>3 DEF MotionInv, MotionTypes
  <1>8. QED BY <1>3, <1>4, <1>5, <1>6, <1>7, OwnStep

\* motionState after a start and after a stop.
LEMMA StateUpdates ==
  ASSUME MotionInv, NEW c \in Motion!Conns
  PROVE  /\ st' = Motion!Started(c) =>
            /\ st' \in [Motion!Conns -> [active : BOOLEAN, eventID : Nat, old : BOOLEAN]]
            /\ st'[c].active = TRUE /\ st'[c].eventID = st[c].eventID
            /\ \A d \in Motion!Conns \ {c} : st'[d] = st[d]
         /\ st' = Motion!Stopped(c) =>
            /\ st' \in [Motion!Conns -> [active : BOOLEAN, eventID : Nat, old : BOOLEAN]]
            /\ st'[c].active = FALSE /\ st'[c].eventID = st[c].eventID + 1
            /\ \A d \in Motion!Conns \ {c} : st'[d] = st[d]
  <1> DEFINE S == [active : BOOLEAN, eventID : Nat, old : BOOLEAN]
             r1 == [[st[c] EXCEPT !.active = TRUE] EXCEPT !.old = FALSE]
             r2 == [[st[c] EXCEPT !.active = FALSE] EXCEPT !.eventID = st[c].eventID + 1]
  <1>1. st \in [Motion!Conns -> S] /\ st[c] \in S
    BY DEF MotionInv, MotionTypes
  <1>2. r1 \in S /\ r1.active = TRUE /\ r1.eventID = st[c].eventID
    BY <1>1
  <1>3. r2 \in S /\ r2.active = FALSE /\ r2.eventID = st[c].eventID + 1
    <2> DEFINE q == [st[c] EXCEPT !.active = FALSE]
               n == st[c].eventID + 1
    <2>1. q \in S /\ q.active = FALSE
      BY <1>1
    <2>2. n \in Nat
      BY MotionFields
    <2>3. r2 = [q EXCEPT !.eventID = n]
      OBVIOUS
    <2> HIDE DEF q, n, r2
    <2>4. r2 \in S /\ r2.active = FALSE /\ r2.eventID = n
      BY <2>1, <2>2, <2>3
    <2>5. QED BY <2>4 DEF n
  <1>4. ASSUME st' = Motion!Started(c) PROVE st' = [st EXCEPT ![c] = r1]
    BY <1>1, <1>4 DEF Motion!Started
  <1>5. ASSUME st' = Motion!Stopped(c) PROVE st' = [st EXCEPT ![c] = r2]
    BY <1>1, <1>5 DEF Motion!Stopped
  <1> HIDE DEF S, r1, r2
  <1>6. ASSUME st' = Motion!Started(c)
        PROVE  /\ st' \in [Motion!Conns -> S] /\ st'[c] = r1
               /\ \A d \in Motion!Conns \ {c} : st'[d] = st[d]
    BY <1>1, <1>2, <1>4, <1>6
  <1>7. ASSUME st' = Motion!Stopped(c)
        PROVE  /\ st' \in [Motion!Conns -> S] /\ st'[c] = r2
               /\ \A d \in Motion!Conns \ {c} : st'[d] = st[d]
    BY <1>1, <1>3, <1>5, <1>7
  <1>8. QED BY <1>2, <1>3, <1>6, <1>7 DEF S

\* The watcher takes a message that starts or stops an event.
LEMMA WatcherTakes ==
  ASSUME MotionInv, NEW c \in Motion!Conns, Motion!Receive(c),
         (Head(queue) = "start") # st[c].active
  PROVE  MotionInv'
  <1> DEFINE e == [edge |-> Head(queue), id |-> st[c].eventID]
             r == [pc |-> "send", event |-> e]
  <1>1. /\ watcher[c].pc = "receive" /\ queue # <<>> /\ queue' = Tail(queue)
        /\ UNCHANGED <<live, failsafe, sent>>
        /\ watcher' = [watcher EXCEPT ![c] = r]
        /\ st' = IF Head(queue) = "start" THEN Motion!Started(c) ELSE Motion!Stopped(c)
    BY DEF Motion!Receive
  <1>2. Head(queue) \in Edges /\ queue' \in Seq(Edges)
    BY <1>1 DEF MotionInv, MotionTypes
  <1>3. e \in Events /\ st[c].active \in BOOLEAN /\ st[c].eventID \in Nat
    BY <1>2, MotionFields DEF Events
  <1>4. r \in Goroutines /\ r.pc = "send" /\ r.event = e
    BY <1>2, <1>3 DEF Goroutines, Edges
  <1>5. watcher[c].event \notin Events
    BY <1>1, MotionFields, UnsentIsNoEvent DEF AtRest
  <1> HIDE DEF r
  <1>6. /\ watcher' \in [Motion!Conns -> Goroutines] /\ watcher'[c] = r
        /\ \A d \in Motion!Conns \ {c} : watcher'[d] = watcher[d]
    BY <1>1, <1>4 DEF MotionInv, MotionTypes
  <1>7. AtRest(c)' /\ watcher'[c].pc # "unborn"
    BY <1>1, <1>3, <1>4, <1>6, MotionFields DEF AtRest
  <1>8. CASE Head(queue) = "start" /\ ~st[c].active
    <2>1. /\ st' \in [Motion!Conns -> [active : BOOLEAN, eventID : Nat, old : BOOLEAN]]
          /\ st'[c].active = TRUE /\ st'[c].eventID = st[c].eventID
          /\ \A d \in Motion!Conns \ {c} : st'[d] = st[d]
      BY <1>1, <1>8, StateUpdates
    <2>2. c = live => PairedOn(c)'
      <3> SUFFICES ASSUME c = live PROVE PairedOn(c)'
        OBVIOUS
      <3>1. Paired(sent[c], watcher[c].event, failsafe[c].event, FALSE, st[c].eventID)
        BY <1>3, <1>8, MotionFields DEF PairedOn, Paired
      <3>2. Paired(sent[c], [edge |-> "start", id |-> st[c].eventID], failsafe[c].event, TRUE,
                   st[c].eventID)
        BY <1>3, <1>5, <3>1, WatcherStarts
      <3>3. /\ watcher'[c].event = [edge |-> "start", id |-> st[c].eventID]
            /\ sent'[c] = sent[c] /\ failsafe'[c].event = failsafe[c].event
        BY <1>1, <1>4, <1>6, <1>8
      <3>4. st'[c].active = TRUE /\ st'[c].eventID = st[c].eventID
        BY <2>1
      <3>5. QED BY <3>2, <3>3, <3>4, Zenon DEF PairedOn
    <2>3. MotionTypes'
      BY <1>1, <1>2, <1>6, <2>1 DEF MotionInv, MotionTypes
    <2>4. QED BY <1>1, <1>6, <1>7, <2>1, <2>2, <2>3, OwnStep
  <1>9. CASE Head(queue) = "stop" /\ st[c].active
    <2>1. /\ st' \in [Motion!Conns -> [active : BOOLEAN, eventID : Nat, old : BOOLEAN]]
          /\ st'[c].active = FALSE /\ st'[c].eventID = st[c].eventID + 1
          /\ \A d \in Motion!Conns \ {c} : st'[d] = st[d]
      BY <1>1, <1>9, StateUpdates
    <2>2. c = live => PairedOn(c)'
      <3> SUFFICES ASSUME c = live PROVE PairedOn(c)'
        OBVIOUS
      <3>1. Paired(sent[c], watcher[c].event, failsafe[c].event, TRUE, st[c].eventID)
        BY <1>3, <1>9, MotionFields DEF PairedOn, Paired
      <3>2. Paired(sent[c], [edge |-> "stop", id |-> st[c].eventID], failsafe[c].event, FALSE,
                   st[c].eventID + 1)
        BY <1>3, <1>5, <3>1, WatcherStops
      <3>3. /\ watcher'[c].event = [edge |-> "stop", id |-> st[c].eventID]
            /\ sent'[c] = sent[c] /\ failsafe'[c].event = failsafe[c].event
        BY <1>1, <1>4, <1>6, <1>9
      <3>4. st'[c].active = FALSE /\ st'[c].eventID = st[c].eventID + 1
        BY <2>1
      <3>5. QED BY <3>2, <3>3, <3>4, Zenon DEF PairedOn
    <2>3. MotionTypes'
      BY <1>1, <1>2, <1>6, <2>1 DEF MotionInv, MotionTypes
    <2>4. QED BY <1>1, <1>6, <1>7, <2>1, <2>2, <2>3, OwnStep
  <1>10. QED BY <1>2, <1>3, <1>8, <1>9 DEF Edges

LEMMA FailsafeTakes ==
  ASSUME MotionInv, NEW c \in Motion!Conns, Motion!FailsafeStop(c), st[c].active
  PROVE  MotionInv'
  <1> DEFINE e == [edge |-> "stop", id |-> st[c].eventID]
             r == [pc |-> "send", event |-> e]
  <1>1. /\ failsafe[c].pc = "stuck" /\ UNCHANGED <<queue, live, watcher, sent>>
        /\ failsafe' = [failsafe EXCEPT ![c] = r] /\ st' = Motion!Stopped(c)
    BY DEF Motion!FailsafeStop
  <1>2. e \in Events /\ st[c].eventID \in Nat
    BY MotionFields DEF Events, Edges
  <1>3. r \in Goroutines /\ r.pc = "send" /\ r.event = e
    BY <1>2 DEF Goroutines
  <1>4. failsafe[c].event \notin Events /\ watcher[c].pc # "unborn"
    BY <1>1, MotionFields, UnsentIsNoEvent DEF AtRest
  <1> HIDE DEF r
  <1>5. /\ failsafe' \in [Motion!Conns -> Goroutines] /\ failsafe'[c] = r
        /\ \A d \in Motion!Conns \ {c} : failsafe'[d] = failsafe[d]
    BY <1>1, <1>3 DEF MotionInv, MotionTypes
  <1>6. AtRest(c)'
    BY <1>1, <1>2, <1>3, <1>4, <1>5, MotionFields DEF AtRest
  <1>7. /\ st' \in [Motion!Conns -> [active : BOOLEAN, eventID : Nat, old : BOOLEAN]]
        /\ st'[c].active = FALSE /\ st'[c].eventID = st[c].eventID + 1
        /\ \A d \in Motion!Conns \ {c} : st'[d] = st[d]
    BY <1>1, StateUpdates
  <1>8. c = live => PairedOn(c)'
    <2> SUFFICES ASSUME c = live PROVE PairedOn(c)'
      OBVIOUS
    <2>1. Paired(sent[c], watcher[c].event, failsafe[c].event, TRUE, st[c].eventID)
      BY MotionFields DEF PairedOn, Paired
    <2>2. Paired(sent[c], watcher[c].event, e, FALSE, st[c].eventID + 1)
      BY <1>2, <1>4, <2>1, FailsafeStops
    <2>3. QED BY <1>1, <1>3, <1>5, <1>7, <2>2 DEF PairedOn
  <1>9. MotionTypes'
    BY <1>1, <1>5, <1>7 DEF MotionInv, MotionTypes
  <1>10. QED BY <1>1, <1>4, <1>5, <1>6, <1>7, <1>8, <1>9, OwnStep

\* A send on a connection that is gone changes nothing on the one there is.
LEMMA SendStep ==
  ASSUME MotionInv, NEW c \in Motion!Conns, Motion!WatcherSend(c) \/ Motion!FailsafeSend(c)
  PROVE  MotionInv'
  <1> DEFINE w == [Motion!Unborn EXCEPT !.pc = "check"]
             f == [Motion!Unborn EXCEPT !.pc = "wait"]
  <1>1. /\ w \in Goroutines /\ w.pc = "check" /\ w.event = Motion!Unsent
        /\ f \in Goroutines /\ f.pc = "wait" /\ f.event = Motion!Unsent
    BY DEF Motion!Unborn, Motion!Unsent, Goroutines
  <1>2. UNCHANGED <<queue, live, st>> /\ watcher[c].pc # "unborn"
    BY MotionFields DEF Motion!WatcherSend, Motion!FailsafeSend
  <1>3. /\ Motion!WatcherSend(c) => watcher' = [watcher EXCEPT ![c] = w] /\ failsafe' = failsafe
                                    /\ Motion!Report(c, watcher[c].event)
        /\ Motion!FailsafeSend(c) => failsafe' = [failsafe EXCEPT ![c] = f] /\ watcher' = watcher
                                     /\ Motion!Report(c, failsafe[c].event)
    BY DEF Motion!WatcherSend, Motion!FailsafeSend, Motion!WatcherGo, Motion!FailsafeGo
  <1> HIDE DEF w, f
  <1>4. /\ watcher' \in [Motion!Conns -> Goroutines] /\ failsafe' \in [Motion!Conns -> Goroutines]
        /\ \A d \in Motion!Conns \ {c} : watcher'[d] = watcher[d] /\ failsafe'[d] = failsafe[d]
    <2>1. watcher \in [Motion!Conns -> Goroutines] /\ failsafe \in [Motion!Conns -> Goroutines]
      BY DEF MotionInv, MotionTypes
    <2>2. CASE Motion!WatcherSend(c)
      BY <1>1, <1>3, <2>1, <2>2
    <2>3. CASE Motion!FailsafeSend(c)
      BY <1>1, <1>3, <2>1, <2>3
    <2>4. QED BY <2>2, <2>3
  <1>5. /\ Motion!WatcherSend(c) => watcher'[c] = w /\ failsafe'[c] = failsafe[c]
        /\ Motion!FailsafeSend(c) => failsafe'[c] = f /\ watcher'[c] = watcher[c]
    BY <1>3 DEF MotionInv, MotionTypes
  <1>6. AtRest(c)' /\ watcher'[c].pc # "unborn"
    BY <1>1, <1>2, <1>5, MotionFields DEF AtRest
  <1>7. CASE c # live
    <2>1. sent' = sent
      BY <1>3, <1>7 DEF Motion!Report, Motion!Done
    <2>2. MotionTypes'
      BY <1>2, <1>4, <2>1 DEF MotionInv, MotionTypes
    <2>3. QED BY <1>2, <1>4, <1>6, <1>7, <2>1, <2>2, OwnStep
  <1>8. ASSUME c = live, NEW e, e \in Events, sent' = [sent EXCEPT ![c] = Append(sent[c], e)],
               Paired(Append(sent[c], e), watcher'[c].event, failsafe'[c].event,
                      st[c].active, st[c].eventID)
        PROVE  MotionInv'
    <2>1. Append(sent[c], e) \in Seq(Events)
      BY <1>8, MotionFields, AppendWithin
    <2>2. /\ sent' \in [Motion!Conns -> Seq(Events)] /\ sent'[c] = Append(sent[c], e)
          /\ \A d \in Motion!Conns \ {c} : sent'[d] = sent[d]
      BY <1>8, <2>1 DEF MotionInv, MotionTypes
    <2>3. PairedOn(c)'
      BY <1>2, <1>8, <2>2 DEF PairedOn
    <2>4. MotionTypes'
      BY <1>2, <1>4, <2>2 DEF MotionInv, MotionTypes
    <2>5. QED BY <1>2, <1>4, <1>6, <2>2, <2>3, <2>4, OwnStep
  <1>9. /\ watcher[c].pc = "send" => watcher[c].event \in Events
        /\ failsafe[c].pc = "send" => failsafe[c].event \in Events
    BY MotionFields DEF AtRest
  <1>10. CASE c = live
    <2>1. Paired(sent[c], watcher[c].event, failsafe[c].event, st[c].active, st[c].eventID)
      BY <1>10, MotionFields DEF PairedOn
    <2>2. CASE Motion!WatcherSend(c)
      <3>1. watcher[c].event \in Events
        BY <1>9, <2>2 DEF Motion!WatcherSend
      <3>2. Paired(Append(sent[c], watcher[c].event), Motion!Unsent, failsafe[c].event,
                   st[c].active, st[c].eventID)
        <4>1. sent[c] \in Seq(Events) /\ st[c].active \in BOOLEAN /\ st[c].eventID \in Nat
          BY MotionFields
        <4>2. QED BY <2>1, <3>1, <4>1, SendsPaired
      <3>3. sent' = [sent EXCEPT ![c] = Append(sent[c], watcher[c].event)]
        BY <1>3, <1>10, <2>2 DEF Motion!Report, Motion!Done
      <3>4. QED BY <1>1, <1>5, <1>8, <1>10, <2>2, <3>1, <3>2, <3>3
    <2>3. CASE Motion!FailsafeSend(c)
      <3>1. failsafe[c].event \in Events
        BY <1>9, <2>3 DEF Motion!FailsafeSend
      <3>2. Paired(Append(sent[c], failsafe[c].event), watcher[c].event, Motion!Unsent,
                   st[c].active, st[c].eventID)
        <4>1. sent[c] \in Seq(Events) /\ st[c].active \in BOOLEAN /\ st[c].eventID \in Nat
          BY MotionFields
        <4>2. QED BY <2>1, <3>1, <4>1, SendsPaired
      <3>3. sent' = [sent EXCEPT ![c] = Append(sent[c], failsafe[c].event)]
        BY <1>3, <1>10, <2>3 DEF Motion!Report, Motion!Done
      <3>4. QED BY <1>1, <1>5, <1>8, <1>10, <2>3, <3>1, <3>2, <3>3
    <2>4. QED BY <2>2, <2>3
  <1>11. QED BY <1>7, <1>10

\* An instance has its own copy of the module of finite sets.
LEMMA SameCardinality == \A S : Motion!Cardinality(S) = Cardinality(S)
  BY DEF Motion!Cardinality, Cardinality

\* A new connection is one that has not been opened before.
LEMMA DialStep ==
  ASSUME MotionInv, Motion!Dial
  PROVE  MotionInv'
  <1> DEFINE w == [Motion!Unborn EXCEPT !.pc = "top"]
             f == [Motion!Unborn EXCEPT !.pc = "wait"]
  <1>1. PICK k \in 0..MaxConns : Motion!Opened = 1..k
    BY DEF MotionInv
  <1>2. Cardinality(Motion!Opened) = k
    BY <1>1, FS_Interval
  <1>3. k < MaxConns /\ live' = k + 1
    <2>1. Cardinality(Motion!Opened) < MaxConns /\ live' = Cardinality(Motion!Opened) + 1
      BY SameCardinality DEF Motion!Dial
    <2>2. QED BY <1>2, <2>1
  <1>4. live' \in Motion!Conns /\ live' \notin Motion!Opened
    BY <1>1, <1>3 DEF Motion!Conns
  <1> DEFINE c == k + 1
  <1>5. c \in Motion!Conns /\ watcher[c].pc = "unborn" /\ live' = c
    BY <1>3, <1>4 DEF Motion!Opened
  <1>6. /\ w \in Goroutines /\ w.pc = "top" /\ w.event = Motion!Unsent
        /\ f \in Goroutines /\ f.pc = "wait" /\ f.event = Motion!Unsent
    BY DEF Motion!Unborn, Motion!Unsent, Goroutines
  <1>7. /\ watcher' = [watcher EXCEPT ![c] = w] /\ failsafe' = [failsafe EXCEPT ![c] = f]
        /\ UNCHANGED <<queue, st, sent>>
    BY <1>3 DEF Motion!Dial
  <1> HIDE DEF w, f, c
  <1>8. /\ watcher' \in [Motion!Conns -> Goroutines] /\ watcher'[c] = w
        /\ failsafe' \in [Motion!Conns -> Goroutines] /\ failsafe'[c] = f
        /\ \A d \in Motion!Conns \ {c} : watcher'[d] = watcher[d] /\ failsafe'[d] = failsafe[d]
    BY <1>5, <1>6, <1>7 DEF MotionInv, MotionTypes
  <1>9. AtRest(c) /\ sent[c] = <<>> /\ ~st[c].active
    BY <1>5, MotionFields DEF AtRest
  <1>10. PairedOn(c)'
    <2>1. Len(sent[c]) = 0
      BY <1>9
    <2>2. \A e : ~Within(sent[c], e)
      BY <2>1 DEF Within
    <2>3. \A j \in 1..Len(sent[c]) : \A i \in 1..(j - 1) : sent[c][i] # sent[c][j]
      BY <2>1
    <2>4. Paired(sent[c], Motion!Unsent, Motion!Unsent, st[c].active, st[c].eventID)
      BY <1>9, <2>2, <2>3, UnsentIsNoEvent DEF Paired
    <2>5. QED BY <1>6, <1>7, <1>8, <2>4 DEF PairedOn
  <1>11. \A d \in Motion!Conns : AtRest(d)'
    <2>1. AtRest(c)'
      BY <1>6, <1>8 DEF AtRest
    <2>2. ASSUME NEW d \in Motion!Conns, d # c PROVE AtRest(d)'
      <3>1. AtRest(d)
        BY DEF MotionInv
      <3>2. QED BY <1>7, <1>8, <2>2, <3>1 DEF AtRest
    <2>3. QED BY <2>1, <2>2
  <1>12. Motion!Opened' = 1..(k + 1)
    <2>1. Motion!Opened' = Motion!Opened \cup {c}
      BY <1>5, <1>6, <1>8 DEF Motion!Opened
    <2>2. QED BY <1>1, <2>1 DEF c
  <1>13. MotionTypes'
    BY <1>7, <1>8 DEF MotionInv, MotionTypes
  <1>14. k + 1 \in 0..MaxConns /\ c \in Motion!Opened'
    BY <1>3, <1>12 DEF c
  <1>15. PairedOn(live)'
    BY <1>5, <1>10 DEF PairedOn
  <1>16. QED BY <1>5, <1>11, <1>12, <1>13, <1>14, <1>15 DEF MotionInv

LEMMA AgesStep ==
  ASSUME MotionInv, NEW c \in Motion!Conns, Motion!EventAges(c)
  PROVE  MotionInv'
  <1>1. /\ st[c].active /\ st' = [st EXCEPT ![c].old = TRUE]
        /\ UNCHANGED <<queue, live, watcher, failsafe, sent>>
    BY DEF Motion!EventAges
  <1>2. /\ st' \in [Motion!Conns -> [active : BOOLEAN, eventID : Nat, old : BOOLEAN]]
        /\ st'[c].active = st[c].active /\ st'[c].eventID = st[c].eventID
        /\ \A d \in Motion!Conns \ {c} : st'[d] = st[d]
    BY <1>1 DEF MotionInv, MotionTypes
  <1>3. watcher[c].pc # "unborn" /\ watcher'[c].pc # "unborn" /\ AtRest(c)'
    BY <1>1, MotionFields DEF AtRest
  <1>4. c = live => PairedOn(c)'
    BY <1>1, <1>2, MotionFields DEF PairedOn
  <1>5. MotionTypes'
    BY <1>1, <1>2 DEF MotionInv, MotionTypes
  <1>6. QED BY <1>1, <1>2, <1>3, <1>4, <1>5, OwnStep

LEMMA WatcherMoves ==
  ASSUME MotionInv, NEW c \in Motion!Conns, Motion!QueueFails(c) \/ Motion!WatcherStep(c)
  PROVE  MotionInv'
  <1>1. queue \in Seq(Edges)
    BY DEF MotionInv, MotionTypes
  <1>2. CASE Motion!QueueFails(c) \/ Motion!WatcherDone(c) \/ Motion!OpenQueue(c)
             \/ Motion!BackoffOver(c) \/ Motion!BeginReceive(c) \/ Motion!ReceiveTimeout(c)
    <2>1. /\ watcher[c].pc \notin {"unborn", "send"} /\ UNCHANGED <<queue, live, st, failsafe, sent>>
          /\ \E pc \in {"top", "check", "backoff", "receive", "off"} : Motion!WatcherGo(c, pc)
      BY <1>2 DEF Motion!QueueFails, Motion!WatcherDone, Motion!OpenQueue, Motion!BackoffOver,
                  Motion!BeginReceive, Motion!ReceiveTimeout
    <2>2. QED BY <1>1, <2>1, WatcherLoops
  <1>3. CASE Motion!Receive(c) /\ (Head(queue) = "start") = st[c].active
    <2>1. /\ watcher[c].pc \notin {"unborn", "send"} /\ UNCHANGED <<live, st, failsafe, sent>>
          /\ queue # <<>> /\ queue' = Tail(queue) /\ Motion!WatcherGo(c, "check")
      BY <1>3 DEF Motion!Receive
    <2>2. queue' \in Seq(Edges)
      BY <1>1, <2>1
    <2>3. QED BY <2>1, <2>2, WatcherLoops
  <1>4. CASE Motion!Receive(c) /\ (Head(queue) = "start") # st[c].active
    BY <1>4, WatcherTakes
  <1>5. CASE Motion!WatcherSend(c)
    BY <1>5, SendStep
  <1>6. QED BY <1>2, <1>3, <1>4, <1>5 DEF Motion!WatcherStep

LEMMA FailsafeMoves ==
  ASSUME MotionInv, NEW c \in Motion!Conns, Motion!FailsafeStep(c)
  PROVE  MotionInv'
  <1>1. CASE Motion!FailsafeDone(c) \/ Motion!FailsafeTick(c)
             \/ (Motion!FailsafeStop(c) /\ ~st[c].active)
    <2>1. /\ failsafe[c].pc \notin {"unborn", "send"} /\ UNCHANGED <<queue, live, st, watcher, sent>>
          /\ \E pc \in {"wait", "stuck", "off"} : Motion!FailsafeGo(c, pc)
      BY <1>1 DEF Motion!FailsafeDone, Motion!FailsafeTick, Motion!FailsafeStop
    <2>2. QED BY <2>1, FailsafeLoops
  <1>2. CASE Motion!FailsafeStop(c) /\ st[c].active
    BY <1>2, FailsafeTakes
  <1>3. CASE Motion!FailsafeSend(c)
    BY <1>3, SendStep
  <1>4. QED BY <1>1, <1>2, <1>3 DEF Motion!FailsafeStep

LEMMA MotionInvStep ==
  ASSUME MotionInv, [Motion!Next]_motionVars
  PROVE  MotionInv'
  <1>1. ASSUME NEW edge \in Edges, Motion!Detect(edge) PROVE MotionInv'
    <2>1. queue' = Append(queue, edge) /\ UNCHANGED <<live, st, watcher, failsafe, sent>>
      BY <1>1 DEF Motion!Detect
    <2>2. queue' \in Seq(Edges)
      BY <2>1 DEF MotionInv, MotionTypes
    <2>3. QED BY <2>1, <2>2 DEF MotionInv, MotionTypes, AtRest, PairedOn, Motion!Opened
  <1>2. CASE Motion!HangUp
    <2>1. live' = 0 /\ UNCHANGED <<queue, st, watcher, failsafe, sent>>
      BY <1>2 DEF Motion!HangUp
    <2>2. QED BY <2>1 DEF MotionInv, MotionTypes, AtRest, Motion!Opened
  <1>3. CASE UNCHANGED motionVars
    BY <1>3 DEF MotionInv, MotionTypes, AtRest, PairedOn, Motion!Opened, motionVars
  <1>4. CASE Motion!Dial
    BY <1>4, DialStep
  <1>5. ASSUME NEW c \in Motion!Conns,
               Motion!EventAges(c) \/ Motion!QueueFails(c) \/ Motion!WatcherStep(c) \/ Motion!FailsafeStep(c)
        PROVE  MotionInv'
    BY <1>5, AgesStep, WatcherMoves, FailsafeMoves
  <1>6. QED BY <1>1, <1>2, <1>3, <1>4, <1>5 DEF Motion!Next, Edges

\* motion_mq.go:175: on the connection there is no event is started or stopped twice,
\* and none is stopped whose start is not sent or being sent, for any number of
\* connections, messages and failures and any order of the two goroutines' sends.
THEOREM EventPairedHolds == DeviceSpec => []EventPaired
  <1>1. DeviceInit => MotionInv
    <2> SUFFICES ASSUME DeviceInit PROVE MotionInv
      OBVIOUS
    <2>1. /\ queue = <<>> /\ live = 0
          /\ st = [c \in Motion!Conns |-> [active |-> FALSE, eventID |-> 0, old |-> FALSE]]
          /\ watcher = [c \in Motion!Conns |-> Motion!Unborn]
          /\ failsafe = [c \in Motion!Conns |-> Motion!Unborn]
          /\ sent = [c \in Motion!Conns |-> <<>>]
      BY PartInit DEF Motion!Init
    <2>2. /\ Motion!Unborn \in Goroutines /\ Motion!Unborn.pc = "unborn"
          /\ Motion!Unborn.event = Motion!Unsent
      BY DEF Motion!Unborn, Motion!Unsent, Goroutines
    <2>3. MotionTypes
      BY <2>1, <2>2 DEF MotionTypes
    <2>4. \A c \in Motion!Conns : AtRest(c)
      BY <2>1, <2>2 DEF AtRest
    <2>5. Motion!Opened = 1..0
      BY <2>1, <2>2 DEF Motion!Opened
    <2>6. QED BY <2>1, <2>3, <2>4, <2>5, SMTT(20) DEF MotionInv
  <1>2. MotionInv /\ [DeviceNext]_deviceVars => MotionInv'
    BY PartStep, MotionInvStep
  <1>3. MotionInv => EventPaired
    <2> SUFFICES ASSUME MotionInv, NEW c \in Motion!Conns, c = live, NEW j \in 1..Len(sent[c])
                 PROVE  /\ \A i \in 1..(j - 1) : sent[c][i] # sent[c][j]
                        /\ sent[c][j].edge = "stop" =>
                              \/ Motion!Sent(c, Motion!Event("start", sent[c][j].id))
                              \/ watcher[c].event = Motion!Event("start", sent[c][j].id)
      BY DEF EventPaired, Motion!EventPaired, Motion!Done
    <2>1. Paired(sent[c], watcher[c].event, failsafe[c].event, st[c].active, st[c].eventID)
      BY MotionFields DEF PairedOn
    <2>2. sent[c] \in Seq(Events) /\ sent[c][j] \in Events /\ Within(sent[c], sent[c][j])
      BY MotionFields DEF Within
    <2>3. QED BY <2>1, <2>2 DEF Paired, Within, Motion!Sent, Motion!Event
  <1>4. QED BY <1>1, <1>2, <1>3, PTL DEF DeviceSpec

----------------------------------------------------------------------------
(* Snapshot requests. *)

Inquiries == [pc : {"none", "lock", "grab", "store", "fallback", "upload", "done"},
              res : Resolutions \cup {"none"}, timeout : 0..MaxTimeout, asked : Nat, from : Nat,
              picture : Nat]

SnapshotTypes ==
    /\ clock \in Nat
    /\ request \in [Requests -> Inquiries]
    /\ cache \in [Resolutions -> [at : Nat, picture : Nat]]
    /\ \A r \in Requests : request[r].pc # "none" => request[r].res \in Resolutions

\* The requests that have had the camera.
Past == {r \in Requests : request[r].pc \in {"store", "fallback", "upload", "done"}}

\* For how long the camera has been taken.
Taken == IF grab = Nobody THEN 0 ELSE clock - request[grab].from

\* The camera is taken by the one request that grabs, for no longer than its deadline.
Exclusive ==
    /\ grab \in Requests \cup {Nobody}
    /\ \A r \in Requests : request[r].pc = "grab" <=> grab = r
    /\ grab # Nobody => /\ request[grab].from <= clock
                        /\ clock <= request[grab].from + request[grab].timeout

\* Who waits has waited for those that have had the camera and the one that has it.
SnapshotInv ==
    /\ SnapshotTypes
    /\ Exclusive
    /\ \A r \in Requests : request[r].pc \in {"lock", "grab"} =>
          clock - request[r].asked <= MaxTimeout * Cardinality(Past) + Taken

LEMMA PastFinite ==
  /\ IsFiniteSet(Past) /\ Cardinality(Past) \in Nat /\ Cardinality(Requests) \in Nat
  /\ Cardinality(Past) <= Cardinality(Requests)
  /\ \A r \in Requests \ Past : Cardinality(Past) + 1 <= Cardinality(Requests)
  <1>1. Past \subseteq Requests /\ IsFiniteSet(Requests)
    BY DEF Past
  <1>2. IsFiniteSet(Past) /\ Cardinality(Past) <= Cardinality(Requests)
    BY <1>1, FS_Subset
  <1>3. Cardinality(Past) \in Nat /\ Cardinality(Requests) \in Nat
    BY <1>1, <1>2, FS_CardinalityType
  <1>4. ASSUME NEW r \in Requests \ Past PROVE Cardinality(Past) + 1 <= Cardinality(Requests)
    <2>1. Cardinality(Past \cup {r}) = Cardinality(Past) + 1
      BY <1>2, <1>4, FS_AddElement
    <2>2. Past \cup {r} \subseteq Requests
      BY <1>1
    <2>3. QED BY <1>1, <2>1, <2>2, FS_Subset
  <1>5. QED BY <1>2, <1>3, <1>4

LEMMA TakenBounds ==
  ASSUME SnapshotInv
  PROVE  Taken \in Nat /\ Taken <= MaxTimeout
  <1>1. CASE grab = Nobody
    BY <1>1 DEF Taken
  <1>2. CASE grab # Nobody
    <2>1. grab \in Requests /\ request[grab] \in Inquiries /\ clock \in Nat
      BY <1>2 DEF SnapshotInv, SnapshotTypes, Exclusive
    <2>2. request[grab].from \in Nat /\ request[grab].timeout \in 0..MaxTimeout
      BY <2>1 DEF Inquiries
    <2>3. request[grab].from <= clock /\ clock <= request[grab].from + request[grab].timeout
      BY <1>2 DEF SnapshotInv, Exclusive
    <2>4. QED BY <1>2, <2>1, <2>2, <2>3 DEF Taken
  <1>3. QED BY <1>1, <1>2

\* One request's record is replaced.
LEMMA RequestReplaced ==
  ASSUME SnapshotInv, NEW r \in Requests, NEW q \in Inquiries, q.res \in Resolutions,
         request' = [request EXCEPT ![r] = q], clock' = clock,
         cache' \in [Resolutions -> [at : Nat, picture : Nat]]
  PROVE  /\ SnapshotTypes' /\ request'[r] = q
         /\ \A s \in Requests \ {r} : request'[s] = request[s]
         /\ Past' = IF q.pc \in {"store", "fallback", "upload", "done"} THEN Past \cup {r} ELSE Past \ {r}
  <1>1. /\ request' \in [Requests -> Inquiries] /\ request'[r] = q
        /\ \A s \in Requests \ {r} : request'[s] = request[s]
    BY DEF SnapshotInv, SnapshotTypes
  <1>2. SnapshotTypes'
    BY <1>1 DEF SnapshotInv, SnapshotTypes
  <1>3. Past' = IF q.pc \in {"store", "fallback", "upload", "done"} THEN Past \cup {r} ELSE Past \ {r}
    BY <1>1 DEF Past
  <1>4. QED BY <1>1, <1>2, <1>3

LEMMA AskStep ==
  ASSUME SnapshotInv, NEW r \in Requests, NEW res \in Resolutions, NEW ms \in Int,
         Snapshot!Ask(r, res, ms)
  PROVE  SnapshotInv'
  <1> DEFINE t == Snapshot!SnapshotTimeout(ms)
             q == [[[[request[r] EXCEPT !.pc = "lock"] EXCEPT !.res = res] EXCEPT !.asked = clock]
                    EXCEPT !.timeout = t]
  <1>1. t \in 0..MaxTimeout
    BY DEF Snapshot!SnapshotTimeout
  <1>2. request[r] \in Inquiries /\ clock \in Nat /\ request[r].pc = "none"
    BY DEF SnapshotInv, SnapshotTypes, Snapshot!Ask
  <1> HIDE DEF t
  <1>3. q \in Inquiries /\ q.pc = "lock" /\ q.res = res /\ q.asked = clock
    BY <1>1, <1>2 DEF Inquiries
  <1>4. request' = [request EXCEPT ![r] = q] /\ UNCHANGED <<clock, grab, cache>>
    BY DEF Snapshot!Ask, t
  <1> HIDE DEF q
  <1>5. cache' \in [Resolutions -> [at : Nat, picture : Nat]]
    BY <1>4 DEF SnapshotInv, SnapshotTypes
  <1>6. /\ SnapshotTypes' /\ request'[r] = q
        /\ \A s \in Requests \ {r} : request'[s] = request[s]
        /\ Past' = Past \ {r}
    BY <1>3, <1>4, <1>5, RequestReplaced
  <1>7. Past' = Past
    BY <1>2, <1>6 DEF Past
  <1>8. grab # r /\ (grab # Nobody => grab \in Requests)
    BY <1>2 DEF SnapshotInv, Exclusive
  <1>9. Taken' = Taken
    BY <1>4, <1>6, <1>8 DEF Taken
  <1>10. Exclusive'
    BY <1>3, <1>4, <1>6, <1>8 DEF SnapshotInv, Exclusive
  <1>11. 0 <= MaxTimeout * Cardinality(Past) + Taken
    BY PastFinite, TakenBounds
  <1>12. ASSUME NEW s \in Requests, request'[s].pc \in {"lock", "grab"}
         PROVE  clock' - request'[s].asked <= MaxTimeout * Cardinality(Past') + Taken'
    <2>1. CASE s = r
      <3>1. clock' - request'[s].asked = 0
        BY <1>2, <1>3, <1>4, <1>6, <2>1
      <3>2. QED BY <1>7, <1>9, <1>11, <3>1
    <2>2. CASE s # r
      BY <1>4, <1>6, <1>7, <1>9, <1>12, <2>2 DEF SnapshotInv
    <2>3. QED BY <2>1, <2>2
  <1>13. QED BY <1>6, <1>10, <1>12 DEF SnapshotInv

LEMMA BeginGrabStep ==
  ASSUME SnapshotInv, NEW r \in Requests, Snapshot!BeginGrab(r)
  PROVE  SnapshotInv'
  <1> DEFINE q == [[request[r] EXCEPT !.pc = "grab"] EXCEPT !.from = clock]
  <1>1. /\ request[r] \in Inquiries /\ clock \in Nat /\ request[r].pc = "lock"
        /\ request[r].res \in Resolutions /\ grab = Nobody
    BY DEF SnapshotInv, SnapshotTypes, Snapshot!BeginGrab
  <1>2. /\ q \in Inquiries /\ q.pc = "grab" /\ q.from = clock /\ q.res = request[r].res
        /\ q.asked = request[r].asked /\ q.timeout \in 0..MaxTimeout
    BY <1>1 DEF Inquiries
  <1>3. request' = [request EXCEPT ![r] = q] /\ grab' = r /\ UNCHANGED <<clock, cache>>
    <2>1. grab' = r /\ UNCHANGED <<clock, cache>>
      BY DEF Snapshot!BeginGrab
    <2>2. request \in [Requests -> Inquiries]
      BY DEF SnapshotInv, SnapshotTypes
    <2>3. request' = [request EXCEPT ![r] = q]
      BY <2>2 DEF Snapshot!BeginGrab
    <2>4. QED BY <2>1, <2>3
  <1> HIDE DEF q
  <1>4. cache' \in [Resolutions -> [at : Nat, picture : Nat]]
    BY <1>3 DEF SnapshotInv, SnapshotTypes
  <1>5. /\ SnapshotTypes' /\ request'[r] = q
        /\ \A s \in Requests \ {r} : request'[s] = request[s]
        /\ Past' = Past \ {r}
    BY <1>1, <1>2, <1>3, <1>4, RequestReplaced
  <1>6. Past' = Past
    BY <1>1, <1>5 DEF Past
  <1>7. r # Nobody
    OBVIOUS
  <1>8. Taken = 0 /\ Taken' = 0
    BY <1>1, <1>2, <1>3, <1>5, <1>7 DEF Taken
  <1>9. Exclusive'
    <2>1. \A s \in Requests : request[s].pc # "grab"
      BY <1>1 DEF SnapshotInv, Exclusive
    <2>2. \A s \in Requests : request'[s].pc = "grab" <=> s = r
      BY <1>2, <1>5, <2>1
    <2>3. clock <= clock + q.timeout
      BY <1>1, <1>2
    <2>4. QED BY <1>1, <1>2, <1>3, <1>5, <1>7, <2>2, <2>3 DEF Exclusive
  <1>10. ASSUME NEW s \in Requests, request'[s].pc \in {"lock", "grab"}
         PROVE  clock' - request'[s].asked <= MaxTimeout * Cardinality(Past') + Taken'
    <2>1. request'[s].asked = request[s].asked /\ request[s].pc \in {"lock", "grab"}
      BY <1>1, <1>2, <1>5, <1>10
    <2>2. QED BY <1>3, <1>6, <1>8, <2>1 DEF SnapshotInv
  <1>11. QED BY <1>5, <1>9, <1>10 DEF SnapshotInv

\* The camera is given back: those who wait have waited one deadline more at most.
LEMMA GrabEndsStep ==
  ASSUME SnapshotInv, NEW r \in Requests, Snapshot!GrabDone(r) \/ Snapshot!GrabFails(r)
  PROVE  SnapshotInv'
  <1>1. /\ request[r] \in Inquiries /\ clock \in Nat /\ request[r].pc = "grab"
        /\ request[r].res \in Resolutions /\ grab = r /\ request \in [Requests -> Inquiries]
    BY DEF SnapshotInv, SnapshotTypes, Exclusive, Snapshot!GrabDone, Snapshot!GrabFails
  <1>2. PICK q \in Inquiries : /\ q.pc \in {"store", "fallback"} /\ q.res = request[r].res
                               /\ request' = [request EXCEPT ![r] = q]
    <2>1. CASE Snapshot!GrabDone(r)
      <3> DEFINE q == [[request[r] EXCEPT !.pc = "store"] EXCEPT !.picture = clock]
      <3>1. q \in Inquiries /\ q.pc \in {"store", "fallback"} /\ q.res = request[r].res
        BY <1>1 DEF Inquiries
      <3>2. request' = [request EXCEPT ![r] = q]
        BY <1>1, <2>1 DEF Snapshot!GrabDone
      <3> HIDE DEF q
      <3>3. QED BY <3>1, <3>2
    <2>2. CASE Snapshot!GrabFails(r)
      <3> DEFINE q == [request[r] EXCEPT !.pc = "fallback"]
      <3>1. q \in Inquiries /\ q.pc \in {"store", "fallback"} /\ q.res = request[r].res
        BY <1>1 DEF Inquiries
      <3>2. request' = [request EXCEPT ![r] = q]
        BY <1>1, <2>2 DEF Snapshot!GrabFails, Snapshot!Goes
      <3> HIDE DEF q
      <3>3. QED BY <3>1, <3>2
    <2>3. QED BY <2>1, <2>2
  <1>3. grab' = Nobody /\ UNCHANGED <<clock, cache>>
    BY DEF Snapshot!GrabDone, Snapshot!GrabFails
  <1>4. cache' \in [Resolutions -> [at : Nat, picture : Nat]]
    BY <1>3 DEF SnapshotInv, SnapshotTypes
  <1>5. q.res \in Resolutions
    BY <1>1, <1>2
  <1>6. /\ SnapshotTypes' /\ request'[r] = q
        /\ \A s \in Requests \ {r} : request'[s] = request[s]
        /\ Past' = Past \cup {r}
    BY <1>2, <1>3, <1>4, <1>5, RequestReplaced
  <1>7. r \notin Past
    BY <1>1 DEF Past
  <1>8. Cardinality(Past') = Cardinality(Past) + 1
    BY <1>6, <1>7, PastFinite, FS_AddElement
  <1>9. Taken' = 0
    BY <1>3 DEF Taken
  <1>10. MaxTimeout * Cardinality(Past) + Taken <= MaxTimeout * Cardinality(Past') + Taken'
    <2>1. MaxTimeout * (Cardinality(Past) + 1) = MaxTimeout * Cardinality(Past) + MaxTimeout
      BY PastFinite
    <2>2. MaxTimeout * Cardinality(Past) \in Nat
      BY PastFinite
    <2>3. QED BY <1>8, <1>9, <2>1, <2>2, TakenBounds
  <1>11. Exclusive'
    <2>1. \A s \in Requests : request'[s].pc # "grab"
      BY <1>1, <1>2, <1>6 DEF SnapshotInv, Exclusive
    <2>2. QED BY <1>3, <2>1 DEF Exclusive
  <1>12. ASSUME NEW s \in Requests, request'[s].pc \in {"lock", "grab"}
         PROVE  clock' - request'[s].asked <= MaxTimeout * Cardinality(Past') + Taken'
    <2>1. request'[s] = request[s]
      BY <1>2, <1>6, <1>12
    <2>2. clock - request[s].asked <= MaxTimeout * Cardinality(Past) + Taken
      BY <1>12, <2>1 DEF SnapshotInv
    <2>3. clock - request[s].asked \in Int
      BY <1>1 DEF Inquiries
    <2>4. /\ MaxTimeout * Cardinality(Past) + Taken \in Int
          /\ MaxTimeout * Cardinality(Past') + Taken' \in Int
      BY <1>8, <1>9, PastFinite, TakenBounds
    <2>5. QED BY <1>3, <1>10, <2>1, <2>2, <2>3, <2>4
  <1>13. QED BY <1>6, <1>11, <1>12 DEF SnapshotInv

\* A picture is stored, replaced by an older one, uploaded.
LEMMA AfterGrabStep ==
  ASSUME SnapshotInv, NEW r \in Requests,
         Snapshot!StoreSnapshot(r) \/ Snapshot!Fallback(r) \/ Snapshot!Upload(r)
  PROVE  SnapshotInv'
  <1>1. /\ request[r] \in Inquiries /\ clock \in Nat /\ request[r].res \in Resolutions
        /\ request[r].pc \in {"store", "fallback", "upload"} /\ request \in [Requests -> Inquiries]
        /\ cache[request[r].res] \in [at : Nat, picture : Nat] /\ UNCHANGED <<clock, grab>>
    BY DEF SnapshotInv, SnapshotTypes, Snapshot!StoreSnapshot, Snapshot!Fallback, Snapshot!Upload
  <1>2. PICK q \in Inquiries : /\ q.pc \in {"upload", "done"} /\ q.res = request[r].res
                               /\ request' = [request EXCEPT ![r] = q]
    <2> DEFINE sentOn == [request[r] EXCEPT !.pc = "upload"]
               done == [request[r] EXCEPT !.pc = "done"]
               old == [[request[r] EXCEPT !.pc = "upload"]
                        EXCEPT !.picture = cache[request[r].res].picture]
    <2>1. /\ sentOn \in Inquiries /\ sentOn.pc = "upload" /\ sentOn.res = request[r].res
          /\ done \in Inquiries /\ done.pc = "done" /\ done.res = request[r].res
      BY <1>1 DEF Inquiries
    <2>2. old \in Inquiries /\ old.pc = "upload" /\ old.res = request[r].res
      BY <1>1 DEF Inquiries
    <2>3. \/ request' = [request EXCEPT ![r] = sentOn]
          \/ request' = [request EXCEPT ![r] = done]
          \/ request' = [request EXCEPT ![r] = old]
      BY <1>1 DEF Snapshot!StoreSnapshot, Snapshot!Fallback, Snapshot!Upload, Snapshot!Goes
    <2> HIDE DEF sentOn, done, old
    <2>4. QED BY <2>1, <2>2, <2>3
  <1>3. cache' \in [Resolutions -> [at : Nat, picture : Nat]]
    <2>1. CASE Snapshot!StoreSnapshot(r)
      <3> DEFINE c == [at |-> clock, picture |-> request[r].picture]
      <3>1. c \in [at : Nat, picture : Nat]
        BY <1>1 DEF Inquiries
      <3>2. cache' = [cache EXCEPT ![request[r].res] = c]
        BY <2>1 DEF Snapshot!StoreSnapshot
      <3> HIDE DEF c
      <3>3. QED BY <1>1, <3>1, <3>2 DEF SnapshotInv, SnapshotTypes
    <2>2. CASE Snapshot!Fallback(r) \/ Snapshot!Upload(r)
      BY <2>2 DEF SnapshotInv, SnapshotTypes, Snapshot!Fallback, Snapshot!Upload
    <2>3. QED BY <2>1, <2>2
  <1>4. /\ SnapshotTypes' /\ request'[r] = q
        /\ \A s \in Requests \ {r} : request'[s] = request[s]
        /\ Past' = Past \cup {r}
    BY <1>1, <1>2, <1>3, RequestReplaced
  <1>5. Past' = Past
    BY <1>1, <1>4 DEF Past
  <1>6. grab # r /\ (grab # Nobody => grab \in Requests)
    BY <1>1 DEF SnapshotInv, Exclusive
  <1>7. Taken' = Taken
    BY <1>1, <1>4, <1>6 DEF Taken
  <1>8. Exclusive'
    BY <1>1, <1>2, <1>4, <1>6 DEF SnapshotInv, Exclusive
  <1>9. ASSUME NEW s \in Requests, request'[s].pc \in {"lock", "grab"}
        PROVE  clock' - request'[s].asked <= MaxTimeout * Cardinality(Past') + Taken'
    <2>1. request'[s] = request[s]
      BY <1>2, <1>4, <1>9
    <2>2. QED BY <1>1, <1>5, <1>7, <1>9, <2>1 DEF SnapshotInv
  <1>10. QED BY <1>4, <1>8, <1>9 DEF SnapshotInv

\* Nobody waits while the camera is free, and nobody holds it past the deadline.
LEMMA ClockTicks ==
  ASSUME SnapshotInv, Snapshot!Tick
  PROVE  SnapshotInv'
  <1>1. clock' = clock + 1 /\ UNCHANGED <<grab, request, cache>> /\ clock \in Nat
    BY DEF SnapshotInv, SnapshotTypes, Snapshot!Tick
  <1>2. \A s \in Requests : /\ request[s].pc = "lock" => grab # Nobody
                            /\ request[s].pc = "grab" => clock < request[s].from + request[s].timeout
    BY DEF Snapshot!Tick
  <1>3. SnapshotTypes' /\ Past' = Past
    BY <1>1 DEF SnapshotInv, SnapshotTypes, Past
  <1>4. grab # Nobody => /\ request[grab].pc = "grab" /\ grab \in Requests
                         /\ request[grab].from \in Nat /\ request[grab].timeout \in Nat
    BY DEF SnapshotInv, SnapshotTypes, Exclusive, Inquiries
  <1>5. grab # Nobody => Taken' = Taken + 1
    BY <1>1, <1>4 DEF Taken
  <1>6. Exclusive'
    BY <1>1, <1>2, <1>4 DEF SnapshotInv, Exclusive
  <1>7. ASSUME NEW s \in Requests, request'[s].pc \in {"lock", "grab"}
        PROVE  clock' - request'[s].asked <= MaxTimeout * Cardinality(Past') + Taken'
    <2> DEFINE budget == MaxTimeout * Cardinality(Past)
    <2>1. grab # Nobody
      BY <1>1, <1>2, <1>7 DEF SnapshotInv, Exclusive
    <2>2. clock - request[s].asked <= budget + Taken
      BY <1>1, <1>7 DEF SnapshotInv
    <2>3. budget \in Nat /\ request[s].asked \in Nat
      BY <1>1, PastFinite DEF SnapshotInv, SnapshotTypes, Inquiries
    <2> HIDE DEF budget
    <2>4. (clock + 1) - request[s].asked <= budget + (Taken + 1)
      BY <1>1, <2>2, <2>3, TakenBounds
    <2>5. clock' - request'[s].asked <= budget + Taken'
      <3>1. clock' = clock + 1 /\ request'[s] = request[s]
        BY <1>1
      <3>2. Taken' = Taken + 1
        BY <1>5, <2>1
      <3>3. clock' - request'[s].asked = (clock + 1) - request[s].asked
        BY <3>1
      <3>4. budget + Taken' = budget + (Taken + 1)
        BY <3>2
      <3>5. QED BY <2>4, <3>3, <3>4, Zenon
    <2>6. budget = MaxTimeout * Cardinality(Past')
      BY <1>3 DEF budget
    <2>7. QED BY <2>5, <2>6
  <1>8. QED BY <1>3, <1>6, <1>7 DEF SnapshotInv

LEMMA SnapshotStep ==
  ASSUME SnapshotInv, [Snapshot!Next]_snapshotVars
  PROVE  SnapshotInv'
  <1>1. ASSUME NEW r \in Requests, Snapshot!RequestStep(r) PROVE SnapshotInv'
    BY <1>1, BeginGrabStep, GrabEndsStep, AfterGrabStep DEF Snapshot!RequestStep
  <1>2. ASSUME NEW r \in Requests, NEW res \in Resolutions, NEW ms \in 0..Granted,
               Snapshot!Ask(r, res, ms)
        PROVE  SnapshotInv'
    <2>1. ms \in Int
      OBVIOUS
    <2>2. QED BY <1>2, <2>1, AskStep
  <1>3. CASE Snapshot!Tick
    BY <1>3, ClockTicks
  <1>4. CASE UNCHANGED snapshotVars
    BY <1>4 DEF SnapshotInv, SnapshotTypes, Exclusive, Past, Taken, snapshotVars
  <1>5. QED BY <1>1, <1>2, <1>3, <1>4 DEF Snapshot!Next

LEMMA SnapshotCardinality == \A S : Snapshot!Cardinality(S) = Cardinality(S)
  BY DEF Snapshot!Cardinality, Cardinality

\* main.go:1586: a snapshot request waits for the camera no longer than the deadlines
\* of all requests together, for any requests, limits of the deadline and answers of
\* the camera, and whatever deadline the controller asks for.
THEOREM AnsweredInTurnHolds == DeviceSpec => []AnsweredInTurn
  <1>1. DeviceInit => SnapshotInv
    <2> SUFFICES ASSUME DeviceInit PROVE SnapshotInv
      OBVIOUS
    <2> DEFINE q == [pc |-> "none", res |-> "none", timeout |-> 0, asked |-> 0, from |-> 0,
                     picture |-> Snapshot!Never]
               c == [at |-> Snapshot!Never, picture |-> Snapshot!Never]
    <2>1. Snapshot!Never \in Nat
      BY DEF Snapshot!Never
    <2>2. q \in Inquiries /\ q.pc = "none" /\ c \in [at : Nat, picture : Nat]
      BY <2>1 DEF Inquiries
    <2>3. /\ clock = 0 /\ grab = Nobody /\ request = [r \in Requests |-> q]
          /\ cache = [res \in Resolutions |-> c]
      BY PartInit DEF Snapshot!Init
    <2> HIDE DEF q, c
    <2>4. \A r \in Requests : request[r].pc = "none"
      BY <2>2, <2>3
    <2>5. SnapshotTypes
      BY <2>2, <2>3, <2>4 DEF SnapshotTypes
    <2>6. Exclusive
      BY <2>3, <2>4 DEF Exclusive
    <2>7. QED BY <2>4, <2>5, <2>6 DEF SnapshotInv
  <1>2. SnapshotInv /\ [DeviceNext]_deviceVars => SnapshotInv'
    BY PartStep, SnapshotStep
  <1>3. SnapshotInv => AnsweredInTurn
    <2> SUFFICES ASSUME SnapshotInv, NEW r \in Requests, request[r].pc \in {"lock", "grab"}
                 PROVE  clock - request[r].asked <= MaxTimeout * Cardinality(Requests)
      BY SnapshotCardinality DEF AnsweredInTurn, Snapshot!AnsweredInTurn
    <2> DEFINE n == Cardinality(Past)
               all == Cardinality(Requests)
    <2>1. n \in Nat /\ all \in Nat /\ n <= all
      BY PastFinite
    <2>2. clock - request[r].asked <= MaxTimeout * n + Taken
      BY DEF SnapshotInv
    <2>3. clock - request[r].asked \in Int
      BY DEF SnapshotInv, SnapshotTypes, Inquiries
    <2>4. MaxTimeout * n + Taken <= MaxTimeout * all
      <3>1. CASE grab = Nobody
        <4>1. Taken = 0
          BY <3>1 DEF Taken
        <4> HIDE DEF n, all
        <4>2. MaxTimeout * n <= MaxTimeout * all
          BY <2>1
        <4>3. MaxTimeout * n \in Nat
          BY <2>1
        <4>4. QED BY <4>1, <4>2, <4>3
      <3>2. CASE grab # Nobody
        <4>1. grab \in Requests \ Past
          BY <3>2 DEF SnapshotInv, Exclusive, Past
        <4>2. n + 1 <= all
          BY <4>1, PastFinite
        <4>3. Taken \in Nat /\ Taken <= MaxTimeout
          BY TakenBounds
        <4> HIDE DEF n, all
        <4>4. MaxTimeout * (n + 1) <= MaxTimeout * all
          BY <2>1, <4>2
        <4>5. MaxTimeout * (n + 1) = MaxTimeout * n + MaxTimeout /\ MaxTimeout * n \in Nat
              /\ MaxTimeout * all \in Nat
          BY <2>1
        <4>6. QED BY <4>3, <4>4, <4>5
      <3>3. QED BY <3>1, <3>2
    <2>5. MaxTimeout * n + Taken \in Int /\ MaxTimeout * all \in Int
      <3> HIDE DEF n, all
      <3>1. MaxTimeout * n \in Nat /\ MaxTimeout * all \in Nat
        BY <2>1
      <3>2. QED BY <3>1, TakenBounds
    <2> HIDE DEF n
    <2>6. clock - request[r].asked <= MaxTimeout * all
      <3> HIDE DEF all
      <3>1. QED BY <2>2, <2>3, <2>4, <2>5
    <2>7. QED BY <2>6
  <1>4. QED BY <1>1, <1>2, <1>3, PTL DEF DeviceSpec

----------------------------------------------------------------------------
(* Sequence headers and parameter sets. *)

Kinds == {"vps", "sps", "pps"}
CodecNames == {"h264", "h265"}
Sources == [codec : CodecNames, geometry : Geometries]
SetOf(k, e) == ParameterSets!SetOf(k, e)
Idr(e) == <<"idr", e.codec, e.geometry>>
Slice(e) == <<"slice", e.codec, e.geometry>>
Units == {SetOf(k, e) : k \in Kinds, e \in Sources} \cup {Idr(e) : e \in Sources}
            \cup {Slice(e) : e \in Sources}

\* The NAL units of a keyframe, and s, what is left of them.
Full(c) == IF c = "h265" THEN 4 ELSE 3
KeyRest(s, e) ==
    /\ s \in Seq(Units) /\ Len(s) \in 1..Full(e.codec)
    /\ s[Len(s)] = Idr(e)
    /\ Len(s) > 1 => s[Len(s) - 1] = SetOf("pps", e)
    /\ Len(s) > 2 => s[Len(s) - 2] = SetOf("sps", e)
    /\ Len(s) > 3 => s[Len(s) - 3] = SetOf("vps", e)

IsLocal(l) ==
    /\ l = [sets |-> l.sets, have |-> l.have, sentSeqHeader |-> l.sentSeqHeader]
    /\ l.sets = [k \in Kinds |-> l.sets[k]]
    /\ l.have \subseteq Kinds /\ l.sentSeqHeader \in BOOLEAN

\* The sets of e that precede what is left of its keyframe are the thread's.
Muxed(l, s, e) ==
    /\ Len(s) < 2 => "pps" \in l.have /\ l.sets["pps"] = SetOf("pps", e)
    /\ Len(s) < 3 => "sps" \in l.have /\ l.sets["sps"] = SetOf("sps", e)
    /\ Len(s) < 4 /\ e.codec = "h265" => "vps" \in l.have /\ l.sets["vps"] = SetOf("vps", e)

\* A header that has been sent, h, is that of the thread's sets.
Agree(l, h, m) ==
    l.sentSeqHeader =>
        /\ "sps" \in l.have /\ "pps" \in l.have
        /\ h.codec \in CodecNames /\ (h.codec = "h265" => "vps" \in l.have)
        /\ h = ParameterSets!HeaderOf(h.codec, l.sets)
        /\ ~m => ~ParameterSets!Foreign(h)

SetTypes ==
    /\ source \in [of : Sources, key : BOOLEAN]
    /\ pictures \in Seq([of : Sources, key : BOOLEAN])
    /\ codec \in CodecNames /\ misread \in BOOLEAN
    /\ IsLocal(local)

NalsInv == nals = <<>> \/ \E e \in Sources : nals = <<Slice(e)>> \/ KeyRest(nals, e)

PartialInv ==
    keyed # None /\ ~keyed.whole =>
        \E e \in Sources :
            codec = e.codec /\ KeyRest(nals, e) /\ Len(nals) < Full(codec) /\ Muxed(local, nals, e)

WholeInv ==
    keyed # None /\ keyed.whole =>
        /\ keyed.of \in Sources /\ codec = keyed.of.codec
        /\ local.sentSeqHeader /\ (~misread => header = ParameterSets!HeaderFor(keyed.of))
        /\ picture.codec = codec /\ picture.of.codec = codec
        /\ nals = <<>> \/ \E e \in Sources : \/ nals = <<Slice(e)>>
                                            \/ (KeyRest(nals, e) /\ Len(nals) = Full(e.codec))

SetsInv == SetTypes /\ NalsInv /\ PartialInv /\ WholeInv /\ Agree(local, header, misread)

LEMMA SetNames == ParameterSets!Encoders = Sources /\ ParameterSets!SetKinds = Kinds
                  /\ ParameterSets!Codecs = CodecNames
  BY DEF ParameterSets!Encoders, ParameterSets!SetKinds, ParameterSets!Codecs, Sources, Kinds, CodecNames

LEMMA SetsNotNone == \A k \in Kinds, e \in Sources : SetOf(k, e) # None
  BY SetsAssumption, SetNames DEF SetOf

LEMMA UnitFields ==
  ASSUME NEW e \in Sources
  PROVE  /\ \A k \in Kinds : SetOf(k, e) \in Units /\ SetOf(k, e)[1] = k /\ SetOf(k, e)[2] = e.codec
         /\ Idr(e) \in Units /\ Idr(e)[1] = "idr" /\ Idr(e)[2] = e.codec /\ Idr(e)[3] = e.geometry
         /\ Slice(e) \in Units /\ Slice(e)[1] = "slice" /\ Slice(e)[2] = e.codec
         /\ Slice(e)[3] = e.geometry
         /\ e.codec \in CodecNames
  BY DEF Units, Idr, Slice, SetOf, ParameterSets!SetOf, Sources

\* A set is put in its place; the header stands unless it has become another's.
LEMMA WithSetAgrees ==
  ASSUME NEW l, IsLocal(l), NEW kind \in Kinds, NEW nal, NEW h, NEW m, Agree(l, h, m),
         NEW w, w = ParameterSets!WithSet(l, kind, nal)
  PROVE  /\ IsLocal(w) /\ Agree(w, h, m)
         /\ w.have = l.have \cup {kind} /\ w.sets[kind] = nal
         /\ \A k \in Kinds \ {kind} : w.sets[k] = l.sets[k]
  <1>1. /\ w.sets = [l.sets EXCEPT ![kind] = nal] /\ w.have = l.have \cup {kind}
        /\ w = [sets |-> w.sets, have |-> w.have, sentSeqHeader |-> w.sentSeqHeader]
    BY DEF ParameterSets!WithSet
  <1>2. w.sentSeqHeader <=> l.sentSeqHeader /\ ~(kind \in l.have /\ l.sets[kind] # nal)
    BY DEF ParameterSets!WithSet
  <1>3. w.sentSeqHeader \in BOOLEAN
    BY DEF ParameterSets!WithSet
  <1>4. /\ w.sets = [k \in Kinds |-> w.sets[k]] /\ w.sets[kind] = nal
        /\ \A k \in Kinds \ {kind} : w.sets[k] = l.sets[k]
    BY <1>1 DEF IsLocal
  <1>5. IsLocal(w)
    BY <1>1, <1>3, <1>4 DEF IsLocal
  <1>6. ASSUME w.sentSeqHeader, l.sets[kind] = nal
        PROVE  Agree(w, h, m)
    <2>1. w.sets = l.sets
      BY <1>1, <1>6 DEF IsLocal
    <2>2. QED BY <1>1, <1>2, <1>6, <2>1 DEF Agree
  <1>7. ASSUME w.sentSeqHeader, kind \notin l.have
        PROVE  Agree(w, h, m)
    <2>1. kind = "vps" /\ h.codec = "h264" /\ l.sentSeqHeader
      BY <1>2, <1>7 DEF Agree, Kinds, CodecNames
    <2>2. [w.sets EXCEPT !.vps = None] = [l.sets EXCEPT !.vps = None]
      BY <1>1, <2>1 DEF IsLocal
    <2>3. ParameterSets!HeaderOf(h.codec, w.sets) = ParameterSets!HeaderOf(h.codec, l.sets)
      BY <2>1, <2>2 DEF ParameterSets!HeaderOf
    <2>4. QED BY <1>1, <2>1, <2>3 DEF Agree
  <1>8. Agree(w, h, m)
    BY <1>2, <1>6, <1>7 DEF Agree
  <1>9. QED BY <1>1, <1>4, <1>5, <1>8

LEMMA HeaderMarked ==
  ASSUME NEW l, NEW a, NEW b, NEW c, l = [sets |-> a, have |-> b, sentSeqHeader |-> c]
  PROVE  [l EXCEPT !.sentSeqHeader = TRUE] = [sets |-> a, have |-> b, sentSeqHeader |-> TRUE]
  <1> DEFINE w == [l EXCEPT !.sentSeqHeader = TRUE]
             t == TRUE
  <1>1. w = [l EXCEPT !.sentSeqHeader = t]
    OBVIOUS
  <1> HIDE DEF w, t
  <1>2. w = [sets |-> a, have |-> b, sentSeqHeader |-> t]
    BY <1>1
  <1> USE DEF t
  <1>3. w = [sets |-> a, have |-> b, sentSeqHeader |-> TRUE]
    BY <1>2
  <1>4. QED BY <1>3 DEF w

LEMMA EmitAgrees ==
  ASSUME NEW l, IsLocal(l), Agree(l, header, misread), codec \in CodecNames, misread \in BOOLEAN,
         NEW nal, NEW inline \in BOOLEAN, ParameterSets!Emit(l, nal, inline)
  PROVE  /\ IsLocal(local') /\ Agree(local', header', misread') /\ misread' \in BOOLEAN
         /\ local'.sets = l.sets /\ local'.have = l.have
         /\ misread => misread'
         /\ l.sentSeqHeader => local'.sentSeqHeader /\ header' = header
         /\ inline /\ ParameterSets!Needed(codec) \subseteq l.have => local'.sentSeqHeader
         /\ inline /\ (l.sentSeqHeader \/ ParameterSets!Needed(codec) \subseteq l.have)
                /\ nal[1] \in {"idr", "slice"} =>
            picture' = [of |-> [codec |-> nal[2], geometry |-> nal[3]], codec |-> codec]
  <1> DEFINE ready == l.sentSeqHeader \/ ParameterSets!Needed(codec) \subseteq l.have
             h == ParameterSets!HeaderOf(codec, l.sets)
             s == [l EXCEPT !.sentSeqHeader = TRUE]
  <1>1. CASE ~inline \/ ~ready
    <2>1. local' = l /\ header' = header /\ misread' = misread
      BY <1>1 DEF ParameterSets!Emit
    <2>2. QED BY <1>1, <2>1
  <1>2. CASE inline /\ ready
    <2>1. nal[1] \in {"idr", "slice"} =>
              picture' = [of |-> [codec |-> nal[2], geometry |-> nal[3]], codec |-> codec]
      BY <1>2 DEF ParameterSets!Emit
    <2>2. /\ local' = s /\ header' = IF l.sentSeqHeader THEN header ELSE h
          /\ misread' = (misread \/ (~l.sentSeqHeader /\ ParameterSets!Foreign(h)))
      BY <1>2 DEF ParameterSets!Emit
    <2>3. /\ IsLocal(s) /\ s.sets = l.sets /\ s.have = l.have /\ s.sentSeqHeader
      <3>1. /\ l = [sets |-> l.sets, have |-> l.have, sentSeqHeader |-> l.sentSeqHeader]
            /\ l.sets = [k \in Kinds |-> l.sets[k]] /\ l.have \subseteq Kinds
        BY DEF IsLocal
      <3>2. s = [sets |-> l.sets, have |-> l.have, sentSeqHeader |-> TRUE]
        BY <3>1, HeaderMarked
      <3> HIDE DEF s
      <3>3. QED BY <3>1, <3>2 DEF IsLocal
    <2>4. misread' \in BOOLEAN /\ (misread => misread')
      BY <2>2
    <2>5. CASE l.sentSeqHeader
      <3>1. header' = header
        BY <2>2, <2>5
      <3>2. misread' <=> misread
        BY <2>2, <2>5
      <3>3. Agree(s, header, misread')
        BY <2>3, <2>5, <3>2 DEF Agree
      <3>4. QED BY <2>2, <2>3, <2>4, <2>1, <3>1, <3>3
    <2>6. CASE ~l.sentSeqHeader
      <3>1. header' = h
        BY <2>2, <2>6
      <3>2. ~misread' => ~ParameterSets!Foreign(h)
        BY <2>2, <2>6
      <3>3. h.codec = codec /\ h = ParameterSets!HeaderOf(h.codec, l.sets)
        BY DEF ParameterSets!HeaderOf
      <3>4. "sps" \in l.have /\ "pps" \in l.have /\ (codec = "h265" => "vps" \in l.have)
        BY <1>2, <2>6 DEF ParameterSets!Needed
      <3> HIDE DEF h
      <3>5. Agree(s, h, misread')
        BY <2>3, <3>2, <3>3, <3>4 DEF Agree
      <3>6. QED BY <2>2, <2>3, <2>4, <2>6, <2>1, <3>1, <3>5
    <2>7. QED BY <2>5, <2>6
  <1>3. QED BY <1>1, <1>2

\* The header of the thread's sets, when those are the sets of e.
LEMMA HeaderIsFor ==
  ASSUME NEW e \in Sources, NEW l, IsLocal(l), NEW h, Agree(l, h, FALSE), l.sentSeqHeader,
         l.sets["pps"] = SetOf("pps", e), l.sets["sps"] = SetOf("sps", e),
         e.codec = "h265" => l.sets["vps"] = SetOf("vps", e)
  PROVE  h = ParameterSets!HeaderFor(e)
  <1> DEFINE all == [k \in Kinds |-> SetOf(k, e)]
  <1>1. h = ParameterSets!HeaderOf(h.codec, l.sets) /\ ~ParameterSets!Foreign(h) /\ h.codec \in CodecNames
    BY DEF Agree
  <1>2. h.sets["sps"] = l.sets["sps"]
    <2>1. h.sets = IF h.codec = "h265" THEN l.sets ELSE [l.sets EXCEPT !.vps = None]
      BY <1>1 DEF ParameterSets!HeaderOf
    <2>2. QED BY <2>1 DEF IsLocal, Kinds
  <1>3. h.codec = e.codec
    <2>1. h.sets["sps"] # None
      BY <1>2, SetsNotNone DEF Kinds
    <2>2. h.sets["sps"][2] = h.codec
      BY <1>1, <2>1 DEF ParameterSets!Foreign
    <2>3. QED BY <1>2, <2>2, UnitFields DEF Kinds
  <1>4. ParameterSets!HeaderFor(e) = ParameterSets!HeaderOf(e.codec, all)
    BY SetNames DEF ParameterSets!HeaderFor, SetOf
  <1>5. CASE e.codec = "h265"
    <2>1. l.sets = all
      BY <1>5 DEF IsLocal, Kinds
    <2>2. QED BY <1>1, <1>3, <1>4, <2>1
  <1>6. CASE e.codec = "h264"
    <2>1. [l.sets EXCEPT !.vps = None] = [all EXCEPT !.vps = None]
      BY DEF IsLocal, Kinds
    <2>2. QED BY <1>1, <1>3, <1>4, <1>6, <2>1 DEF ParameterSets!HeaderOf
  <1>7. QED BY <1>5, <1>6, UnitFields DEF CodecNames

LEMMA RestTail ==
  ASSUME NEW e \in Sources, NEW s, KeyRest(s, e)
  PROVE  /\ s # <<>> /\ Len(s) \in 1..4
         /\ Len(s) = 1 => Tail(s) = <<>> /\ s[1] = Idr(e)
         /\ Len(s) > 1 => KeyRest(Tail(s), e) /\ Len(Tail(s)) = Len(s) - 1
         /\ Len(s) = 2 => s[1] = SetOf("pps", e)
         /\ Len(s) = 3 => s[1] = SetOf("sps", e)
         /\ Len(s) = 4 => s[1] = SetOf("vps", e) /\ e.codec = "h265"
  <1> DEFINE full == Full(e.codec)
  <1>1. full \in {3, 4}
    BY DEF Full
  <1>2. s \in Seq(Units) /\ Len(s) \in 1..full
    BY DEF KeyRest
  <1> HIDE DEF full
  <1>3. Len(s) \in 1..4 /\ Len(s) <= full
    <2> DEFINE n == Len(s)
    <2>1. n \in 1..full
      BY <1>2
    <2> HIDE DEF n
    <2>2. n \in 1..4 /\ n <= full
      BY <1>1, <2>1
    <2>3. QED BY <2>2 DEF n
  <1>4. s \in Seq(Units) /\ Len(s) \in 1..4 /\ Full(e.codec) \in {3, 4} /\ Len(s) <= Full(e.codec)
    BY <1>1, <1>2, <1>3 DEF full
  <1>5. s # <<>> /\ Tail(s) \in Seq(Units) /\ Len(Tail(s)) = Len(s) - 1
        /\ \A i \in 1..(Len(s) - 1) : Tail(s)[i] = s[i + 1]
    <2>1. s \in Seq(Units) /\ Len(s) \in 1..4
      BY <1>4
    <2>2. s # <<>>
      BY <2>1
    <2>3. QED BY <2>1, <2>2
  <1>6. s[Len(s)] = Idr(e) /\ (Len(s) > 1 => s[Len(s) - 1] = SetOf("pps", e))
       /\ (Len(s) > 2 => s[Len(s) - 2] = SetOf("sps", e))
       /\ (Len(s) > 3 => s[Len(s) - 3] = SetOf("vps", e))
    BY DEF KeyRest
  <1>7. Len(s) = 1 => Tail(s) = <<>> /\ s[1] = Idr(e)
    <2> SUFFICES ASSUME Len(s) = 1 PROVE Tail(s) = <<>> /\ s[1] = Idr(e)
      OBVIOUS
    <2>1. Len(Tail(s)) = 0 /\ Tail(s) \in Seq(Units)
      BY <1>5
    <2> DEFINE t == Tail(s)
    <2> HIDE DEF t
    <2>2. t \in Seq(Units) /\ Len(t) = 0
      BY <2>1 DEF t
    <2>3. t = <<>>
      BY <2>2, EmptySeq
    <2>4. QED BY <1>6, <2>3 DEF t
  <1>8. ASSUME Len(s) > 1 PROVE KeyRest(Tail(s), e)
    <2> DEFINE t == Tail(s)
               n == Len(s)
    <2>1. /\ n \in 2..4 /\ Len(t) = n - 1 /\ t \in Seq(Units) /\ Full(e.codec) \in {3, 4}
          /\ n <= Full(e.codec)
          /\ \A i \in 1..(n - 1) : t[i] = s[i + 1]
      BY <1>4, <1>5, <1>8
    <2>2. /\ s[n] = Idr(e) /\ s[n - 1] = SetOf("pps", e) /\ (n > 2 => s[n - 2] = SetOf("sps", e))
          /\ (n > 3 => s[n - 3] = SetOf("vps", e))
      BY <1>8 DEF KeyRest
    <2> HIDE DEF t, n
    <2>3. t[n - 1] = s[n] /\ (n > 2 => t[n - 2] = s[n - 1]) /\ (n > 3 => t[n - 3] = s[n - 2])
      BY <2>1
    <2>4. KeyRest(t, e)
      BY <2>1, <2>2, <2>3 DEF KeyRest
    <2>5. QED BY <2>4 DEF t
  <1>9. Len(s) = 4 => e.codec = "h265"
    BY <1>4 DEF Full
  <1>10. /\ Len(s) = 2 => s[1] = SetOf("pps", e)
         /\ Len(s) = 3 => s[1] = SetOf("sps", e)
         /\ Len(s) = 4 => s[1] = SetOf("vps", e)
    <2> DEFINE n == Len(s)
    <2>1. /\ n > 1 => s[n - 1] = SetOf("pps", e)
          /\ n > 2 => s[n - 2] = SetOf("sps", e)
          /\ n > 3 => s[n - 3] = SetOf("vps", e)
      BY <1>6
    <2> HIDE DEF n
    <2>2. /\ n = 2 => s[1] = SetOf("pps", e)
          /\ n = 3 => s[1] = SetOf("sps", e)
          /\ n = 4 => s[1] = SetOf("vps", e)
      <3>1. CASE n = 2
        <4>1. n > 1 /\ n - 1 = 1
          BY <3>1
        <4>2. QED BY <2>1, <3>1, <4>1
      <3>2. CASE n = 3
        <4>1. n > 2 /\ n - 2 = 1
          BY <3>2
        <4>2. QED BY <2>1, <3>2, <4>1
      <3>3. CASE n = 4
        <4>1. n > 3 /\ n - 3 = 1
          BY <3>3
        <4>2. QED BY <2>1, <3>3, <4>1
      <3>4. QED BY <3>1, <3>2, <3>3
    <2>3. QED BY <2>2 DEF n
  <1>11. QED BY <1>5, <1>7, <1>8, <1>9, <1>10, <1>3

\* A NAL unit that is read as its own codec's: a set is put in its place, anything
\* else goes out after the header.
LEMMA MuxOwn ==
  ASSUME SetsInv, ParameterSets!Mux, NEW nal, nal = Head(nals)
  PROVE  /\ IsLocal(local') /\ Agree(local', header', misread') /\ misread' \in BOOLEAN
         /\ misread => misread'
         /\ nals # <<>> /\ nals' = Tail(nals) /\ UNCHANGED <<source, codec, pictures>>
         /\ keyed' = ParameterSets!Keyed(nal)
         /\ nal[2] = codec /\ nal[1] \in ParameterSets!Needed(codec) =>
               /\ local'.have = local.have \cup {nal[1]} /\ local'.sets[nal[1]] = nal
               /\ \A k \in Kinds \ {nal[1]} : local'.sets[k] = local.sets[k]
         /\ nal[2] = codec /\ nal[1] \notin ParameterSets!Needed(codec) =>
               /\ local'.have = local.have /\ local'.sets = local.sets
               /\ local.sentSeqHeader => local'.sentSeqHeader /\ header' = header
               /\ local.sentSeqHeader \/ ParameterSets!Needed(codec) \subseteq local.have =>
                     /\ local'.sentSeqHeader
                     /\ nal[1] \in {"idr", "slice"} =>
                           picture' = [of |-> [codec |-> nal[2], geometry |-> nal[3]], codec |-> codec]
  <1> DEFINE kind == ParameterSets!KindOf(nal, codec)
             isSet == kind \in ParameterSets!Needed(codec)
             l == IF isSet THEN ParameterSets!WithSet(local, kind, nal) ELSE local
             inline == ~isSet \/ codec = "h265"
  <1>1. /\ nals # <<>> /\ nals' = Tail(nals) /\ UNCHANGED <<source, codec, pictures>>
        /\ keyed' = ParameterSets!Keyed(nal)
        /\ ParameterSets!Emit(l, nal, inline)
    BY DEF ParameterSets!Mux
  <1>2. inline \in BOOLEAN
    OBVIOUS
  <1>3. nal[2] = codec => kind = nal[1]
    BY DEF ParameterSets!KindOf
  <1> HIDE DEF kind
  <1>4. ParameterSets!Needed(codec) \subseteq Kinds
    BY DEF ParameterSets!Needed, Kinds
  <1>5. /\ IsLocal(local) /\ Agree(local, header, misread) /\ codec \in CodecNames
        /\ misread \in BOOLEAN
    BY DEF SetsInv, SetTypes
  <1>6. CASE isSet
    <2>1. l = ParameterSets!WithSet(local, kind, nal) /\ kind \in Kinds
      BY <1>4, <1>6
    <2> HIDE DEF isSet, l, inline
    <2>2. /\ IsLocal(l) /\ Agree(l, header, misread)
          /\ l.have = local.have \cup {kind} /\ l.sets[kind] = nal
          /\ \A k \in Kinds \ {kind} : l.sets[k] = local.sets[k]
      BY <1>5, <2>1, WithSetAgrees
    <2>3. /\ IsLocal(local') /\ Agree(local', header', misread') /\ misread' \in BOOLEAN
          /\ local'.sets = l.sets /\ local'.have = l.have
          /\ misread => misread'
      BY <1>1, <1>2, <1>5, <2>2, EmitAgrees
    <2>4. nal[2] = codec => nal[1] \in ParameterSets!Needed(codec)
      BY <1>3, <1>6 DEF isSet
    <2>5. QED BY <1>1, <1>3, <2>2, <2>3, <2>4
  <1>7. CASE ~isSet
    <2>1. l = local /\ inline
      BY <1>7
    <2>2. nal[2] = codec => nal[1] \notin ParameterSets!Needed(codec)
      BY <1>3, <1>7
    <2> HIDE DEF isSet, l, inline
    <2>3. ParameterSets!Emit(local, nal, inline)
      BY <1>1, <2>1
    <2>4. /\ IsLocal(local') /\ Agree(local', header', misread') /\ misread' \in BOOLEAN
          /\ local'.sets = local.sets /\ local'.have = local.have
          /\ misread => misread'
          /\ local.sentSeqHeader => local'.sentSeqHeader /\ header' = header
          /\ ParameterSets!Needed(codec) \subseteq local.have => local'.sentSeqHeader
          /\ (local.sentSeqHeader \/ ParameterSets!Needed(codec) \subseteq local.have)
                  /\ nal[1] \in {"idr", "slice"} =>
                picture' = [of |-> [codec |-> nal[2], geometry |-> nal[3]], codec |-> codec]
      BY <1>2, <1>5, <2>1, <2>3, EmitAgrees
    <2>5. QED BY <1>1, <2>2, <2>4
  <1>8. QED BY <1>6, <1>7

LEMMA KeyframeLen ==
  ASSUME NEW c \in CodecNames
  PROVE  Len(ParameterSets!Keyframe([codec |-> c, geometry |-> "any"])) = Full(c)
  <1> DEFINE e == [codec |-> c, geometry |-> "any"]
  <1>1. e.codec = c
    OBVIOUS
  <1> HIDE DEF e
  <1>2. CASE c = "h265"
    <2>1. ParameterSets!Keyframe(e) =
            <<ParameterSets!SetOf("vps", e)>> \o <<ParameterSets!SetOf("sps", e), ParameterSets!SetOf("pps", e),
              <<"idr", e.codec, e.geometry>>>>
      BY <1>1, <1>2 DEF ParameterSets!Keyframe
    <2>2. QED BY <1>2, <2>1 DEF Full, e
  <1>3. CASE c = "h264"
    <2>1. ParameterSets!Keyframe(e) =
            << >> \o <<ParameterSets!SetOf("sps", e), ParameterSets!SetOf("pps", e),
              <<"idr", e.codec, e.geometry>>>>
      BY <1>1, <1>3 DEF ParameterSets!Keyframe
    <2>2. QED BY <1>3, <2>1 DEF Full, e
  <1>4. QED BY <1>2, <1>3 DEF CodecNames

\* A unit ends one kind of frame, of one source.
LEMMA SameSource ==
  ASSUME NEW e \in Sources, NEW f \in Sources
  PROVE  /\ Idr(e) = Idr(f) => e = f
         /\ Idr(e) # Slice(f)
  BY DEF Idr, Slice, Sources

LEMMA SliceRest ==
  ASSUME NEW e \in Sources, NEW f \in Sources
  PROVE  ~KeyRest(<<Slice(f)>>, e)
  <1>1. Len(<<Slice(f)>>) = 1 /\ <<Slice(f)>>[1] = Slice(f)
    OBVIOUS
  <1>2. QED BY <1>1, SameSource DEF KeyRest

LEMMA MuxTypes ==
  ASSUME SetsInv, ParameterSets!Mux
  PROVE  SetTypes' /\ NalsInv' /\ Agree(local, header, misread)'
  <1>1. /\ IsLocal(local') /\ Agree(local', header', misread') /\ misread' \in BOOLEAN
        /\ nals # <<>> /\ nals' = Tail(nals) /\ UNCHANGED <<source, codec, pictures>>
    BY MuxOwn
  <1>2. SetTypes'
    BY <1>1 DEF SetsInv, SetTypes, IsLocal
  <1>3. PICK e \in Sources : nals = <<Slice(e)>> \/ KeyRest(nals, e)
    BY <1>1 DEF SetsInv, NalsInv
  <1>4. NalsInv'
    <2>1. CASE nals = <<Slice(e)>>
      BY <1>1, <2>1 DEF NalsInv
    <2>2. CASE KeyRest(nals, e)
      <3>1. Len(nals) = 1 \/ Len(nals) > 1
        BY <2>2, RestTail
      <3>2. nals' = <<>> \/ KeyRest(nals', e)
        BY <1>1, <2>2, <3>1, RestTail
      <3>3. QED BY <3>2 DEF NalsInv
    <2>3. QED BY <1>3, <2>1, <2>2
  <1>5. Agree(local, header, misread)'
    BY <1>1 DEF Agree
  <1>6. QED BY <1>2, <1>4, <1>5
\* The other codec's units, and slices, leave no keyframe half muxed.
LEMMA MuxSlice ==
  ASSUME SetsInv, ParameterSets!Mux, NEW e \in Sources, nals = <<Slice(e)>>, e.codec = codec
  PROVE  PartialInv' /\ WholeInv'
  <1> DEFINE nal == Head(nals)
  <1>1. nal = Slice(e) /\ Tail(nals) = <<>> /\ Len(nals) = 1
    OBVIOUS
  <1> HIDE DEF nal
  <1>2. nal[1] = "slice" /\ nal[2] = codec
    BY <1>1, UnitFields
  <1>3. nals' = <<>> /\ UNCHANGED <<source, codec, pictures>> /\ keyed' = ParameterSets!Keyed(nal)
        /\ codec \in CodecNames
    BY <1>1, MuxOwn DEF nal, SetsInv, SetTypes
  <1>4. keyed' = keyed
    <2>1. Len(ParameterSets!Keyframe([codec |-> codec, geometry |-> "any"])) # 1
      <3>1. Full(codec) # 1
        BY DEF Full
      <3>2. QED BY <1>3, <3>1, KeyframeLen
    <2>2. QED BY <1>1, <1>2, <1>3, <2>1 DEF ParameterSets!Keyed
  <1>5. ~(keyed # None /\ ~keyed.whole)
    BY SliceRest DEF SetsInv, PartialInv
  <1>6. PartialInv'
    BY <1>4, <1>5 DEF PartialInv
  <1>7. nal[1] \notin ParameterSets!Needed(codec)
    BY <1>2 DEF ParameterSets!Needed
  <1>8. ASSUME keyed # None, keyed.whole
        PROVE  /\ local'.sentSeqHeader /\ header' = header /\ (misread => misread')
               /\ picture' = [of |-> [codec |-> nal[2], geometry |-> nal[3]], codec |-> codec]
    <2>1. local.sentSeqHeader
      BY <1>8 DEF SetsInv, WholeInv
    <2>2. QED BY <1>2, <1>7, <2>1, MuxOwn DEF nal
  <1>9. WholeInv'
    <2> SUFFICES ASSUME keyed # None, keyed.whole
                 PROVE  WholeInv'
      BY <1>4 DEF WholeInv
    <2>1. picture'.codec = codec /\ picture'.of.codec = codec
      BY <1>2, <1>8
    <2>2. keyed.of \in Sources /\ codec = keyed.of.codec
          /\ (~misread => header = ParameterSets!HeaderFor(keyed.of))
      BY DEF SetsInv, WholeInv
    <2>3. ~misread' => header' = ParameterSets!HeaderFor(keyed'.of)
      BY <1>4, <1>8, <2>2
    <2>4. /\ keyed'.of \in Sources /\ codec' = keyed'.of.codec /\ local'.sentSeqHeader
          /\ picture'.codec = codec' /\ picture'.of.codec = codec'
      BY <1>3, <1>4, <1>8, <2>1, <2>2
    <2>5. QED BY <1>3, <2>3, <2>4 DEF WholeInv
  <1>10. QED BY <1>6, <1>9

\* The first unit of a keyframe under its own codec.
LEMMA MuxFirst ==
  ASSUME SetsInv, ParameterSets!Mux, NEW e \in Sources, KeyRest(nals, e), e.codec = codec,
         Len(nals) = Full(codec)
  PROVE  PartialInv' /\ WholeInv'
  <1> DEFINE nal == Head(nals)
             no == FALSE
  <1>1. nal = nals[1] /\ codec \in CodecNames /\ Full(codec) \in {3, 4}
    BY RestTail DEF Full, SetsInv, SetTypes
  <1> HIDE DEF nal
  <1>2. nals' = Tail(nals) /\ UNCHANGED <<source, codec, pictures>> /\ keyed' = ParameterSets!Keyed(nal)
    BY MuxOwn DEF nal
  <1>3. /\ Len(nals) = 3 => nal = SetOf("sps", e)
        /\ Len(nals) = 4 => nal = SetOf("vps", e)
    BY <1>1, RestTail
  <1>4. Len(nals) = 3 \/ Len(nals) = 4
    BY <1>1
  <1>5. nal[2] = codec
    BY <1>3, <1>4, UnitFields DEF Kinds
  <1>6. Len(nals) = Len(ParameterSets!Keyframe([codec |-> codec, geometry |-> "any"]))
    BY <1>1, KeyframeLen
  <1>7. keyed' = [of |-> None, whole |-> no]
    BY <1>2, <1>5, <1>6 DEF ParameterSets!Keyed
  <1> HIDE DEF no
  <1>8. keyed'.whole = no
    BY <1>7
  <1>9. ~keyed'.whole
    BY <1>8 DEF no
  <1>10. WholeInv'
    BY <1>9 DEF WholeInv
  <1>11. KeyRest(nals', e) /\ Len(nals') = Len(nals) - 1
    BY <1>2, <1>4, RestTail
  <1>12. Muxed(local', nals', e)
    <2>1. CASE codec = "h264"
      <3>1. Len(nals) = 3 /\ Len(nals') = 2
        BY <1>11, <2>1 DEF Full
      <3>2. nal[1] = "sps" /\ nal = SetOf("sps", e)
        BY <1>3, <3>1, UnitFields DEF Kinds
      <3>3. "sps" \in local'.have /\ local'.sets["sps"] = nal
        BY <1>5, <2>1, <3>2, MuxOwn DEF ParameterSets!Needed, nal
      <3>4. QED BY <2>1, <3>1, <3>2, <3>3 DEF Muxed
    <2>2. CASE codec = "h265"
      <3>1. Len(nals) = 4 /\ Len(nals') = 3
        BY <1>11, <2>2 DEF Full
      <3>2. nal[1] = "vps" /\ nal = SetOf("vps", e)
        BY <1>3, <3>1, UnitFields DEF Kinds
      <3>3. "vps" \in local'.have /\ local'.sets["vps"] = nal
        BY <1>5, <2>2, <3>2, MuxOwn DEF ParameterSets!Needed, nal
      <3>4. QED BY <2>2, <3>1, <3>2, <3>3 DEF Muxed
    <2>3. QED BY <1>1, <2>1, <2>2 DEF CodecNames
  <1>13. Len(nals') < Full(codec')
    BY <1>1, <1>2, <1>11
  <1>14. codec' = e.codec
    BY <1>2
  <1>15. PartialInv'
    BY <1>11, <1>12, <1>13, <1>14 DEF PartialInv
  <1>16. QED BY <1>10, <1>15

\* In the middle of a keyframe whose units so far were read under its own codec.
LEMMA MuxMiddle ==
  ASSUME SetsInv, ParameterSets!Mux, NEW e \in Sources, KeyRest(nals, e), e.codec = codec,
         Len(nals) # Full(codec)
  PROVE  PartialInv' /\ WholeInv'
  <1> DEFINE nal == Head(nals)
             yes == TRUE
  <1>1. nal = nals[1] /\ codec \in CodecNames /\ Len(nals) \in 1..4 /\ Len(nals) <= Full(codec)
        /\ Full(codec) \in {3, 4}
    BY RestTail DEF KeyRest, SetsInv, SetTypes, Full
  <1> HIDE DEF nal
  <1>2. nals' = Tail(nals) /\ UNCHANGED <<source, codec, pictures>> /\ keyed' = ParameterSets!Keyed(nal)
    BY MuxOwn DEF nal
  <1>3. Len(nals) = 1 \/ Len(nals) = 2 \/ Len(nals) = 3
    BY <1>1
  <1>4. /\ Len(nals) = 1 => nal = Idr(e)
        /\ Len(nals) = 2 => nal = SetOf("pps", e)
        /\ Len(nals) = 3 => nal = SetOf("sps", e)
    BY <1>1, RestTail
  <1>5. /\ nal[2] = codec
        /\ Len(nals) = 1 => nal[1] = "idr" /\ nal[3] = e.geometry
        /\ Len(nals) = 2 => nal[1] = "pps"
        /\ Len(nals) = 3 => nal[1] = "sps"
    BY <1>3, <1>4, UnitFields DEF Kinds
  <1>6. Len(nals) # Len(ParameterSets!Keyframe([codec |-> codec, geometry |-> "any"]))
    BY <1>1, KeyframeLen
  <1>7. keyed' = IF nal[1] = "idr" /\ keyed # None
                 THEN [of |-> [codec |-> nal[2], geometry |-> nal[3]], whole |-> yes] ELSE keyed
    BY <1>2, <1>5, <1>6 DEF ParameterSets!Keyed
  <1>8. ASSUME keyed # None
        PROVE  ~keyed.whole /\ Muxed(local, nals, e)
    <2>1. ~keyed.whole
      <3> SUFFICES ASSUME keyed.whole PROVE FALSE
        OBVIOUS
      <3>1. PICK f \in Sources : nals = <<Slice(f)>> \/ (KeyRest(nals, f) /\ Len(nals) = Full(f.codec))
        BY <1>1, <1>8 DEF SetsInv, WholeInv
      <3>2. nals # <<Slice(f)>>
        BY SliceRest
      <3>3. Idr(e) = Idr(f)
        BY <3>1, <3>2 DEF KeyRest
      <3>4. e = f
        BY <3>3, SameSource
      <3>5. QED BY <3>1, <3>2, <3>4
    <2>2. PICK f \in Sources : KeyRest(nals, f) /\ Muxed(local, nals, f)
      BY <1>8, <2>1 DEF SetsInv, PartialInv
    <2>3. Idr(e) = Idr(f)
      BY <2>2 DEF KeyRest
    <2>4. QED BY <2>1, <2>2, <2>3, SameSource
  <1>9. CASE keyed = None
    BY <1>7, <1>9 DEF PartialInv, WholeInv
  <1>10. CASE keyed # None /\ Len(nals) > 1
    <2>1. Len(nals) # 1 /\ (Len(nals) = 2 \/ Len(nals) = 3)
      <3> DEFINE n == Len(nals)
      <3>1. (n = 1 \/ n = 2 \/ n = 3) /\ n > 1
        BY <1>3, <1>10
      <3> HIDE DEF n
      <3>2. n # 1 /\ (n = 2 \/ n = 3)
        BY <3>1
      <3>3. QED BY <3>2 DEF n
    <2>2. keyed' = keyed /\ ~keyed.whole
      BY <1>5, <1>7, <1>8, <1>10, <2>1
    <2>3. KeyRest(nals', e) /\ Len(nals') = Len(nals) - 1
      BY <1>2, <1>10, RestTail
    <2>4. /\ nal[1] \in ParameterSets!Needed(codec)
          /\ nal[1] \in local'.have /\ local'.sets[nal[1]] = nal
          /\ \A k \in Kinds \ {nal[1]} : local'.sets[k] = local.sets[k]
          /\ local.have \subseteq local'.have
      <3>1. nal[1] \in ParameterSets!Needed(codec)
        BY <1>5, <2>1 DEF ParameterSets!Needed
      <3>2. QED BY <1>5, <3>1, MuxOwn DEF nal
    <2>5. Muxed(local', nals', e)
      <3>1. CASE Len(nals) = 2
        <4>1. nal = SetOf("pps", e) /\ nal[1] = "pps" /\ Len(nals') = 1
          BY <1>4, <1>5, <2>3, <3>1
        <4>2. QED BY <1>8, <1>10, <2>4, <3>1, <4>1 DEF Muxed, Kinds
      <3>2. CASE Len(nals) = 3
        <4>1. nal = SetOf("sps", e) /\ nal[1] = "sps" /\ Len(nals') = 2
          BY <1>4, <1>5, <2>3, <3>2
        <4>2. QED BY <1>8, <1>10, <2>4, <3>2, <4>1 DEF Muxed, Kinds
      <3>3. QED BY <2>1, <3>1, <3>2
    <2>6. codec' = e.codec /\ Len(nals') < Full(codec')
      BY <1>1, <1>2, <2>3
    <2>7. PartialInv'
      BY <2>3, <2>5, <2>6 DEF PartialInv
    <2>8. WholeInv'
      BY <2>2 DEF WholeInv
    <2>9. QED BY <2>7, <2>8
  <1>11. CASE keyed # None /\ Len(nals) = 1
    <2>1. nal[1] = "idr" /\ nal[2] = codec /\ nal[3] = e.geometry
      BY <1>5, <1>11
    <2>2. [codec |-> nal[2], geometry |-> nal[3]] = e
      BY <2>1 DEF Sources
    <2>3. keyed' = [of |-> e, whole |-> yes]
      BY <1>7, <1>11, <2>1, <2>2
    <2> HIDE DEF yes
    <2>4. keyed'.of = e /\ keyed'.whole = yes
      BY <2>3
    <2>5. keyed'.whole
      BY <2>4 DEF yes
    <2>6. PartialInv'
      BY <2>5 DEF PartialInv
    <2>7. Muxed(local, nals, e)
      BY <1>8, <1>11
    <2>8. /\ "pps" \in local.have /\ local.sets["pps"] = SetOf("pps", e)
          /\ "sps" \in local.have /\ local.sets["sps"] = SetOf("sps", e)
          /\ codec = "h265" => "vps" \in local.have /\ local.sets["vps"] = SetOf("vps", e)
      BY <1>11, <2>7 DEF Muxed
    <2>9. ParameterSets!Needed(codec) \subseteq local.have /\ nal[1] \notin ParameterSets!Needed(codec)
      BY <2>1, <2>8 DEF ParameterSets!Needed
    <2>10. /\ local'.sets = local.sets /\ local'.sentSeqHeader
           /\ picture' = [of |-> [codec |-> nal[2], geometry |-> nal[3]], codec |-> codec]
           /\ IsLocal(local') /\ Agree(local', header', misread')
      BY <2>1, <2>9, MuxOwn DEF nal
    <2>11. picture'.of = e /\ picture'.codec = codec
      BY <2>2, <2>10
    <2>12. ASSUME ~misread' PROVE header' = ParameterSets!HeaderFor(e)
      <3>1. Agree(local', header', FALSE)
        BY <2>10, <2>12 DEF Agree
      <3>2. QED BY <2>8, <2>10, <3>1, HeaderIsFor
    <2>13. nals' = <<>>
      BY <1>2, <1>11, RestTail
    <2>14. WholeInv'
      BY <1>2, <2>4, <2>10, <2>11, <2>12, <2>13 DEF WholeInv
    <2>15. QED BY <2>6, <2>14
  <1>12. Len(nals) > 1 \/ Len(nals) = 1
    BY <1>3
  <1>13. QED BY <1>9, <1>10, <1>11, <1>12

LEMMA MuxKeepsSets ==
  ASSUME SetsInv, ParameterSets!Mux
  PROVE  SetsInv'
  <1>1. nals # <<>> /\ keyed' = ParameterSets!Keyed(Head(nals))
    BY MuxOwn
  <1>2. PICK e \in Sources : nals = <<Slice(e)>> \/ KeyRest(nals, e)
    BY <1>1 DEF SetsInv, NalsInv
  <1>3. PartialInv' /\ WholeInv'
    <2>1. CASE e.codec = codec
      BY <1>2, <2>1, MuxSlice, MuxFirst, MuxMiddle
    <2>2. CASE e.codec # codec
      <3>1. Head(nals)[2] = e.codec
        <4>1. CASE nals = <<Slice(e)>>
          <5>1. Head(nals) = Slice(e)
            BY <4>1
          <5>2. QED BY <5>1, UnitFields
        <4>2. CASE KeyRest(nals, e)
          <5>1. Head(nals) = nals[1]
            BY <4>2 DEF KeyRest
          <5>2. Head(nals) \in {Idr(e), SetOf("pps", e), SetOf("sps", e), SetOf("vps", e)}
            BY <4>2, <5>1, RestTail
          <5>3. QED BY <5>2, UnitFields DEF Kinds
        <4>3. QED BY <1>2, <4>1, <4>2
      <3>2. keyed' = None
        BY <1>1, <2>2, <3>1 DEF ParameterSets!Keyed
      <3>3. QED BY <3>2 DEF PartialInv, WholeInv
    <2>3. QED BY <2>1, <2>2
  <1>4. QED BY <1>3, MuxTypes DEF SetsInv

LEMMA ProduceKeepsSets ==
  ASSUME SetsInv, NEW key \in BOOLEAN, ParameterSets!Produce(key)
  PROVE  SetsInv'
  <1> DEFINE f == [of |-> source.of, key |-> key]
             no == FALSE
  <1>1. UNCHANGED <<codec, nals, local, header, picture, keyed, misread>>
    BY DEF ParameterSets!Produce
  <1>2. /\ source \in [of : Sources, key : BOOLEAN]
        /\ pictures \in Seq([of : Sources, key : BOOLEAN])
    BY DEF SetsInv, SetTypes
  <1>3. f \in [of : Sources, key : BOOLEAN] /\ no \in BOOLEAN
    BY <1>2
  <1>4. /\ pictures' = IF muxing THEN Append(pictures, f) ELSE pictures
        /\ source' = [source EXCEPT !.key = no]
    BY DEF ParameterSets!Produce
  <1> HIDE DEF f, no
  <1>5. pictures' \in Seq([of : Sources, key : BOOLEAN])
    <2> DEFINE F == [of : Sources, key : BOOLEAN]
    <2>1. pictures \in Seq(F) /\ f \in F
      BY <1>2, <1>3
    <2> HIDE DEF F
    <2>2. pictures' \in Seq(F)
      BY <1>4, <2>1
    <2>3. QED BY <2>2 DEF F
  <1>6. source' \in [of : Sources, key : BOOLEAN]
    BY <1>2, <1>3, <1>4
  <1>7. SetTypes'
    BY <1>1, <1>5, <1>6 DEF SetsInv, SetTypes, IsLocal
  <1>8. QED BY <1>1, <1>7 DEF SetsInv, NalsInv, PartialInv, WholeInv, Agree

LEMMA EncoderKeepsSets ==
  ASSUME SetsInv, NEW e \in Sources, ParameterSets!EncoderRestarts(e)
  PROVE  SetsInv'
  <1> DEFINE yes == TRUE
  <1>1. UNCHANGED <<codec, pictures, nals, local, header, picture, keyed, misread>>
    BY DEF ParameterSets!EncoderRestarts
  <1>2. source' = [of |-> e, key |-> yes] /\ yes \in BOOLEAN
    BY DEF ParameterSets!EncoderRestarts
  <1> HIDE DEF yes
  <1>3. source' \in [of : Sources, key : BOOLEAN]
    BY <1>2
  <1>4. SetTypes'
    BY <1>1, <1>3 DEF SetsInv, SetTypes, IsLocal
  <1>5. QED BY <1>1, <1>4 DEF SetsInv, NalsInv, PartialInv, WholeInv, Agree

LEMMA CodecKeepsSets ==
  ASSUME SetsInv, NEW c \in CodecNames, ParameterSets!SetChannelCodec(c)
  PROVE  SetsInv'
  <1>1. UNCHANGED <<source, pictures, nals, local, header, picture, misread>>
        /\ codec' = c /\ keyed' = None
    BY DEF ParameterSets!SetChannelCodec
  <1>2. SetTypes'
    BY <1>1 DEF SetsInv, SetTypes, IsLocal
  <1>3. QED BY <1>1, <1>2 DEF SetsInv, NalsInv, PartialInv, WholeInv, Agree

LEMMA ConnStartKeepsSets ==
  ASSUME SetsInv, ParameterSets!ConnStart
  PROVE  SetsInv'
  <1> DEFINE haveVps == cached.sets.vps # None
             sets == [vps |-> cached.sets.vps,
                      sps |-> IF cached.haveSpsPps THEN cached.sets.sps ELSE None,
                      pps |-> IF cached.haveSpsPps THEN cached.sets.pps ELSE None]
             enough == cached.haveSpsPps /\ (codec = "h265" => haveVps)
             h == ParameterSets!HeaderOf(codec, sets)
             have == IF enough THEN ParameterSets!Needed(codec) ELSE {}
  <1>1. /\ local' = [sets |-> sets, have |-> have, sentSeqHeader |-> enough]
        /\ header' = IF enough THEN h ELSE None
        /\ misread' = (enough /\ ParameterSets!Foreign(h))
    BY DEF ParameterSets!ConnStart
  <1>2. UNCHANGED <<source, codec, pictures>> /\ nals' = <<>> /\ keyed' = None
    BY DEF ParameterSets!ConnStart
  <1>3. sets = [k \in Kinds |-> sets[k]]
    <2>1. sets \in [{"vps", "sps", "pps"} -> {sets.vps, sets.sps, sets.pps}]
      OBVIOUS
    <2> HIDE DEF sets
    <2>2. QED BY <2>1 DEF Kinds
  <1>4. have \subseteq Kinds /\ (enough => have = ParameterSets!Needed(codec))
        /\ enough \in BOOLEAN /\ misread' \in BOOLEAN
    BY <1>1 DEF ParameterSets!Needed, Kinds
  <1>5. /\ h.codec = codec /\ h = ParameterSets!HeaderOf(h.codec, sets)
    BY DEF ParameterSets!HeaderOf
  <1>6. (misread' <=> enough /\ ParameterSets!Foreign(h)) /\ (enough => header' = h)
    BY <1>1
  <1> HIDE DEF haveVps, sets, enough, h, have
  <1>7. local'.sets = sets /\ local'.have = have /\ local'.sentSeqHeader = enough
    BY <1>1
  <1>8. IsLocal(local')
    BY <1>1, <1>3, <1>4, <1>7 DEF IsLocal
  <1>9. codec \in CodecNames
    BY DEF SetsInv, SetTypes
  <1>10. Agree(local', header', misread')
    <2> SUFFICES ASSUME enough PROVE Agree(local', header', misread')
      BY <1>7 DEF Agree
    <2>1. "sps" \in have /\ "pps" \in have /\ (codec = "h265" => "vps" \in have)
      BY <1>4 DEF ParameterSets!Needed
    <2>2. QED BY <1>5, <1>6, <1>7, <1>9, <2>1 DEF Agree
  <1>11. SetTypes' /\ Agree(local, header, misread)'
    BY <1>2, <1>4, <1>8, <1>10 DEF SetsInv, SetTypes, IsLocal, Agree
  <1>12. QED BY <1>2, <1>11 DEF SetsInv, NalsInv, PartialInv, WholeInv

\* A thread that has no sets.
LEMMA FreshLocal ==
  /\ IsLocal(ParameterSets!Fresh) /\ ~ParameterSets!Fresh.sentSeqHeader
  <1> DEFINE sets == ParameterSets!NoSets
             none == {}
             no == FALSE
             l == ParameterSets!Fresh
  <1>1. sets = [k \in Kinds |-> sets[k]]
    <2>1. sets \in [{"vps", "sps", "pps"} -> {None}]
      BY DEF ParameterSets!NoSets
    <2> HIDE DEF sets
    <2>2. QED BY <2>1 DEF Kinds
  <1>2. l = [sets |-> sets, have |-> none, sentSeqHeader |-> no]
    BY DEF ParameterSets!Fresh
  <1>3. none \subseteq Kinds /\ no \in BOOLEAN /\ ~no
    OBVIOUS
  <1> HIDE DEF sets, none, no, l
  <1>4. l.sets = sets /\ l.have = none /\ l.sentSeqHeader = no
    BY <1>2
  <1>5. IsLocal(l) /\ ~l.sentSeqHeader
    BY <1>1, <1>2, <1>3, <1>4 DEF IsLocal
  <1>6. QED BY <1>5 DEF l

LEMMA ConnEndsKeepsSets ==
  ASSUME SetsInv, ParameterSets!ConnEnds
  PROVE  SetsInv'
  <1>1. UNCHANGED <<source, codec, pictures>> /\ nals' = <<>> /\ keyed' = None
        /\ local' = ParameterSets!Fresh /\ misread' = FALSE
    BY DEF ParameterSets!ConnEnds
  <1>2. IsLocal(local') /\ ~local'.sentSeqHeader
    BY <1>1, FreshLocal
  <1>3. misread' \in BOOLEAN
    BY <1>1
  <1>4. SetTypes' /\ Agree(local, header, misread)'
    BY <1>1, <1>2, <1>3 DEF SetsInv, SetTypes, IsLocal, Agree
  <1>5. QED BY <1>1, <1>4 DEF SetsInv, NalsInv, PartialInv, WholeInv

\* A ring frame is a slice, or a keyframe of which nothing has been muxed.
LEMMA FrameUnits ==
  ASSUME NEW f \in [of : Sources, key : BOOLEAN]
  PROVE  \/ ParameterSets!Nals(f) = <<Slice(f.of)>>
         \/ /\ KeyRest(ParameterSets!Nals(f), f.of)
            /\ Len(ParameterSets!Nals(f)) = Full(f.of.codec)
  <1> DEFINE e == f.of
             s == ParameterSets!Nals(f)
  <1>1. e \in Sources /\ e.codec \in CodecNames
    BY UnitFields
  <1>2. ~f.key => s = <<Slice(e)>>
    BY DEF ParameterSets!Nals, Slice
  <1>3. f.key => s = ParameterSets!Keyframe(e)
    BY DEF ParameterSets!Nals
  <1> HIDE DEF e, s
  <1>4. /\ SetOf("vps", e) \in Units /\ SetOf("sps", e) \in Units /\ SetOf("pps", e) \in Units
        /\ Idr(e) \in Units
    BY <1>1, UnitFields DEF Kinds
  <1>5. ASSUME f.key, e.codec = "h265"
        PROVE  KeyRest(s, e) /\ Len(s) = Full(e.codec)
    <2> DEFINE u == SetOf("vps", e)
               v == SetOf("sps", e)
               w == SetOf("pps", e)
               x == Idr(e)
    <2>1. s = <<u>> \o <<v, w, x>>
      BY <1>3, <1>5 DEF ParameterSets!Keyframe, SetOf, Idr
    <2>2. u \in Units /\ v \in Units /\ w \in Units /\ x \in Units
      BY <1>4
    <2> HIDE DEF u, v, w, x
    <2>3. s \in Seq(Units) /\ Len(s) = 4 /\ s[4] = x /\ s[3] = w /\ s[2] = v /\ s[1] = u
      BY <2>1, <2>2
    <2>4. Full(e.codec) = 4 /\ Len(s) \in 1..4
      BY <1>5, <2>3 DEF Full
    <2>5. QED BY <2>3, <2>4 DEF KeyRest, u, v, w, x
  <1>6. ASSUME f.key, e.codec = "h264"
        PROVE  KeyRest(s, e) /\ Len(s) = Full(e.codec)
    <2> DEFINE v == SetOf("sps", e)
               w == SetOf("pps", e)
               x == Idr(e)
    <2>1. s = << >> \o <<v, w, x>>
      BY <1>3, <1>6 DEF ParameterSets!Keyframe, SetOf, Idr
    <2>2. v \in Units /\ w \in Units /\ x \in Units
      BY <1>4
    <2> HIDE DEF v, w, x
    <2>3. s \in Seq(Units) /\ Len(s) = 3 /\ s[3] = x /\ s[2] = w /\ s[1] = v
      BY <2>1, <2>2
    <2>4. Full(e.codec) = 3 /\ Len(s) \in 1..3
      BY <1>6, <2>3 DEF Full
    <2>5. QED BY <2>3, <2>4 DEF KeyRest, v, w, x
  <1>7. QED BY <1>1, <1>2, <1>5, <1>6 DEF CodecNames, e, s

LEMMA PopKeepsSets ==
  ASSUME SetsInv, ParameterSets!Pop
  PROVE  SetsInv'
  <1> DEFINE f == Head(pictures)
  <1>1. /\ UNCHANGED <<source, codec, local, header, picture, keyed, misread>>
        /\ nals = <<>> /\ pictures # <<>> /\ nals' = ParameterSets!Nals(f)
        /\ pictures' = Tail(pictures)
    BY DEF ParameterSets!Pop
  <1>2. pictures \in Seq([of : Sources, key : BOOLEAN])
    BY DEF SetsInv, SetTypes
  <1>3. f \in [of : Sources, key : BOOLEAN] /\ pictures' \in Seq([of : Sources, key : BOOLEAN])
    <2> DEFINE F == [of : Sources, key : BOOLEAN]
    <2>1. pictures \in Seq(F)
      BY <1>2
    <2> HIDE DEF F
    <2>2. f \in F /\ pictures' \in Seq(F)
      BY <1>1, <2>1
    <2>3. QED BY <2>2 DEF F
  <1> HIDE DEF f
  <1>4. f.of \in Sources
    BY <1>3
  <1>5. nals' = <<Slice(f.of)>> \/ (KeyRest(nals', f.of) /\ Len(nals') = Full(f.of.codec))
    BY <1>1, <1>3, FrameUnits
  <1>6. SetTypes' /\ Agree(local, header, misread)'
    BY <1>1, <1>3 DEF SetsInv, SetTypes, IsLocal, Agree
  <1>7. NalsInv'
    BY <1>4, <1>5 DEF NalsInv
  <1>8. \A e \in Sources : ~KeyRest(nals, e)
    BY <1>1, RestTail
  <1>9. ~(keyed # None /\ ~keyed.whole)
    BY <1>8 DEF SetsInv, PartialInv
  <1>10. PartialInv'
    BY <1>1, <1>9 DEF PartialInv
  <1>11. WholeInv'
    BY <1>1, <1>4, <1>5 DEF SetsInv, WholeInv
  <1>12. QED BY <1>6, <1>7, <1>10, <1>11 DEF SetsInv

LEMMA SetsInit == ParameterSets!Init => SetsInv
  <1> SUFFICES ASSUME ParameterSets!Init PROVE SetsInv
    OBVIOUS
  <1>1. /\ source \in [of : ParameterSets!Encoders, key : {TRUE}]
        /\ codec = "h264" /\ pictures = <<>> /\ nals = <<>> /\ local = ParameterSets!Fresh
        /\ header = None /\ picture = None /\ keyed = None /\ misread = FALSE
    BY DEF ParameterSets!Init
  <1>2. source \in [of : Sources, key : BOOLEAN]
    <2>1. source = [of |-> source.of, key |-> source.key] /\ source.of \in Sources /\ source.key \in BOOLEAN
      BY <1>1, SetNames
    <2>2. QED BY <2>1
  <1>3. IsLocal(local) /\ ~local.sentSeqHeader
    BY <1>1, FreshLocal
  <1>4. misread \in BOOLEAN /\ codec \in CodecNames
    BY <1>1 DEF CodecNames
  <1>5. pictures \in Seq([of : Sources, key : BOOLEAN])
    BY <1>1
  <1>6. SetTypes /\ Agree(local, header, misread)
    BY <1>2, <1>3, <1>4, <1>5 DEF SetTypes, Agree
  <1>7. QED BY <1>1, <1>6 DEF SetsInv, NalsInv, PartialInv, WholeInv

LEMMA SetsStep ==
  ASSUME SetsInv, [ParameterSets!Next]_setVars
  PROVE  SetsInv'
  <1>1. CASE UNCHANGED setVars
    <2>1. UNCHANGED <<source, codec, pictures, nals, local, header, picture, keyed, misread>>
      BY <1>1 DEF setVars
    <2>2. SetTypes'
      BY <2>1 DEF SetsInv, SetTypes, IsLocal
    <2>3. QED BY <2>1, <2>2 DEF SetsInv, NalsInv, PartialInv, WholeInv, Agree
  <1>2. CASE ParameterSets!Next
    <2>1. \/ \E key \in BOOLEAN : ParameterSets!Produce(key)
          \/ \E e \in Sources : ParameterSets!EncoderRestarts(e)
          \/ \E c \in CodecNames : ParameterSets!SetChannelCodec(c)
          \/ ParameterSets!ConnStart \/ ParameterSets!ConnEnds
          \/ ParameterSets!Pop \/ ParameterSets!Mux
      BY <1>2, SetNames DEF ParameterSets!Next
    <2>2. QED BY <2>1, ProduceKeepsSets, EncoderKeepsSets, CodecKeepsSets, ConnStartKeepsSets,
                 ConnEndsKeepsSets, PopKeepsSets, MuxKeepsSets
  <1>3. QED BY <1>1, <1>2

LEMMA SetsHeader == SetsInv => HeaderInForce
  <1> SUFFICES ASSUME SetsInv, picture # None, keyed # None, keyed.whole, picture.of = keyed.of, ~misread
               PROVE  ParameterSets!Decodable
    BY DEF HeaderInForce, ParameterSets!HeaderInForce, ParameterSets!KeyedPicture
  <1>1. QED BY DEF SetsInv, WholeInv, ParameterSets!Decodable

\* FlvPush.cpp: once a keyframe has gone out, it and the pictures that follow it from the
\* same encoder are sent under the header of their own parameter sets.
THEOREM HeaderInForceHolds == DeviceSpec => []HeaderInForce
  <1>1. DeviceInit => SetsInv
    BY PartInit, SetsInit
  <1>2. SetsInv /\ [DeviceNext]_deviceVars => SetsInv'
    BY PartStep, SetsStep
  <1>3. QED BY <1>1, <1>2, SetsHeader, PTL DEF DeviceSpec
=============================================================================
