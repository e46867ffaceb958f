--------------------------- MODULE PushQueueProofs ---------------------------
(***************************************************************************)
(* Theorems about PushQueue, for any queue size, any number of push        *)
(* threads and any run length after which a stream counter is trusted.     *)
(***************************************************************************)
EXTENDS PushQueue, SequenceTheorems, TLAPS

USE SizeAssumption, FrameBounds, NoneAssumption

\* The last frame that went into the queue and was not dropped from it: the end
\* of the queue or, when that is empty, what a push thread took last.
Newest == IF frames = <<>> THEN popped ELSE frames[Len(frames)]

\* A frame queued now would be decoded after Newest.
Current == ~dropUntilKey /\ Newest # None /\ Newest.span = span

\* What the reader holds comes right after Newest, as far as it can tell.
InStep == reader.frame.blind \/ last = Newest.n + 1

\* Where the reader stands relative to the queue.  As long as it finds the channel
\* active and not frozen the newest queued frame is the last one seen; the frame
\* it offers stays in step until it is queued.
Chain ==
    /\ last = 0 => Newest = None
    /\ ~dropUntilKey /\ Newest # None => Newest.span <= span
    /\ reader.pc # "idle" => reader.frame.n = last /\ last # 0
    /\ reader.pc = "idle" /\ Current => Newest.n = last
    /\ reader.pc = "offer" /\ Current => InStep
    /\ reader.pc = "enqueue" /\ Current => InStep

IInv == TypeOK /\ NoMissingReference /\ Chain

----------------------------------------------------------------------------
(* Type correctness. *)

LEMMA EmitTypeOK ==
  ASSUME TypeOK, NEW lost \in 0..MaxLost, NEW key \in BOOLEAN, Emit(lost, key)
  PROVE  TypeOK'
  <1> DEFINE n == last + lost + 1
  <1>1. n \in Nat /\ (last + lost + 1) \in Nat
    BY DEF TypeOK
  <1>2. run' \in Nat
    BY DEF TypeOK, Emit
  <1>3. trusted' \in BOOLEAN /\ lossy' \in BOOLEAN /\ last' \in Nat /\ delivered' \in Nat
    BY <1>1, <1>2, SMTT(20) DEF TypeOK, Emit
  <1>4. PICK b \in BOOLEAN, pc \in {"gap", "offer"} :
          reader' = [pc |-> pc, frame |-> [n |-> n, key |-> key, span |-> 0, blind |-> b]]
    BY DEF TypeOK, Emit
  <1>5. [n |-> n, key |-> key, span |-> 0, blind |-> b] \in Frame
    BY <1>1 DEF Frame
  <1>6. reader' \in [pc : {"idle", "gap", "flush", "offer", "enqueue"}, frame : Frames]
    BY <1>4, <1>5 DEF Frames
  <1>7. reader'.frame # None
    BY <1>4, <1>5
  <1>8. QED BY <1>3, <1>2, <1>6, <1>7 DEF TypeOK, Emit, queueVars, linkVars

LEMMA DiscontinuityTypeOK ==
  ASSUME TypeOK, DiscontinuityCheck \/ Discontinuity \/ EnqueueCheck
  PROVE  TypeOK'
  <1>1. CASE DiscontinuityCheck
    BY <1>1 DEF TypeOK, DiscontinuityCheck, gapVars, seenVars, queueVars, linkVars
  <1>2. CASE Discontinuity
    BY <1>2 DEF TypeOK, Discontinuity, gapVars, seenVars, linkVars
  <1>3. CASE EnqueueCheck
    BY <1>3 DEF TypeOK, EnqueueCheck, gapVars, seenVars, queueVars, linkVars, Frames
  <1>4. QED BY <1>1, <1>2, <1>3

\* What Enqueue leaves in the queue.
LEMMA EnqueueFrames ==
  ASSUME TypeOK, Enqueue
  PROVE  LET f == [reader.frame EXCEPT !.span = span]
         IN  /\ f \in Frame
             /\ f.n = reader.frame.n /\ f.key = reader.frame.key
             /\ f.blind = reader.frame.blind /\ f.span = span
             /\ \/ dropUntilKey /\ UNCHANGED queueVars
                \/ ~dropUntilKey' /\ frames' = Append(frames, f) /\ (f.key \/ ~dropUntilKey)
                \/ ~dropUntilKey' /\ f.key /\ frames' = <<f>>
                \/ dropUntilKey' /\ frames' = <<>>
  <1>1. reader.frame \in Frame
    BY DEF TypeOK, Enqueue, Frames
  <1>2. [reader.frame EXCEPT !.span = span] \in Frame
    BY <1>1 DEF TypeOK, Frame
  <1>3. /\ [reader.frame EXCEPT !.span = span].n = reader.frame.n
        /\ [reader.frame EXCEPT !.span = span].key = reader.frame.key
        /\ [reader.frame EXCEPT !.span = span].blind = reader.frame.blind
        /\ [reader.frame EXCEPT !.span = span].span = span
    BY <1>1 DEF Frame
  <1>4. reader.frame.key \in BOOLEAN
    BY <1>1 DEF Frame
  <1>5. QED BY <1>2, <1>3, <1>4 DEF TypeOK, Enqueue

LEMMA EnqueueTypeOK ==
  ASSUME TypeOK, Enqueue
  PROVE  TypeOK'
  <1> DEFINE f == [reader.frame EXCEPT !.span = span]
  <1>1. f \in Frame
    BY EnqueueFrames
  <1>2. frames' \in Seq(Frame) /\ dropUntilKey' \in BOOLEAN
    <2>1. Append(frames, f) \in Seq(Frame) /\ <<f>> \in Seq(Frame) /\ <<>> \in Seq(Frame)
      BY <1>1 DEF TypeOK
    <2>2. reader.frame.key \in BOOLEAN
      BY DEF TypeOK, Enqueue, Frames, Frame
    <2>3. frames' \in {frames, Append(frames, f), <<f>>, <<>>}
      BY EnqueueFrames DEF queueVars
    <2>4. dropUntilKey' \in BOOLEAN
      BY <2>2 DEF TypeOK, Enqueue, queueVars
    <2>5. QED BY <2>1, <2>3, <2>4 DEF TypeOK
  <1>3. reader' = [pc |-> "idle", frame |-> None]
    BY DEF Enqueue
  <1>4. QED BY <1>2, <1>3 DEF TypeOK, Enqueue, gapVars, seenVars, linkVars, Frames

LEMMA CloseTypeOK ==
  ASSUME TypeOK, Replace \/ Disconnect
  PROVE  TypeOK'
  <1>1. active' \in BOOLEAN /\ replacing' \in BOOLEAN /\ generation' \in Nat
    <2>1. CASE Replace
      BY <2>1 DEF TypeOK, Replace
    <2>2. CASE Disconnect
      <3>1. active' = FALSE /\ replacing' = replacing /\ generation' = generation + 1
        BY <2>2 DEF Disconnect
      <3>2. replacing \in BOOLEAN /\ generation \in Nat
        BY DEF TypeOK
      <3>3. generation' \in Nat
        BY <3>1, <3>2
      <3>4. active' \in BOOLEAN /\ replacing' \in BOOLEAN
        BY <3>1, <3>2, Zenon
      <3>5. QED BY <3>3, <3>4
    <2>3. QED BY <2>1, <2>2
  <1>2. UNCHANGED <<gapVars, reader, queueVars, push, popped>>
    BY DEF Replace, Disconnect
  <1>3. QED BY <1>1, <1>2 DEF TypeOK, gapVars, seenVars, queueVars

LEMMA LinkTypeOK ==
  ASSUME TypeOK, NEW p \in PushThreads,
         Install(p) \/ PushCheck(p) \/ PeerGone(p) \/ PushEnd(p)
  PROVE  TypeOK'
  <1>1. CASE Install(p)
    <2>1. active' = TRUE /\ replacing' = FALSE /\ generation' \in Nat
      BY <1>1 DEF TypeOK, Install
    <2>2. push' \in [PushThreads -> [pc : {"idle", "loop", "body", "ending"}, gen : Nat]]
      BY <1>1 DEF TypeOK, Install
    <2>3. UNCHANGED <<gapVars, reader, queueVars, popped>>
      BY <1>1 DEF Install
    <2>4. QED BY <2>1, <2>2, <2>3 DEF TypeOK, gapVars, seenVars, queueVars
  <1>2. CASE PushCheck(p)
    BY <1>2 DEF TypeOK, PushCheck, gapVars, seenVars, queueVars, linkVars
  <1>3. CASE PeerGone(p)
    BY <1>3 DEF TypeOK, PeerGone, gapVars, seenVars, queueVars, linkVars
  <1>4. CASE PushEnd(p)
    BY <1>4 DEF TypeOK, PushEnd, gapVars, seenVars, queueVars
  <1>5. QED BY <1>1, <1>2, <1>3, <1>4

LEMMA PopTypeOK ==
  ASSUME TypeOK, NEW p \in PushThreads, Pop(p)
  PROVE  TypeOK'
  <1>1. frames # <<>> => Head(frames) \in Frame /\ Tail(frames) \in Seq(Frame)
    BY HeadTailProperties DEF TypeOK
  <1>2. frames' \in Seq(Frame) /\ popped' \in Frames
    BY <1>1 DEF TypeOK, Pop, Frames
  <1>3. QED BY <1>2 DEF TypeOK, Pop, gapVars, seenVars, linkVars

LEMMA InitTypeOK == Init => TypeOK
  <1> SUFFICES ASSUME Init PROVE TypeOK
    OBVIOUS
  <1>1. frames \in Seq(Frame)
    BY DEF Init
  <1>2. reader \in [pc : {"idle", "gap", "flush", "offer", "enqueue"}, frame : Frames]
    BY DEF Init, Frames
  <1>3. QED BY <1>1, <1>2 DEF Init, TypeOK, Frames

LEMMA NextTypeOK ==
  ASSUME TypeOK, [Next]_vars
  PROVE  TypeOK'
  <1>1. ASSUME NEW lost \in 0..MaxLost, NEW key \in BOOLEAN, Emit(lost, key)
        PROVE  TypeOK'
    BY <1>1, EmitTypeOK
  <1>2. CASE DiscontinuityCheck \/ Discontinuity \/ EnqueueCheck
    BY <1>2, DiscontinuityTypeOK
  <1>3. CASE Enqueue
    BY <1>3, EnqueueTypeOK
  <1>4. ASSUME NEW p \in PushThreads,
               Install(p) \/ PushCheck(p) \/ Pop(p) \/ PeerGone(p) \/ PushEnd(p)
        PROVE  TypeOK'
    BY <1>4, LinkTypeOK, PopTypeOK
  <1>5. CASE Replace \/ Disconnect
    BY <1>5, CloseTypeOK
  <1>6. CASE UNCHANGED vars
    BY <1>6 DEF TypeOK, vars, gapVars, seenVars, queueVars, linkVars
  <1>7. QED BY <1>1, <1>2, <1>3, <1>4, <1>5, <1>6 DEF Next, AtRest

\* In every reachable state every variable holds a value the code can put there:
\* the queue holds frames only, and the reader holds one unless it is idle.
THEOREM TypeCorrect == Spec => []TypeOK
  <1>1. TypeOK /\ [Next]_vars => TypeOK'
    BY NextTypeOK
  <1>2. QED BY InitTypeOK, <1>1, PTL DEF Spec

----------------------------------------------------------------------------
(* The newest frame, and how the steps move it. *)

LEMMA NewestKept ==
  ASSUME UNCHANGED <<frames, popped>>
  PROVE  Newest' = Newest /\ (NoMissingReference => NoMissingReference')
  BY DEF Newest, NoMissingReference

\* A frame that leaves the queue for a push thread is still the newest one if it
\* was: the queue was empty behind it.
LEMMA NewestPop ==
  ASSUME TypeOK, NEW p \in PushThreads, Pop(p)
  PROVE  Newest' = Newest
  <1>1. CASE frames = <<>>
    BY <1>1 DEF Pop, Newest
  <1>2. CASE frames # <<>>
    <2>1. frames \in Seq(Frame) /\ Len(frames) \in Nat /\ Len(frames) # 0
      BY <1>2, EmptySeq DEF TypeOK
    <2>2. /\ Head(frames) = frames[1] /\ Len(Tail(frames)) = Len(frames) - 1
          /\ \A i \in 1..(Len(frames) - 1) : Tail(frames)[i] = frames[i + 1]
      BY <2>1, <1>2, HeadTailProperties
    <2>3. frames' = Tail(frames) /\ popped' = Head(frames)
      BY <1>2 DEF Pop
    <2>4. CASE Len(frames) = 1
      <3>1. frames' = <<>>
        BY <2>1, <2>2, <2>3, <2>4, <1>2, HeadTailProperties, EmptySeq
      <3>2. QED BY <3>1, <2>2, <2>3, <2>4, <1>2 DEF Newest
    <2>5. CASE Len(frames) > 1
      <3>1. frames' # <<>> /\ Len(frames') = Len(frames) - 1
        <4>1. Len(frames') = Len(frames) - 1 /\ Len(frames) - 1 # 0
          BY <2>1, <2>2, <2>3, <2>5
        <4>2. QED BY <4>1, EmptySeq
      <3>2. frames'[Len(frames) - 1] = frames[Len(frames)]
        BY <2>1, <2>2, <2>3, <2>5
      <3>3. QED BY <3>1, <3>2, <1>2 DEF Newest
    <2>6. Len(frames) = 1 \/ Len(frames) > 1
      BY <2>1
    <2>7. QED BY <2>6, <2>4, <2>5
  <1>3. QED BY <1>1, <1>2

\* What follows stays so: whoever pops, the frames come out in order.
LEMMA PopNoMissing ==
  ASSUME TypeOK, NoMissingReference, NEW p \in PushThreads, Pop(p)
  PROVE  NoMissingReference'
  <1>1. CASE frames = <<>>
    BY <1>1 DEF Pop, NoMissingReference
  <1>2. CASE frames # <<>>
    <2>1. frames \in Seq(Frame) /\ Len(frames) \in Nat /\ Len(frames) # 0
      BY <1>2, EmptySeq DEF TypeOK
    <2>2. /\ Head(frames) = frames[1] /\ Len(Tail(frames)) = Len(frames) - 1
          /\ Tail(frames) \in Seq(Frame)
          /\ \A i \in 1..(Len(frames) - 1) : Tail(frames)[i] = frames[i + 1]
      BY <2>1, <1>2, HeadTailProperties
    <2>3. frames' = Tail(frames) /\ popped' = Head(frames)
      BY <1>2 DEF Pop
    <2>4. \A i \in 1..(Len(frames) - 1) : Follows(frames[i], frames[i + 1])
      BY DEF NoMissingReference
    <2>5. ASSUME NEW i \in 1..(Len(frames') - 1)
          PROVE  Follows(frames'[i], frames'[i + 1])
      <3>1. i + 1 \in 1..(Len(frames) - 1) /\ i \in 1..(Len(frames) - 1)
        BY <2>1, <2>2, <2>3
      <3>2. frames'[i] = frames[i + 1] /\ frames'[i + 1] = frames[(i + 1) + 1]
        BY <3>1, <2>2, <2>3
      <3>3. QED BY <3>1, <3>2, <2>4
    <2>6. ASSUME frames' # <<>>
          PROVE  Follows(popped', Head(frames'))
      <3>1. Len(frames') \in Nat /\ Len(frames') # 0
        BY <2>6, <2>2, <2>3, EmptySeq
      <3>2. 1 \in 1..(Len(frames) - 1)
        BY <3>1, <2>1, <2>2, <2>3
      <3>3. Head(frames') = frames[2] /\ popped' = frames[1]
        BY <3>2, <2>2, <2>3, <2>6, HeadTailProperties
      <3>4. QED BY <3>2, <3>3, <2>4
    <2>7. QED BY <2>5, <2>6 DEF NoMissingReference, Follows
  <1>3. QED BY <1>1, <1>2

\* A frame joins the queue behind the newest one.
LEMMA AppendNewest ==
  ASSUME TypeOK, NoMissingReference, NEW f \in Frame,
         frames' = Append(frames, f), popped' = popped,
         Newest # None => Follows(Newest, f)
  PROVE  Newest' = f /\ NoMissingReference'
  <1>1. /\ frames \in Seq(Frame) /\ Len(frames) \in Nat
        /\ Len(frames') = Len(frames) + 1 /\ frames'[Len(frames) + 1] = f
        /\ \A i \in 1..Len(frames) : frames'[i] = frames[i]
        /\ frames' # <<>> /\ frames' \in Seq(Frame)
    BY AppendProperties DEF TypeOK
  <1>2. Newest' = f
    BY <1>1 DEF Newest
  <1>3. ASSUME NEW i \in 1..(Len(frames') - 1)
        PROVE  Follows(frames'[i], frames'[i + 1])
    <2>1. CASE i = Len(frames)
      <3>1. frames # <<>> /\ Newest = frames[i]
        BY <1>1, <2>1 DEF Newest
      <3>2. Newest # None
        BY <3>1, <1>1, <2>1, ElementOfSeq
      <3>3. QED BY <3>1, <3>2, <2>1, <1>1
    <2>2. CASE i < Len(frames)
      <3>1. i \in 1..(Len(frames) - 1)
        BY <2>2, <1>1
      <3>2. Follows(frames[i], frames[i + 1])
        BY <3>1 DEF NoMissingReference
      <3>3. frames'[i] = frames[i] /\ frames'[i + 1] = frames[i + 1]
        BY <3>1, <1>1
      <3>4. QED BY <3>2, <3>3
    <2>3. QED BY <2>1, <2>2, <1>1
  <1>4. ASSUME popped' # None
        PROVE  Follows(popped', Head(frames'))
    <2>1. CASE frames = <<>>
      <3>1. Newest = popped
        BY <2>1 DEF Newest
      <3>2. Head(frames') = f
        BY <2>1, <1>1, HeadTailProperties, EmptySeq
      <3>3. QED BY <3>1, <3>2, <1>4
    <2>2. CASE frames # <<>>
      <3>1. Head(frames') = Head(frames)
        BY <2>2, <1>1, HeadTailProperties, EmptySeq
      <3>2. Follows(popped, Head(frames))
        BY <2>2, <1>4 DEF NoMissingReference
      <3>3. QED BY <3>1, <3>2
    <2>3. QED BY <2>1, <2>2
  <1>5. QED BY <1>2, <1>3, <1>4 DEF NoMissingReference, Follows

----------------------------------------------------------------------------
(* Each action keeps the reader and the queue in step. *)

LEMMA NewestType == TypeOK => Newest \in Frames
  <1> SUFFICES ASSUME TypeOK PROVE Newest \in Frames
    OBVIOUS
  <1>1. CASE frames = <<>>
    BY <1>1 DEF TypeOK, Newest
  <1>2. CASE frames # <<>>
    <2>1. frames[Len(frames)] \in Frame
      BY <1>2, EmptySeq, ElementOfSeq DEF TypeOK
    <2>2. QED BY <2>1, <1>2 DEF Newest, Frames
  <1>3. QED BY <1>1, <1>2

\* Nothing queued before matters once the reader has found the channel inactive.
LEMMA NewSpan ==
  ASSUME TypeOK, Chain, span' = span + 1, Newest' = Newest, dropUntilKey' = dropUntilKey
  PROVE  ~Current' /\ (~dropUntilKey /\ Newest # None => Newest.span <= span')
  <1>1. span \in Nat /\ (Newest # None => Newest.span \in Nat)
    BY NewestType DEF TypeOK, Frames, Frame
  <1>2. ~dropUntilKey /\ Newest # None => Newest.span < span'
    BY <1>1 DEF Chain
  <1>3. QED BY <1>1, <1>2 DEF Current

LEMMA EmitChain ==
  ASSUME IInv, NEW lost \in 0..MaxLost, NEW key \in BOOLEAN, Emit(lost, key)
  PROVE  NoMissingReference' /\ Chain'
  <1>1. Newest' = Newest /\ NoMissingReference'
    BY NewestKept DEF IInv, Emit, queueVars
  <1>2. last' = last + lost + 1 /\ last \in Nat /\ last' \in Nat /\ last' # 0
    BY SMTT(20) DEF IInv, TypeOK, Emit
  <1>3. reader'.frame.n = last' /\ reader'.pc \in {"gap", "offer"}
    BY <1>2 DEF Emit
  <1>4. UNCHANGED <<dropUntilKey, span>>
    BY DEF Emit, queueVars
  <1>5. ASSUME reader'.pc = "offer", Current
        PROVE  InStep'
    <2>1. reader.pc = "idle"
      BY DEF Emit
    <2>2. Newest.n = last
      BY <2>1, <1>5 DEF IInv, Chain
    <2>3. last # 0
      BY <1>5 DEF IInv, Chain, Current
    <2>4. CASE lost = 0
      BY <2>2, <2>4, <1>1, <1>2 DEF InStep
    <2>5. CASE lost # 0
      <3>1. ~trusted
        BY <2>3, <2>5, <1>5 DEF Emit
      <3>2. reader'.frame.blind = (last # 0 /\ ~(lost = 0) /\ ~trusted)
        BY DEF Emit
      <3>3. QED BY <3>1, <3>2, <2>3, <2>5 DEF InStep
    <2>6. QED BY <2>4, <2>5
  <1>6. QED BY <1>1, <1>2, <1>3, <1>4, <1>5 DEF IInv, Chain, Current

\* A detected loss on an active channel freezes it; on an inactive one it begins
\* a new span.
LEMMA DiscontinuityChain ==
  ASSUME IInv, DiscontinuityCheck \/ Discontinuity
  PROVE  NoMissingReference' /\ Chain'
  <1>1. CASE DiscontinuityCheck
    <2>1. Newest' = Newest /\ NoMissingReference'
      BY <1>1, NewestKept DEF IInv, DiscontinuityCheck, queueVars
    <2>2. /\ reader.pc = "gap" /\ reader'.frame = reader.frame
          /\ reader'.pc = IF active THEN "flush" ELSE "offer"
      BY <1>1 DEF IInv, TypeOK, DiscontinuityCheck
    <2>3. UNCHANGED <<last, dropUntilKey>> /\ span' = IF active THEN span ELSE span + 1
      BY <1>1 DEF DiscontinuityCheck, seenVars, queueVars
    <2>4. ~active => ~Current' /\ (~dropUntilKey /\ Newest # None => Newest.span <= span')
      BY <2>1, <2>3, NewSpan DEF IInv
    <2>5. QED BY <2>1, <2>2, <2>3, <2>4 DEF IInv, Chain, Current
  <1>2. CASE Discontinuity
    <2>1. frames' = <<>> /\ popped' = popped /\ dropUntilKey' = TRUE
      BY <1>2 DEF Discontinuity
    <2>2. NoMissingReference'
      BY <2>1, EmptySeq DEF NoMissingReference
    <2>3. Newest' = popped
      BY <2>1 DEF Newest
    <2>4. /\ reader.pc = "flush" /\ reader'.frame = reader.frame /\ reader'.pc = "offer"
          /\ UNCHANGED <<last, span>>
      BY <1>2 DEF IInv, TypeOK, Discontinuity, gapVars, seenVars
    <2>5. QED BY <2>1, <2>2, <2>3, <2>4 DEF IInv, Chain, Current
  <1>3. QED BY <1>1, <1>2

LEMMA EnqueueCheckChain ==
  ASSUME IInv, EnqueueCheck
  PROVE  NoMissingReference' /\ Chain'
  <1>1. Newest' = Newest /\ NoMissingReference'
    BY NewestKept DEF IInv, EnqueueCheck, queueVars
  <1>2. UNCHANGED <<last, dropUntilKey>> /\ span' = IF active THEN span ELSE span + 1
    BY DEF EnqueueCheck, seenVars, queueVars
  <1>3. CASE active
    <2>1. reader.pc = "offer" /\ reader'.frame = reader.frame /\ reader'.pc = "enqueue"
      BY <1>3 DEF IInv, TypeOK, EnqueueCheck
    <2>2. QED BY <1>1, <1>2, <1>3, <2>1 DEF IInv, Chain, Current, InStep
  <1>4. CASE ~active
    <2>1. reader'.pc = "idle"
      BY <1>4 DEF EnqueueCheck
    <2>2. ~Current' /\ (~dropUntilKey /\ Newest # None => Newest.span <= span')
      BY <1>1, <1>2, <1>4, NewSpan DEF IInv
    <2>3. QED BY <1>1, <1>2, <1>4, <2>1, <2>2 DEF IInv, Chain
  <1>5. QED BY <1>3, <1>4

\* The frame that passed the checks is in step with the queue, is a keyframe or
\* begins a span: it follows the newest one.
LEMMA EnqueueChain ==
  ASSUME IInv, Enqueue
  PROVE  NoMissingReference' /\ Chain'
  <1> DEFINE f == [reader.frame EXCEPT !.span = span]
  <1>1. TypeOK /\ NoMissingReference /\ reader.pc = "enqueue"
    BY DEF IInv, Enqueue
  <1>2. /\ f \in Frame /\ f.n = reader.frame.n /\ f.key = reader.frame.key
        /\ f.blind = reader.frame.blind /\ f.span = span
    BY <1>1, EnqueueFrames
  <1>3. UNCHANGED <<last, span, popped>> /\ reader'.pc = "idle"
    BY DEF Enqueue, gapVars, seenVars
  <1>4. f.n = last /\ last # 0 /\ last \in Nat /\ span \in Nat
    BY <1>1, <1>2 DEF IInv, Chain, TypeOK
  <1>5. CASE dropUntilKey /\ UNCHANGED queueVars
    <2>1. Newest' = Newest /\ NoMissingReference'
      BY <1>1, <1>3, <1>5, NewestKept DEF queueVars
    <2>2. QED BY <1>3, <1>4, <1>5, <2>1 DEF Chain, Current, queueVars
  <1>6. CASE ~dropUntilKey' /\ frames' = Append(frames, f) /\ (f.key \/ ~dropUntilKey)
    <2>1. ASSUME Newest # None, ~f.key, Newest.span = span
          PROVE  Follows(Newest, f)
      <3>1. InStep
        BY <1>1, <1>6, <2>1 DEF IInv, Chain, Current
      <3>2. QED BY <3>1, <1>2, <1>4 DEF InStep, Follows
    <2>2. Newest # None => Follows(Newest, f)
      BY <2>1, <1>2 DEF Follows
    <2>3. Newest' = f /\ NoMissingReference'
      BY <1>1, <1>2, <1>3, <1>6, <2>2, AppendNewest
    <2>4. QED BY <2>3, <1>2, <1>3, <1>4 DEF Chain, Current
  <1>7. CASE ~dropUntilKey' /\ f.key /\ frames' = <<f>>
    <2>1. frames' # <<>> /\ Len(frames') = 1 /\ frames'[1] = f /\ Head(frames') = f
      BY <1>7, <1>2
    <2>2. Newest' = f
      BY <2>1 DEF Newest
    <2>3. NoMissingReference'
      <3>1. 1..(Len(frames') - 1) = {}
        BY <2>1
      <3>2. Follows(popped', Head(frames'))
        BY <2>1, <1>7 DEF Follows
      <3>3. QED BY <3>1, <3>2 DEF NoMissingReference, Follows
    <2>4. QED BY <2>2, <2>3, <1>2, <1>3, <1>4 DEF Chain, Current
  <1>8. CASE dropUntilKey' /\ frames' = <<>>
    <2>1. NoMissingReference'
      BY <1>8, EmptySeq DEF NoMissingReference
    <2>2. QED BY <2>1, <1>3, <1>4, <1>8 DEF Chain, Current
  <1>9. QED BY <1>1, <1>5, <1>6, <1>7, <1>8, EnqueueFrames

\* The connection comes and goes without the reader and the queue.
LEMMA LinkChain ==
  ASSUME IInv, UNCHANGED <<gapVars, reader, queueVars, popped>>
  PROVE  NoMissingReference' /\ Chain'
  <1>1. UNCHANGED <<frames, popped, dropUntilKey, last, reader, span>>
    BY DEF gapVars, seenVars, queueVars
  <1>2. Newest' = Newest /\ NoMissingReference'
    BY <1>1, NewestKept DEF IInv
  <1>3. QED BY <1>1, <1>2 DEF IInv, Chain, Current, InStep

LEMMA PopChain ==
  ASSUME IInv, NEW p \in PushThreads, Pop(p)
  PROVE  NoMissingReference' /\ Chain'
  <1>1. Newest' = Newest /\ NoMissingReference'
    BY NewestPop, PopNoMissing DEF IInv
  <1>2. UNCHANGED <<dropUntilKey, last, reader, span>>
    BY DEF Pop, gapVars, seenVars
  <1>3. QED BY <1>1, <1>2 DEF IInv, Chain, Current, InStep

LEMMA InitIInv == Init => IInv
  <1> SUFFICES ASSUME Init PROVE IInv
    OBVIOUS
  <1>1. Newest = None /\ reader.pc = "idle" /\ popped = None /\ frames = <<>>
    BY DEF Init, Newest
  <1>2. QED BY <1>1, InitTypeOK, EmptySeq DEF IInv, Chain, Current, NoMissingReference

LEMMA NextIInv ==
  ASSUME IInv, [Next]_vars
  PROVE  IInv'
  <1>1. TypeOK'
    BY NextTypeOK DEF IInv
  <1>2. NoMissingReference' /\ Chain'
    <2>1. ASSUME NEW lost \in 0..MaxLost, NEW key \in BOOLEAN, Emit(lost, key)
          PROVE  NoMissingReference' /\ Chain'
      BY <2>1, EmitChain
    <2>2. CASE DiscontinuityCheck \/ Discontinuity
      BY <2>2, DiscontinuityChain
    <2>3. CASE EnqueueCheck
      BY <2>3, EnqueueCheckChain
    <2>4. CASE Enqueue
      BY <2>4, EnqueueChain
    <2>5. ASSUME NEW p \in PushThreads, Pop(p) PROVE NoMissingReference' /\ Chain'
      BY <2>5, PopChain
    <2>6. ASSUME NEW p \in PushThreads,
                 Install(p) \/ PushCheck(p) \/ PeerGone(p) \/ PushEnd(p)
          PROVE  NoMissingReference' /\ Chain'
      BY <2>6, LinkChain DEF Install, PushCheck, PeerGone, PushEnd
    <2>7. CASE Replace \/ Disconnect \/ UNCHANGED vars
      BY <2>7, LinkChain DEF Replace, Disconnect, vars
    <2>8. QED BY <2>1, <2>2, <2>3, <2>4, <2>5, <2>6, <2>7 DEF Next, AtRest
  <1>3. QED BY <1>1, <1>2 DEF IInv

\* No frame a push thread takes or finds in the queue predicts from a missing
\* one: after an overflow or a detected loss nothing is queued before the next
\* keyframe, however the connection comes and goes meanwhile and however many
\* push threads, current or superseded, pop from the queue.
THEOREM NoMissingReferenceHolds == Spec => []NoMissingReference
  <1>1. IInv /\ [Next]_vars => IInv'
    BY NextIInv
  <1>2. IInv => NoMissingReference
    BY DEF IInv
  <1>3. QED BY InitIInv, <1>1, <1>2, PTL DEF Spec
=============================================================================
