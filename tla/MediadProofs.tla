---------------------------- MODULE MediadProofs ----------------------------
(***************************************************************************)
(* Theorems about MediadDelta, for any controls, values, messages, resets  *)
(* and connections.                                                        *)
(***************************************************************************)
EXTENDS MediadDelta, LeastNumbers, TLAPS

USE KeysAssumption, ValuesAssumption, MediadBounds

WorkerPcs == {"idle", "gate", "stash", "filter", "send", "record", "resetgate", "reset", "rearm"}
WorkerRecords == [pc : WorkerPcs, todo : Controls, complete : BOOLEAN, first : BOOLEAN]
ReapplyRecords == [pc : {"idle", "snapshot", "send"}, todo : Controls]
Lefts == [messages : Nat, resets : Nat, connects : 0..MaxConnects, starts : Nat, timeouts : Nat]

\* A goroutine that sends has something to send.
Busy(p) == p.pc \in {"send", "record"} => DOMAIN p.todo # {}

TypeInv ==
    /\ daemon \in [state : {"down", "booting", "up"}, pid : Nat, val : [Keys -> Values]]
    /\ ready \in BOOLEAN /\ fresh \in BOOLEAN
    /\ watch \in [pc : {"start", "sleep", "force", "detect"}, lastPid : 0..daemon.pid]
    /\ delta \in [last : Controls, seed : BOOLEAN, pending : BOOLEAN]
    /\ worker \in [Workers -> WorkerRecords] /\ \A w \in Workers : Busy(worker[w])
    /\ reapply \in [Reappliers -> ReapplyRecords] /\ \A r \in Reappliers : Busy(reapply[r])
    /\ seeded \subseteq Keys /\ greeted \in BOOLEAN
    /\ left \in Lefts

----------------------------------------------------------------------------
(* What the operators compute. *)

LEMMA ControlsDef ==
  ASSUME NEW f
  PROVE  f \in Controls <=> \E K \in SUBSET Keys : f \in [K -> Values]
  BY DEF Controls

LEMMA ControlsDomain ==
  ASSUME NEW f \in Controls
  PROVE  DOMAIN f \subseteq Keys /\ f \in [DOMAIN f -> Values]
  BY ControlsDef

LEMMA NoControlsType == NoControls \in Controls /\ DOMAIN NoControls = {}
  <1>1. NoControls \in [{} -> Values]
    BY DEF NoControls
  <1>2. QED BY <1>1, ControlsDef DEF NoControls

LEMMA FirstKeyIn ==
  ASSUME NEW todo \in Controls, DOMAIN todo # {}
  PROVE  FirstKey(todo) \in DOMAIN todo /\ FirstKey(todo) \in Keys /\ todo[FirstKey(todo)] \in Values
  <1>1. DOMAIN todo \subseteq Keys /\ todo \in [DOMAIN todo -> Values]
    BY ControlsDomain
  <1>2. \E k \in DOMAIN todo : \A j \in DOMAIN todo : k <= j
    BY <1>1, LeastNumber
  <1>3. FirstKey(todo) \in DOMAIN todo
    BY <1>2 DEF FirstKey
  <1>4. QED BY <1>1, <1>3

LEMMA PartOfControls ==
  ASSUME NEW todo \in Controls, NEW S \in SUBSET DOMAIN todo
  PROVE  /\ [k \in S |-> todo[k]] \in Controls
         /\ DOMAIN [k \in S |-> todo[k]] = S
  <1>1. S \subseteq Keys /\ [k \in S |-> todo[k]] \in [S -> Values]
    BY ControlsDomain
  <1>2. QED BY <1>1, ControlsDef

LEMMA WithoutType ==
  ASSUME NEW todo \in Controls, NEW key
  PROVE  Without(todo, key) \in Controls /\ DOMAIN Without(todo, key) = DOMAIN todo \ {key}
  BY PartOfControls DEF Without

LEMMA RecordedType ==
  ASSUME NEW vals \in Controls, delta.last \in Controls
  PROVE  /\ Recorded(vals) \in Controls
         /\ DOMAIN Recorded(vals) = DOMAIN vals \cup DOMAIN delta.last
         /\ \A k \in DOMAIN vals : Recorded(vals)[k] = vals[k]
         /\ \A k \in DOMAIN delta.last \ DOMAIN vals : Recorded(vals)[k] = delta.last[k]
  <1> DEFINE D == DOMAIN vals \cup DOMAIN delta.last
  <1>1. /\ D \subseteq Keys
        /\ \A k \in DOMAIN vals : vals[k] \in Values
        /\ \A k \in DOMAIN delta.last : delta.last[k] \in Values
    BY ControlsDomain
  <1>2. Recorded(vals) \in [D -> Values]
    BY <1>1 DEF Recorded
  <1>3. QED BY <1>1, <1>2, ControlsDef DEF Recorded

LEMMA IdleTypes ==
  /\ IdleWorker \in WorkerRecords /\ Busy(IdleWorker) /\ IdleWorker.pc = "idle"
  /\ IdleReapply \in ReapplyRecords /\ Busy(IdleReapply) /\ IdleReapply.pc = "idle"
  /\ ~IdleWorker.complete /\ ~IdleWorker.first
  BY NoControlsType DEF IdleWorker, WorkerRecords, WorkerPcs, Busy, IdleReapply, ReapplyRecords

\* One worker's record is replaced.
LEMMA WorkerSet ==
  ASSUME TypeInv, NEW w \in Workers, NEW r \in WorkerRecords, Busy(r),
         worker' = [worker EXCEPT ![w] = r]
  PROVE  /\ worker' \in [Workers -> WorkerRecords] /\ \A v \in Workers : Busy(worker'[v])
         /\ worker'[w] = r /\ \A v \in Workers \ {w} : worker'[v] = worker[v]
  BY DEF TypeInv

\* ... or its program counter alone.
LEMMA WorkerGoes ==
  ASSUME TypeInv, NEW w \in Workers, NEW pc \in WorkerPcs,
         pc \in {"send", "record"} => worker[w].pc \in {"send", "record"},
         worker' = [worker EXCEPT ![w].pc = pc]
  PROVE  /\ worker' \in [Workers -> WorkerRecords] /\ \A v \in Workers : Busy(worker'[v])
         /\ worker'[w].pc = pc /\ worker'[w].todo = worker[w].todo
         /\ worker'[w].complete = worker[w].complete /\ worker'[w].first = worker[w].first
         /\ \A v \in Workers \ {w} : worker'[v] = worker[v]
  <1>1. worker[w] \in WorkerRecords /\ Busy(worker[w])
    BY DEF TypeInv
  <1> DEFINE r == [worker[w] EXCEPT !.pc = pc]
  <1>2. /\ r \in WorkerRecords /\ r.pc = pc /\ r.todo = worker[w].todo
        /\ r.complete = worker[w].complete /\ r.first = worker[w].first
    BY <1>1 DEF WorkerRecords
  <1>3. Busy(r)
    BY <1>1, <1>2 DEF Busy
  <1>4. worker' = [worker EXCEPT ![w] = r]
    OBVIOUS
  <1> HIDE DEF r
  <1>5. QED BY <1>2, <1>3, <1>4, WorkerSet

LEMMA SkipType ==
  ASSUME TypeInv, NEW w \in Workers, NEW k \in Keys, worker[w].pc \in {"send", "record"},
         Skip(w, k)
  PROVE  /\ worker' \in [Workers -> WorkerRecords] /\ \A v \in Workers : Busy(worker'[v])
         /\ worker'[w].pc \in {"idle", "send"}
         /\ \A v \in Workers \ {w} : worker'[v] = worker[v]
  <1>1. worker[w] \in WorkerRecords /\ Busy(worker[w]) /\ DOMAIN worker[w].todo # {}
    BY DEF TypeInv, Busy
  <1> DEFINE rest == Without(worker[w].todo, k)
             r == [worker[w] EXCEPT !.pc = "send", !.todo = rest]
  <1>2. rest \in Controls
    BY <1>1, WithoutType DEF WorkerRecords
  <1>3. CASE DOMAIN rest = {}
    <2>1. worker' = [worker EXCEPT ![w] = IdleWorker]
      BY <1>3 DEF Skip
    <2>2. QED BY <2>1, IdleTypes, WorkerSet
  <1>4. CASE DOMAIN rest # {}
    <2>1. r \in WorkerRecords /\ r.pc = "send" /\ Busy(r)
      BY <1>1, <1>2, <1>4 DEF WorkerRecords, WorkerPcs, Busy
    <2>2. worker' = [worker EXCEPT ![w] = r]
      BY <1>4 DEF Skip
    <2> HIDE DEF r
    <2>3. QED BY <2>1, <2>2, WorkerSet
  <1>5. QED BY <1>3, <1>4

\* A new look at the daemon may start a re-application, and nothing else.
LEMMA DetectType ==
  ASSUME TypeInv, NEW cached \in BOOLEAN, Detect(cached)
  PROVE  /\ ready' \in BOOLEAN /\ fresh' \in BOOLEAN
         /\ reapply' \in [Reappliers -> ReapplyRecords] /\ \A r \in Reappliers : Busy(reapply'[r])
         /\ \A r \in Reappliers :
               reapply'[r] = reapply[r] \/ (reapply'[r].pc = "snapshot" /\ ~ready)
         /\ ~ready' => ready' = ready \/ ~Responsive
  <1>1. CASE cached
    <2>1. UNCHANGED <<ready, fresh, reapply>>
      BY <1>1 DEF Detect
    <2>2. QED BY <2>1 DEF TypeInv
  <1>2. CASE ~cached
    <2>1. /\ fresh' = TRUE
          /\ ready' = Responsive
      BY <1>2 DEF Detect
    <2>2. ready' \in BOOLEAN /\ fresh' \in BOOLEAN
      BY <2>1 DEF Responsive
    <2>3. CASE ~ready /\ Responsive
      <3>1. PICK r \in Reappliers :
              reapply[r].pc = "idle" /\ reapply' = [reapply EXCEPT ![r].pc = "snapshot"]
        BY <1>2, <2>3 DEF Detect
      <3>2. reapply[r] \in ReapplyRecords
        BY DEF TypeInv
      <3> DEFINE p == [reapply[r] EXCEPT !.pc = "snapshot"]
      <3>3. p \in ReapplyRecords /\ p.pc = "snapshot" /\ Busy(p)
        BY <3>2 DEF ReapplyRecords, Busy
      <3>4. reapply' = [reapply EXCEPT ![r] = p]
        BY <3>1
      <3> HIDE DEF p
      <3>5. QED BY <2>1, <2>2, <2>3, <3>3, <3>4 DEF TypeInv
    <2>4. CASE ~(~ready /\ Responsive)
      <3>1. UNCHANGED reapply
        BY <1>2, <2>4 DEF Detect
      <3>2. QED BY <2>1, <2>2, <3>1 DEF TypeInv
    <2>5. QED BY <2>3, <2>4
  <1>3. QED BY <1>1, <1>2

\* What one command does to the daemon.
LEMMA SetType ==
  ASSUME TypeInv, NEW k \in Keys, NEW v \in Values, SetDone(k, v) \/ SetLost \/ SetTimesOut(k, v)
  PROVE  /\ daemon' \in [state : {"down", "booting", "up"}, pid : Nat, val : [Keys -> Values]]
         /\ daemon'.state = daemon.state /\ daemon'.pid = daemon.pid
         /\ SetDone(k, v) => /\ daemon'.val[k] = v
                             /\ \A j \in Keys \ {k} : daemon'.val[j] = daemon.val[j]
         /\ fresh' \in BOOLEAN
         /\ left' \in Lefts
  <1>1. /\ daemon \in [state : {"down", "booting", "up"}, pid : Nat, val : [Keys -> Values]]
        /\ left \in Lefts /\ fresh \in BOOLEAN
    BY DEF TypeInv
  <1> DEFINE d == [daemon EXCEPT !.val[k] = v]
  <1>2. /\ d \in [state : {"down", "booting", "up"}, pid : Nat, val : [Keys -> Values]]
        /\ d.state = daemon.state /\ d.pid = daemon.pid
        /\ d.val[k] = v /\ \A j \in Keys \ {k} : d.val[j] = daemon.val[j]
    BY <1>1
  <1>3. daemon' = d \/ daemon' = daemon
    BY DEF SetDone, SetLost, SetTimesOut
  <1>4. SetDone(k, v) => daemon' = d
    BY DEF SetDone
  <1>5. fresh' \in BOOLEAN
    BY <1>1 DEF SetDone, SetLost, SetTimesOut
  <1>6. left' \in Lefts
    BY <1>1 DEF SetDone, SetLost, SetTimesOut, Lefts
  <1> HIDE DEF d
  <1>7. QED BY <1>1, <1>2, <1>3, <1>4, <1>5, <1>6

----------------------------------------------------------------------------
(* Types: the messages, what the goroutines do with them, and the rest. *)

LEMMA InitType == Init => TypeInv
  <1> SUFFICES ASSUME Init PROVE TypeInv
    OBVIOUS
  <1>1. /\ daemon \in [state : {"down", "booting", "up"}, pid : Nat, val : [Keys -> Values]]
        /\ watch \in [pc : {"start", "sleep", "force", "detect"}, lastPid : 0..daemon.pid]
    <2>1. PICK s \in Starting :
            /\ daemon = [state |-> s, pid |-> IF s = "down" THEN 0 ELSE 1,
                         val |-> [k \in Keys |-> Default]]
            /\ watch = [pc |-> "start", lastPid |-> IF s = "down" THEN 0 ELSE 1]
      BY DEF Init
    <2>2. s \in {"down", "booting", "up"}
      OBVIOUS
    <2>3. QED BY <2>1, <2>2
  <1>2. ready = FALSE /\ fresh = FALSE
    BY DEF Init
  <1>3. delta \in [last : Controls, seed : BOOLEAN, pending : BOOLEAN]
    BY NoControlsType DEF Init
  <1>4. worker \in [Workers -> WorkerRecords] /\ \A w \in Workers : Busy(worker[w])
    BY IdleTypes DEF Init
  <1>5. reapply \in [Reappliers -> ReapplyRecords] /\ \A r \in Reappliers : Busy(reapply[r])
    BY IdleTypes DEF Init
  <1>6. seeded \subseteq Keys /\ greeted \in BOOLEAN
    BY DEF Init
  <1>7. left \in Lefts
    BY DEF Init, Lefts
  <1>8. QED BY <1>1, <1>2, <1>3, <1>4, <1>5, <1>6, <1>7 DEF TypeInv

LEMMA ConnectType ==
  ASSUME TypeInv, Connect
  PROVE  /\ TypeInv'
         /\ DOMAIN delta'.last = {} /\ delta'.seed
         /\ left.connects > 0 /\ left'.connects = left.connects - 1
         /\ left'.starts = left.starts /\ left'.timeouts = left.timeouts
  <1>1. /\ delta' = [delta EXCEPT !.last = NoControls, !.seed = TRUE]
        /\ left' = [left EXCEPT !.connects = @ - 1] /\ left.connects > 0
        /\ greeted' = FALSE /\ seeded' = {}
        /\ UNCHANGED <<daemon, ready, fresh, watch, worker, reapply>>
    BY DEF Connect, MayConnect
  <1>2. /\ delta' \in [last : Controls, seed : BOOLEAN, pending : BOOLEAN]
        /\ delta'.last = NoControls /\ delta'.seed = TRUE
    BY <1>1, NoControlsType DEF TypeInv
  <1>3. left' \in Lefts
    <2>1. left.connects \in 0..MaxConnects
      BY DEF TypeInv, Lefts
    <2>2. left.connects - 1 \in 0..MaxConnects
      BY <1>1, <2>1
    <2>3. QED BY <1>1, <2>2 DEF TypeInv, Lefts
  <1>4. greeted' \in BOOLEAN
    BY <1>1
  <1>5. TypeInv'
    BY <1>1, <1>2, <1>3, <1>4 DEF TypeInv
  <1>6. QED BY <1>1, <1>2, <1>5, NoControlsType DEF TypeInv, Lefts

\* A message starts goroutines and changes nothing else.
LEMMA ReceiveType ==
  ASSUME TypeInv, NEW vals \in [Keys -> Values],
         Receive(vals) \/ (\E w \in Workers : ReceivePartial(w, vals) \/ ReceiveReset(w))
  PROVE  /\ TypeInv'
         /\ UNCHANGED <<daemon, ready, fresh, watch, delta, reapply, seeded>>
         /\ \A w \in Workers :
              \/ worker'[w] = worker[w]
              \/ worker[w].pc = "idle" /\ worker'[w].pc = "resetgate"
              \/ /\ worker[w].pc = "idle" /\ worker'[w].pc = "gate"
                 /\ worker'[w].first => FirstHere
                 /\ worker'[w].complete => greeted'
         /\ greeted => greeted'
         /\ left.connects < MaxConnects /\ left'.connects = left.connects
         /\ left'.starts = left.starts /\ left'.timeouts = left.timeouts
  <1>1. FirstHere \in BOOLEAN
    BY DEF FirstHere, TypeInv
  <1>2. CASE Receive(vals)
    <2>1. /\ left.connects < MaxConnects
          /\ left.messages > 0 /\ left' = [left EXCEPT !.messages = @ - 1]
          /\ greeted' = TRUE
          /\ UNCHANGED <<daemon, ready, fresh, watch, delta, reapply, seeded>>
      BY <1>2 DEF Receive
    <2>2. PICK by \in [Parts -> {w \in Workers : worker[w].pc = "idle"}] :
            worker' = [w \in Workers |->
              IF \E p \in Parts : by[p] = w
              THEN [pc |-> "gate", complete |-> TRUE, first |-> FirstHere,
                    todo |-> [k \in CHOOSE p \in Parts : by[p] = w |-> vals[k]]]
              ELSE worker[w]]
      BY <1>2 DEF Receive
    <2>3. ASSUME NEW w \in Workers
          PROVE  /\ worker'[w] \in WorkerRecords /\ Busy(worker'[w])
                 /\ \/ worker'[w] = worker[w]
                    \/ /\ worker[w].pc = "idle" /\ worker'[w].pc = "gate"
                       /\ worker'[w].first = FirstHere
      <3>1. CASE \E p \in Parts : by[p] = w
        <4> DEFINE part == CHOOSE p \in Parts : by[p] = w
        <4>1. part \in Parts /\ by[part] = w
          BY <3>1
        <4>2. worker[w].pc = "idle"
          BY <4>1
        <4>3. part \in SUBSET Keys
          BY <4>1
        <4> HIDE DEF part
        <4>4. [k \in part |-> vals[k]] \in Controls
          <5>1. [k \in part |-> vals[k]] \in [part -> Values]
            BY <4>3
          <5>2. QED BY <4>3, <5>1, ControlsDef
        <4>5. worker'[w] = [pc |-> "gate", complete |-> TRUE, first |-> FirstHere,
                            todo |-> [k \in part |-> vals[k]]]
          BY <2>2, <3>1 DEF part
        <4>6. QED BY <1>1, <4>2, <4>4, <4>5 DEF WorkerRecords, WorkerPcs, Busy
      <3>2. CASE ~ \E p \in Parts : by[p] = w
        BY <2>2, <3>2 DEF TypeInv
      <3>3. QED BY <3>1, <3>2
    <2>4. worker' \in [Workers -> WorkerRecords] /\ \A w \in Workers : Busy(worker'[w])
      BY <2>2, <2>3
    <2>5. left' \in Lefts /\ left'.connects = left.connects
          /\ left'.starts = left.starts /\ left'.timeouts = left.timeouts
      BY <2>1 DEF TypeInv, Lefts
    <2>6. greeted' \in BOOLEAN /\ greeted'
      BY <2>1
    <2>7. TypeInv'
      BY <2>1, <2>4, <2>5, <2>6 DEF TypeInv
    <2>8. QED BY <2>1, <2>3, <2>5, <2>6, <2>7
  <1>3. ASSUME NEW w \in Workers, ReceivePartial(w, vals)
        PROVE  /\ TypeInv'
               /\ UNCHANGED <<daemon, ready, fresh, watch, delta, reapply, seeded, greeted>>
               /\ worker[w].pc = "idle" /\ worker'[w].pc = "gate"
               /\ worker'[w].first = FirstHere /\ ~worker'[w].complete
               /\ \A v \in Workers \ {w} : worker'[v] = worker[v]
               /\ left.connects < MaxConnects /\ left'.connects = left.connects
               /\ left'.starts = left.starts /\ left'.timeouts = left.timeouts
    <2> DEFINE r == [pc |-> "gate", complete |-> FALSE, first |-> FirstHere,
                     todo |-> [k \in PartialKeys |-> vals[k]]]
    <2>1. /\ left.connects < MaxConnects
          /\ left.messages > 0 /\ left' = [left EXCEPT !.messages = @ - 1]
          /\ worker[w].pc = "idle" /\ worker' = [worker EXCEPT ![w] = r]
          /\ UNCHANGED <<daemon, ready, fresh, watch, delta, reapply, seeded, greeted>>
      BY <1>3 DEF ReceivePartial
    <2>2. [k \in PartialKeys |-> vals[k]] \in Controls
      <3>1. [k \in PartialKeys |-> vals[k]] \in [PartialKeys -> Values]
        OBVIOUS
      <3>2. QED BY <3>1, ControlsDef
    <2>3. r \in WorkerRecords /\ Busy(r) /\ r.pc = "gate" /\ r.first = FirstHere /\ ~r.complete
      BY <1>1, <2>2 DEF WorkerRecords, WorkerPcs, Busy
    <2>4. left' \in Lefts /\ left'.connects = left.connects
          /\ left'.starts = left.starts /\ left'.timeouts = left.timeouts
      BY <2>1 DEF TypeInv, Lefts
    <2> HIDE DEF r
    <2>5. /\ worker' \in [Workers -> WorkerRecords] /\ \A v \in Workers : Busy(worker'[v])
          /\ worker'[w] = r /\ \A v \in Workers \ {w} : worker'[v] = worker[v]
      BY <2>1, <2>3, WorkerSet
    <2>6. TypeInv'
      BY <2>1, <2>4, <2>5 DEF TypeInv
    <2>7. QED BY <2>1, <2>3, <2>4, <2>5, <2>6
  <1>4. ASSUME NEW w \in Workers, ReceiveReset(w)
        PROVE  /\ TypeInv'
               /\ UNCHANGED <<daemon, ready, fresh, watch, delta, reapply, seeded, greeted>>
               /\ worker[w].pc = "idle" /\ worker'[w].pc = "resetgate"
               /\ worker'[w].complete = worker[w].complete
               /\ \A v \in Workers \ {w} : worker'[v] = worker[v]
               /\ left.connects < MaxConnects /\ left'.connects = left.connects
               /\ left'.starts = left.starts /\ left'.timeouts = left.timeouts
    <2>1. /\ left.connects < MaxConnects
          /\ left.resets > 0 /\ left' = [left EXCEPT !.resets = @ - 1]
          /\ worker[w].pc = "idle" /\ worker' = [worker EXCEPT ![w].pc = "resetgate"]
          /\ UNCHANGED <<daemon, ready, fresh, watch, delta, reapply, seeded, greeted>>
      BY <1>4 DEF ReceiveReset
    <2>2. left' \in Lefts /\ left'.connects = left.connects
          /\ left'.starts = left.starts /\ left'.timeouts = left.timeouts
      BY <2>1 DEF TypeInv, Lefts
    <2>3. /\ worker' \in [Workers -> WorkerRecords] /\ \A v \in Workers : Busy(worker'[v])
          /\ worker'[w].pc = "resetgate" /\ worker'[w].complete = worker[w].complete
          /\ \A v \in Workers \ {w} : worker'[v] = worker[v]
      BY <2>1, WorkerGoes DEF WorkerPcs
    <2>4. TypeInv'
      BY <2>1, <2>2, <2>3 DEF TypeInv
    <2>5. QED BY <2>1, <2>2, <2>3, <2>4
  <1>5. QED BY <1>2, <1>3, <1>4

\* A goroutine looks at the daemon before it forwards or resets anything.
LEMMA GateType ==
  ASSUME TypeInv, NEW w \in Workers, ApplyGate(w) \/ ResetGate(w)
  PROVE  /\ TypeInv'
         /\ Detect(fresh)
         /\ UNCHANGED <<daemon, watch, delta, seeded, greeted, left>>
         /\ worker[w].pc \in {"gate", "resetgate"}
         /\ worker[w].pc = "gate" => worker'[w].pc \in {"filter", "stash"}
         /\ worker[w].pc = "resetgate" => worker'[w].pc \in {"reset", "idle"}
         /\ worker'[w].first = worker[w].first /\ worker'[w].complete = worker[w].complete
         /\ \A v \in Workers \ {w} : worker'[v] = worker[v]
  <1> DEFINE pc == IF worker[w].pc = "gate" THEN IF ready' THEN "filter" ELSE "stash"
                   ELSE IF ready' THEN "reset" ELSE "idle"
  <1>1. /\ worker[w].pc \in {"gate", "resetgate"}
        /\ Detect(fresh)
        /\ worker' = [worker EXCEPT ![w].pc = pc]
        /\ UNCHANGED <<daemon, watch, delta, seeded, greeted, left>>
    BY DEF ApplyGate, ResetGate
  <1>2. /\ pc \in WorkerPcs /\ pc \notin {"send", "record"}
        /\ worker[w].pc = "gate" => pc \in {"filter", "stash"}
        /\ worker[w].pc = "resetgate" => pc \in {"reset", "idle"}
    BY <1>1 DEF WorkerPcs
  <1> HIDE DEF pc
  <1>3. /\ worker' \in [Workers -> WorkerRecords] /\ \A v \in Workers : Busy(worker'[v])
        /\ worker'[w].pc = pc
        /\ worker'[w].first = worker[w].first /\ worker'[w].complete = worker[w].complete
        /\ \A v \in Workers \ {w} : worker'[v] = worker[v]
    BY <1>1, <1>2, WorkerGoes
  <1>4. fresh \in BOOLEAN
    BY DEF TypeInv
  <1>5. /\ ready' \in BOOLEAN /\ fresh' \in BOOLEAN
        /\ reapply' \in [Reappliers -> ReapplyRecords] /\ \A r \in Reappliers : Busy(reapply'[r])
    BY <1>1, <1>4, DetectType
  <1>6. TypeInv'
    BY <1>1, <1>3, <1>5 DEF TypeInv
  <1>7. QED BY <1>1, <1>2, <1>3, <1>6

\* The values of a goroutine are recorded without being sent.
LEMMA StashType ==
  ASSUME TypeInv, NEW w \in Workers, ApplyStash(w)
  PROVE  /\ TypeInv'
         /\ UNCHANGED <<daemon, ready, fresh, watch, reapply, greeted, left>>
         /\ worker[w].pc = "stash" /\ worker'[w] = IdleWorker
         /\ \A v \in Workers \ {w} : worker'[v] = worker[v]
         /\ delta' = [last |-> Recorded(worker[w].todo),
                      seed |-> delta.seed /\ ~worker[w].complete,
                      pending |-> delta.pending /\ ~worker[w].complete]
         /\ seeded' = seeded \cup DOMAIN worker[w].todo
         /\ worker[w].todo \in Controls
  <1>1. /\ UNCHANGED <<daemon, ready, fresh, watch, reapply, greeted, left>>
        /\ worker[w].pc = "stash" /\ worker' = [worker EXCEPT ![w] = IdleWorker]
        /\ delta' = [last |-> Recorded(worker[w].todo),
                     seed |-> delta.seed /\ ~worker[w].complete,
                     pending |-> delta.pending /\ ~worker[w].complete]
        /\ seeded' = seeded \cup DOMAIN worker[w].todo
    BY DEF ApplyStash
  <1>2. worker[w] \in WorkerRecords /\ worker[w].todo \in Controls
    BY DEF TypeInv, WorkerRecords
  <1>3. DOMAIN worker[w].todo \subseteq Keys /\ Recorded(worker[w].todo) \in Controls
    <2>1. delta.last \in Controls
      BY DEF TypeInv
    <2>2. QED BY <1>2, <2>1, ControlsDomain, RecordedType
  <1>4. delta' \in [last : Controls, seed : BOOLEAN, pending : BOOLEAN]
    BY <1>1, <1>3
  <1>5. /\ worker' \in [Workers -> WorkerRecords] /\ \A v \in Workers : Busy(worker'[v])
        /\ worker'[w] = IdleWorker /\ \A v \in Workers \ {w} : worker'[v] = worker[v]
    BY <1>1, IdleTypes, WorkerSet
  <1>6. seeded' \subseteq Keys
    BY <1>1, <1>3 DEF TypeInv
  <1>7. TypeInv'
    BY <1>1, <1>4, <1>5, <1>6 DEF TypeInv
  <1>8. QED BY <1>1, <1>2, <1>5, <1>7

Keeps(w) == IF delta.pending THEN ~worker[w].complete ELSE delta.seed

\* The filter records all of an object, or passes on a part of it.
LEMMA FilterType ==
  ASSUME TypeInv, NEW w \in Workers, ApplyFilter(w)
  PROVE  /\ TypeInv'
         /\ UNCHANGED <<daemon, ready, fresh, watch, reapply, greeted, left>>
         /\ worker[w].pc = "filter" /\ worker'[w].pc \in {"idle", "send"}
         /\ Keeps(w) => worker'[w].pc = "idle"
         /\ \A v \in Workers \ {w} : worker'[v] = worker[v]
         /\ delta'.last = IF Keeps(w) THEN Recorded(worker[w].todo) ELSE delta.last
         /\ delta'.seed = (delta.seed /\ ~worker[w].complete)
         /\ delta'.pending = (delta.pending /\ ~worker[w].complete)
         /\ seeded' = IF Keeps(w) THEN seeded \cup DOMAIN worker[w].todo ELSE seeded
         /\ worker[w].todo \in Controls
  <1> DEFINE todo == worker[w].todo
             complete == worker[w].complete
             out == IF Keeps(w) THEN {} ELSE IF delta.pending THEN DOMAIN todo ELSE Changed(todo)
             r == IF out = {} THEN IdleWorker
                  ELSE [worker[w] EXCEPT !.pc = "send", !.todo = [k \in out |-> todo[k]]]
  <1>1. /\ UNCHANGED <<daemon, ready, fresh, watch, reapply, greeted, left>>
        /\ worker[w].pc = "filter"
        /\ delta' = [last |-> IF Keeps(w) THEN Recorded(todo) ELSE delta.last,
                     seed |-> delta.seed /\ ~complete, pending |-> delta.pending /\ ~complete]
        /\ seeded' = IF Keeps(w) THEN seeded \cup DOMAIN todo ELSE seeded
        /\ worker' = [worker EXCEPT ![w] = r]
    BY DEF ApplyFilter, Keeps
  <1>2. worker[w] \in WorkerRecords /\ todo \in Controls /\ complete \in BOOLEAN
    BY DEF TypeInv, WorkerRecords
  <1>3. DOMAIN todo \subseteq Keys /\ Recorded(todo) \in Controls
    <2>1. delta.last \in Controls
      BY DEF TypeInv
    <2>2. QED BY <1>2, <2>1, ControlsDomain, RecordedType
  <1>4. delta' \in [last : Controls, seed : BOOLEAN, pending : BOOLEAN]
    <2>1. delta.last \in Controls
      BY DEF TypeInv
    <2>2. (IF Keeps(w) THEN Recorded(todo) ELSE delta.last) \in Controls
      BY <1>3, <2>1
    <2>3. QED BY <1>1, <2>2
  <1>5. seeded' \subseteq Keys
    BY <1>1, <1>3 DEF TypeInv
  <1>6. r \in WorkerRecords /\ Busy(r) /\ r.pc \in {"idle", "send"} /\ (Keeps(w) => r.pc = "idle")
    <2>1. CASE out = {}
      BY <2>1, IdleTypes
    <2>2. CASE out # {}
      <3>1. out \in SUBSET DOMAIN todo /\ ~Keeps(w)
        BY <2>2 DEF Changed
      <3>2. [k \in out |-> todo[k]] \in Controls /\ DOMAIN [k \in out |-> todo[k]] = out
        BY <1>2, <3>1, PartOfControls
      <3> DEFINE part == [k \in out |-> todo[k]]
                 q == [worker[w] EXCEPT !.pc = "send", !.todo = part]
      <3>3. part \in Controls /\ DOMAIN part # {}
        BY <2>2, <3>2
      <3> HIDE DEF part, out
      <3>4. q \in WorkerRecords /\ q.pc = "send" /\ Busy(q)
        BY <1>2, <3>3 DEF WorkerRecords, WorkerPcs, Busy
      <3>5. r = q
        BY <2>2 DEF part
      <3>6. QED BY <3>1, <3>4, <3>5
    <2>3. QED BY <2>1, <2>2
  <1> HIDE DEF r
  <1>7. /\ worker' \in [Workers -> WorkerRecords] /\ \A v \in Workers : Busy(worker'[v])
        /\ worker'[w] = r /\ \A v \in Workers \ {w} : worker'[v] = worker[v]
    BY <1>1, <1>6, WorkerSet
  <1>8. TypeInv'
    BY <1>1, <1>4, <1>5, <1>7 DEF TypeInv
  <1>9. QED BY <1>1, <1>2, <1>6, <1>7, <1>8

\* One control is sent: done, and to be recorded, or skipped.
LEMMA SendType ==
  ASSUME TypeInv, NEW w \in Workers, ApplySend(w)
  PROVE  LET k == FirstKey(worker[w].todo)
             v == worker[w].todo[k]
         IN  /\ TypeInv'
             /\ k \in DOMAIN worker[w].todo /\ k \in Keys
             /\ UNCHANGED <<ready, watch, delta, reapply, seeded, greeted>>
             /\ worker[w].pc = "send" /\ worker'[w].pc \in {"idle", "send", "record"}
             /\ \A u \in Workers \ {w} : worker'[u] = worker[u]
             /\ daemon'.state = daemon.state /\ daemon'.pid = daemon.pid
             /\ \/ /\ SetDone(k, v)
                   /\ worker'[w].pc = "record" /\ worker'[w].todo = worker[w].todo
                   /\ daemon'.val[k] = v /\ \A j \in Keys \ {k} : daemon'.val[j] = daemon.val[j]
                \/ (SetLost \/ SetTimesOut(k, v)) /\ worker'[w].pc # "record"
  <1> DEFINE k == FirstKey(worker[w].todo)
             v == worker[w].todo[k]
  <1>1. /\ worker[w].pc = "send"
        /\ \/ SetDone(k, v) /\ worker' = [worker EXCEPT ![w].pc = "record"]
           \/ (SetLost \/ SetTimesOut(k, v)) /\ Skip(w, k)
        /\ UNCHANGED <<ready, watch, delta, reapply, seeded, greeted>>
    BY DEF ApplySend
  <1>2. worker[w].todo \in Controls /\ DOMAIN worker[w].todo # {}
    BY <1>1 DEF TypeInv, WorkerRecords, Busy
  <1>3. k \in DOMAIN worker[w].todo /\ k \in Keys /\ v \in Values
    BY <1>2, FirstKeyIn
  <1> HIDE DEF k, v
  <1>4. /\ daemon' \in [state : {"down", "booting", "up"}, pid : Nat, val : [Keys -> Values]]
        /\ daemon'.state = daemon.state /\ daemon'.pid = daemon.pid
        /\ SetDone(k, v) => /\ daemon'.val[k] = v
                            /\ \A j \in Keys \ {k} : daemon'.val[j] = daemon.val[j]
        /\ fresh' \in BOOLEAN
        /\ left' \in Lefts
    BY <1>1, <1>3, SetType
  <1>5. /\ worker' \in [Workers -> WorkerRecords] /\ \A u \in Workers : Busy(worker'[u])
        /\ worker'[w].pc \in {"idle", "send", "record"}
        /\ \A u \in Workers \ {w} : worker'[u] = worker[u]
        /\ \/ /\ SetDone(k, v)
              /\ worker'[w].pc = "record" /\ worker'[w].todo = worker[w].todo
           \/ (SetLost \/ SetTimesOut(k, v)) /\ worker'[w].pc # "record"
    <2>1. CASE SetDone(k, v) /\ worker' = [worker EXCEPT ![w].pc = "record"]
      BY <1>1, <2>1, WorkerGoes DEF WorkerPcs
    <2>2. CASE (SetLost \/ SetTimesOut(k, v)) /\ Skip(w, k)
      BY <1>1, <1>3, <2>2, SkipType
    <2>3. QED BY <1>1, <2>1, <2>2
  <1>6. TypeInv'
    BY <1>1, <1>4, <1>5 DEF TypeInv
  <1>7. QED BY <1>1, <1>3, <1>4, <1>5, <1>6 DEF k, v

\* ... and recorded.
LEMMA RecordType ==
  ASSUME TypeInv, NEW w \in Workers, ApplyRecord(w)
  PROVE  LET k == FirstKey(worker[w].todo)
         IN  /\ TypeInv'
             /\ k \in DOMAIN worker[w].todo /\ k \in Keys
             /\ UNCHANGED <<daemon, ready, fresh, watch, reapply, greeted, left>>
             /\ worker[w].pc = "record" /\ worker'[w].pc \in {"idle", "send"}
             /\ \A u \in Workers \ {w} : worker'[u] = worker[u]
             /\ delta'.seed = delta.seed /\ delta'.pending = delta.pending
             /\ DOMAIN delta'.last = DOMAIN delta.last \cup {k}
             /\ delta'.last[k] = worker[w].todo[k]
             /\ \A j \in DOMAIN delta.last \ {k} : delta'.last[j] = delta.last[j]
             /\ seeded' = seeded \ {k}
  <1> DEFINE k == FirstKey(worker[w].todo)
             one == [j \in {k} |-> worker[w].todo[j]]
  <1>1. /\ UNCHANGED <<daemon, ready, fresh, watch, reapply, greeted, left>>
        /\ worker[w].pc = "record"
        /\ delta' = [delta EXCEPT !.last = Recorded(one)]
        /\ seeded' = seeded \ {k}
        /\ Skip(w, k)
    BY DEF ApplyRecord
  <1>2. worker[w].todo \in Controls /\ DOMAIN worker[w].todo # {}
    BY <1>1 DEF TypeInv, WorkerRecords, Busy
  <1>3. k \in DOMAIN worker[w].todo /\ k \in Keys /\ worker[w].todo[k] \in Values
    BY <1>2, FirstKeyIn
  <1> HIDE DEF k
  <1>4. one \in Controls /\ DOMAIN one = {k} /\ one[k] = worker[w].todo[k]
    <2>1. {k} \in SUBSET DOMAIN worker[w].todo
      BY <1>3
    <2>2. QED BY <1>2, <2>1, PartOfControls
  <1> HIDE DEF one
  <1>5. /\ Recorded(one) \in Controls
        /\ DOMAIN Recorded(one) = DOMAIN one \cup DOMAIN delta.last
        /\ \A j \in DOMAIN one : Recorded(one)[j] = one[j]
        /\ \A j \in DOMAIN delta.last \ DOMAIN one : Recorded(one)[j] = delta.last[j]
    <2>1. delta.last \in Controls
      BY DEF TypeInv
    <2>2. QED BY <1>4, <2>1, RecordedType
  <1>6. /\ delta' \in [last : Controls, seed : BOOLEAN, pending : BOOLEAN]
        /\ delta'.last = Recorded(one)
        /\ delta'.seed = delta.seed /\ delta'.pending = delta.pending
    BY <1>1, <1>5 DEF TypeInv
  <1>7. /\ worker' \in [Workers -> WorkerRecords] /\ \A u \in Workers : Busy(worker'[u])
        /\ worker'[w].pc \in {"idle", "send"}
        /\ \A u \in Workers \ {w} : worker'[u] = worker[u]
    BY <1>1, <1>3, SkipType
  <1>8. seeded' \subseteq Keys
    BY <1>1 DEF TypeInv
  <1>9. TypeInv'
    BY <1>1, <1>6, <1>7, <1>8 DEF TypeInv
  <1>10. QED BY <1>1, <1>3, <1>4, <1>5, <1>6, <1>7, <1>9 DEF k

\* ResetIspSettings: the daemon forgets, then the delta.
LEMMA ResetType ==
  ASSUME TypeInv, NEW w \in Workers, ResetCommand(w) \/ ResetRearm(w)
  PROVE  /\ TypeInv'
         /\ UNCHANGED <<ready, fresh, watch, reapply, greeted, left>>
         /\ daemon'.state = daemon.state /\ daemon'.pid = daemon.pid
         /\ \A u \in Workers \ {w} : worker'[u] = worker[u]
         /\ \/ worker'[w].pc = "rearm" /\ UNCHANGED <<delta, seeded>>
            \/ worker'[w] = IdleWorker /\ delta' = Rearmed /\ UNCHANGED daemon
  <1>1. CASE ResetCommand(w)
    <2>1. /\ worker[w].pc = "reset" /\ worker' = [worker EXCEPT ![w].pc = "rearm"]
          /\ daemon' = [daemon EXCEPT !.val = [k \in Keys |-> Default]] \/ UNCHANGED daemon
          /\ UNCHANGED <<ready, fresh, watch, delta, reapply, seeded, greeted, left>>
      BY <1>1 DEF ResetCommand
    <2>2. [k \in Keys |-> Default] \in [Keys -> Values]
      OBVIOUS
    <2>3. /\ daemon' \in [state : {"down", "booting", "up"}, pid : Nat, val : [Keys -> Values]]
          /\ daemon'.state = daemon.state /\ daemon'.pid = daemon.pid
      BY <2>1, <2>2 DEF TypeInv
    <2>4. /\ worker' \in [Workers -> WorkerRecords] /\ \A u \in Workers : Busy(worker'[u])
          /\ worker'[w].pc = "rearm"
          /\ \A u \in Workers \ {w} : worker'[u] = worker[u]
      BY <2>1, WorkerGoes DEF WorkerPcs
    <2>5. TypeInv'
      BY <2>1, <2>3, <2>4 DEF TypeInv
    <2>6. QED BY <2>1, <2>3, <2>4, <2>5
  <1>2. CASE ResetRearm(w)
    <2>1. /\ worker' = [worker EXCEPT ![w] = IdleWorker]
          /\ delta' = Rearmed /\ seeded' = {}
          /\ UNCHANGED <<daemon, ready, fresh, watch, reapply, greeted, left>>
      BY <1>2 DEF ResetRearm
    <2>2. Rearmed \in [last : Controls, seed : BOOLEAN, pending : BOOLEAN]
      BY NoControlsType DEF Rearmed
    <2>3. /\ worker' \in [Workers -> WorkerRecords] /\ \A u \in Workers : Busy(worker'[u])
          /\ worker'[w] = IdleWorker /\ \A u \in Workers \ {w} : worker'[u] = worker[u]
      BY <2>1, IdleTypes, WorkerSet
    <2>4. TypeInv'
      BY <2>1, <2>2, <2>3 DEF TypeInv
    <2>5. QED BY <2>1, <2>3, <2>4
  <1>3. QED BY <1>1, <1>2

\* A re-application, which sends what was known when it began.
LEMMA ReapplyType ==
  ASSUME TypeInv, NEW r \in Reappliers, ReapplyStep(r)
  PROVE  /\ TypeInv'
         /\ UNCHANGED <<ready, watch, worker, seeded, greeted>>
         /\ daemon'.state = daemon.state /\ daemon'.pid = daemon.pid
         /\ \A q \in Reappliers \ {r} : reapply'[q] = reapply[q]
         /\ delta' \in {delta, Rearmed}
         /\ reapply[r].pc # "idle"
         /\ reapply[r].pc # "send" =>
              /\ UNCHANGED <<daemon, fresh, left>>
              /\ DOMAIN delta.last = {} => reapply'[r].pc = "idle"
  <1>1. reapply[r] \in ReapplyRecords /\ Busy(reapply[r])
    BY DEF TypeInv
  <1>2. CASE ReapplySnapshot(r)
    <2>1. /\ reapply[r].pc = "snapshot"
          /\ UNCHANGED <<daemon, ready, fresh, watch, worker, seeded, greeted, left>>
      BY <1>2 DEF ReapplySnapshot
    <2>2. CASE DOMAIN delta.last = {}
      <3>1. delta' = Rearmed /\ reapply' = [reapply EXCEPT ![r] = IdleReapply]
        BY <1>2, <2>2 DEF ReapplySnapshot
      <3>2. Rearmed \in [last : Controls, seed : BOOLEAN, pending : BOOLEAN]
        BY NoControlsType DEF Rearmed
      <3>3. /\ reapply' \in [Reappliers -> ReapplyRecords] /\ \A q \in Reappliers : Busy(reapply'[q])
            /\ reapply'[r].pc = "idle" /\ \A q \in Reappliers \ {r} : reapply'[q] = reapply[q]
        BY <3>1, IdleTypes DEF TypeInv
      <3>4. TypeInv'
        BY <2>1, <3>1, <3>2, <3>3 DEF TypeInv
      <3>5. QED BY <2>1, <3>1, <3>3, <3>4
    <2>3. CASE DOMAIN delta.last # {}
      <3> DEFINE p == [pc |-> "send", todo |-> delta.last]
      <3>1. UNCHANGED delta /\ reapply' = [reapply EXCEPT ![r] = p]
        BY <1>2, <2>3 DEF ReapplySnapshot
      <3>2. p \in ReapplyRecords /\ Busy(p)
        BY <2>3 DEF TypeInv, ReapplyRecords, Busy
      <3> HIDE DEF p
      <3>3. /\ reapply' \in [Reappliers -> ReapplyRecords] /\ \A q \in Reappliers : Busy(reapply'[q])
            /\ \A q \in Reappliers \ {r} : reapply'[q] = reapply[q]
        BY <3>1, <3>2 DEF TypeInv
      <3>4. TypeInv'
        BY <2>1, <3>1, <3>3 DEF TypeInv
      <3>5. QED BY <2>1, <2>3, <3>1, <3>3, <3>4
    <2>4. QED BY <2>2, <2>3
  <1>3. CASE ReapplySend(r)
    <2> DEFINE k == FirstKey(reapply[r].todo)
               v == reapply[r].todo[k]
               rest == Without(reapply[r].todo, k)
               p == IF DOMAIN rest = {} THEN IdleReapply ELSE [pc |-> "send", todo |-> rest]
    <2>1. /\ reapply[r].pc = "send"
          /\ SetDone(k, v) \/ SetLost \/ SetTimesOut(k, v)
          /\ reapply' = [reapply EXCEPT ![r] = p]
          /\ UNCHANGED <<ready, watch, delta, worker, seeded, greeted>>
      BY <1>3 DEF ReapplySend
    <2>2. reapply[r].todo \in Controls /\ DOMAIN reapply[r].todo # {}
      BY <1>1, <2>1 DEF ReapplyRecords, Busy
    <2>3. k \in Keys /\ v \in Values /\ rest \in Controls
      BY <2>2, FirstKeyIn, WithoutType
    <2> HIDE DEF k, v, rest
    <2>4. p \in ReapplyRecords /\ Busy(p)
      <3>1. CASE DOMAIN rest = {}
        BY <3>1, IdleTypes
      <3>2. CASE DOMAIN rest # {}
        BY <2>3, <3>2 DEF ReapplyRecords, Busy
      <3>3. QED BY <3>1, <3>2
    <2> HIDE DEF p
    <2>5. /\ daemon' \in [state : {"down", "booting", "up"}, pid : Nat, val : [Keys -> Values]]
          /\ daemon'.state = daemon.state /\ daemon'.pid = daemon.pid
          /\ fresh' \in BOOLEAN /\ left' \in Lefts
      BY <2>1, <2>3, SetType
    <2>6. /\ reapply' \in [Reappliers -> ReapplyRecords] /\ \A q \in Reappliers : Busy(reapply'[q])
          /\ \A q \in Reappliers \ {r} : reapply'[q] = reapply[q]
      BY <2>1, <2>4 DEF TypeInv
    <2>7. TypeInv'
      BY <2>1, <2>5, <2>6 DEF TypeInv
    <2>8. QED BY <2>1, <2>5, <2>6, <2>7
  <1>4. QED BY <1>2, <1>3 DEF ReapplyStep

\* The watcher and the cache.
LEMMA WatchType ==
  ASSUME TypeInv, WatchStep \/ CacheExpires
  PROVE  /\ TypeInv'
         /\ UNCHANGED <<daemon, delta, worker, seeded, greeted, left>>
         /\ watch'.pc = "sleep" => watch'.lastPid = watch.lastPid
  <1>1. fresh \in BOOLEAN /\ FALSE \in BOOLEAN
    BY DEF TypeInv
  <1>2. CASE WatchSame
    <2>1. /\ Detect(FALSE)
          /\ UNCHANGED <<daemon, watch, delta, worker, seeded, greeted, left>>
      BY <1>2 DEF WatchSame
    <2>2. /\ ready' \in BOOLEAN /\ fresh' \in BOOLEAN
          /\ reapply' \in [Reappliers -> ReapplyRecords] /\ \A r \in Reappliers : Busy(reapply'[r])
      BY <1>1, <2>1, DetectType
    <2>3. QED BY <2>1, <2>2 DEF TypeInv
  <1>3. CASE WatchNew
    <2>1. /\ watch' = [pc |-> "force", lastPid |-> daemon.pid]
          /\ UNCHANGED <<daemon, ready, fresh, delta, worker, reapply, seeded, greeted, left>>
      BY <1>3 DEF WatchNew
    <2>2. watch' \in [pc : {"start", "sleep", "force", "detect"}, lastPid : 0..daemon.pid]
      <3>1. daemon.pid \in Nat
        BY DEF TypeInv
      <3>2. daemon.pid \in 0..daemon.pid
        BY <3>1
      <3>3. QED BY <2>1, <3>2
    <2>3. QED BY <2>1, <2>2 DEF TypeInv
  <1>4. CASE WatchForce
    <2>1. /\ ready' = FALSE /\ fresh' = FALSE
          /\ UNCHANGED <<daemon, delta, worker, reapply, seeded, greeted, left>>
      BY <1>4 DEF WatchForce
    <2>2. watch' = [watch EXCEPT !.pc = "detect"]
      BY <1>4 DEF WatchForce
    <2>3. watch' \in [pc : {"start", "sleep", "force", "detect"}, lastPid : 0..daemon.pid]
          /\ watch'.lastPid = watch.lastPid
      BY <2>2 DEF TypeInv
    <2>4. ready' \in BOOLEAN /\ fresh' \in BOOLEAN
      BY <2>1
    <2>5. QED BY <2>1, <2>3, <2>4 DEF TypeInv
  <1>5. CASE WatchDetect
    <2>1. /\ Detect(fresh)
          /\ watch' = [watch EXCEPT !.pc = "sleep"]
          /\ UNCHANGED <<daemon, delta, worker, seeded, greeted, left>>
      BY <1>5 DEF WatchDetect
    <2>2. /\ ready' \in BOOLEAN /\ fresh' \in BOOLEAN
          /\ reapply' \in [Reappliers -> ReapplyRecords] /\ \A r \in Reappliers : Busy(reapply'[r])
      BY <1>1, <2>1, DetectType
    <2>3. watch' \in [pc : {"start", "sleep", "force", "detect"}, lastPid : 0..daemon.pid]
          /\ watch'.lastPid = watch.lastPid
      BY <2>1 DEF TypeInv
    <2>4. QED BY <2>1, <2>2, <2>3 DEF TypeInv
  <1>6. CASE CacheExpires
    <2>1. /\ fresh' = FALSE
          /\ UNCHANGED <<daemon, ready, watch, delta, worker, reapply, seeded, greeted, left>>
      BY <1>6 DEF CacheExpires
    <2>2. QED BY <2>1 DEF TypeInv
  <1>7. QED BY <1>2, <1>3, <1>4, <1>5, <1>6 DEF WatchStep

LEMMA DaemonType ==
  ASSUME TypeInv, DaemonDies \/ DaemonStarts \/ DaemonReady
  PROVE  /\ TypeInv'
         /\ UNCHANGED <<ready, fresh, watch, delta, worker, reapply, seeded, greeted>>
         /\ left.starts > 0 \/ daemon.state = "booting"
  <1>1. CASE DaemonDies \/ DaemonReady
    <2>1. /\ daemon' = [daemon EXCEPT !.state = "down"] \/ daemon' = [daemon EXCEPT !.state = "up"]
          /\ UNCHANGED <<ready, fresh, watch, delta, worker, reapply, seeded, greeted, left>>
          /\ left.starts > 0 \/ daemon.state = "booting"
      BY <1>1 DEF DaemonDies, DaemonReady
    <2>2. /\ daemon' \in [state : {"down", "booting", "up"}, pid : Nat, val : [Keys -> Values]]
          /\ daemon'.pid = daemon.pid
      BY <2>1 DEF TypeInv
    <2>3. QED BY <2>1, <2>2 DEF TypeInv
  <1>2. CASE DaemonStarts
    <2>1. /\ left.starts > 0 /\ left' = [left EXCEPT !.starts = @ - 1]
          /\ daemon' = [state |-> "booting", pid |-> daemon.pid + 1,
                        val |-> [k \in Keys |-> Default]]
          /\ UNCHANGED <<ready, fresh, watch, delta, worker, reapply, seeded, greeted>>
      BY <1>2 DEF DaemonStarts
    <2>2. daemon.pid \in Nat /\ watch \in [pc : {"start", "sleep", "force", "detect"},
                                           lastPid : 0..daemon.pid]
      BY DEF TypeInv
    <2>3. /\ daemon' \in [state : {"down", "booting", "up"}, pid : Nat, val : [Keys -> Values]]
          /\ daemon'.pid = daemon.pid + 1
      <3>1. [k \in Keys |-> Default] \in [Keys -> Values] /\ daemon.pid + 1 \in Nat
        BY <2>2
      <3>2. QED BY <2>1, <3>1
    <2>4. watch' \in [pc : {"start", "sleep", "force", "detect"}, lastPid : 0..daemon'.pid]
      <3>1. watch.lastPid \in 0..daemon.pid
        BY <2>2
      <3>2. watch.lastPid \in 0..daemon'.pid
        BY <2>2, <2>3, <3>1
      <3>3. QED BY <2>1, <2>2, <3>2
    <2>5. left' \in Lefts
      BY <2>1 DEF TypeInv, Lefts
    <2>6. QED BY <2>1, <2>3, <2>4, <2>5 DEF TypeInv
  <1>3. QED BY <1>1, <1>2

ReceiveStep(vals) ==
    Receive(vals) \/ \E w \in Workers : ReceivePartial(w, vals) \/ ReceiveReset(w)

\* The disjuncts of Next, as the lemmas group them.
LEMMA NextCases ==
  ASSUME Next
  PROVE  \/ Connect
         \/ \E vals \in [Keys -> Values] : ReceiveStep(vals)
         \/ \E w \in Workers : ApplyStep(w)
         \/ \E r \in Reappliers : ReapplyStep(r)
         \/ WatchStep \/ CacheExpires
         \/ DaemonDies \/ DaemonStarts \/ DaemonReady
  <1>1. [k \in Keys |-> Default] \in [Keys -> Values]
    OBVIOUS
  <1>2. CASE \E w \in Workers : ReceiveReset(w)
    BY <1>1, <1>2 DEF ReceiveStep
  <1>3. CASE \E vals \in [Keys -> Values] :
               Receive(vals) \/ \E w \in Workers : ReceivePartial(w, vals)
    BY <1>3 DEF ReceiveStep
  <1>4. QED BY <1>2, <1>3 DEF Next

LEMMA StepType == ASSUME TypeInv, [Next]_vars PROVE TypeInv'
  <1>1. CASE UNCHANGED vars
    BY <1>1 DEF vars, TypeInv
  <1>2. ASSUME NEW w \in Workers, ApplyStep(w) PROVE TypeInv'
    BY <1>2, GateType, StashType, FilterType, SendType, RecordType, ResetType DEF ApplyStep
  <1>3. ASSUME NEW vals \in [Keys -> Values], ReceiveStep(vals) PROVE TypeInv'
    BY <1>3, ReceiveType DEF ReceiveStep
  <1>4. CASE Next
    BY <1>2, <1>3, <1>4, NextCases, ConnectType, ReapplyType, WatchType, DaemonType
  <1>5. QED BY <1>1, <1>4

LEMMA StepDoubt == ASSUME TypeInv, doubt \subseteq Keys, [Next]_vars PROVE doubt' \subseteq Keys
  <1>1. ASSUME NEW w \in Workers, ApplySend(w) PROVE doubt' \subseteq Keys
    <2>1. FirstKey(worker[w].todo) \in Keys
      BY <1>1, SendType
    <2>2. QED BY <1>1, <2>1 DEF ApplySend, DoubtAfterSet
  <1>2. ASSUME NEW r \in Reappliers, ReapplyStep(r) PROVE doubt' \subseteq Keys
    <2>1. CASE ReapplySnapshot(r)
      <3>1. DOMAIN delta.last \subseteq Keys
        BY ControlsDomain DEF TypeInv
      <3>2. QED BY <2>1, <3>1 DEF ReapplySnapshot
    <2>2. CASE ReapplySend(r)
      <3>1. reapply[r].todo \in Controls /\ DOMAIN reapply[r].todo # {}
        BY <2>2 DEF ReapplySend, TypeInv, ReapplyRecords, Busy
      <3>2. FirstKey(reapply[r].todo) \in Keys
        BY <3>1, FirstKeyIn
      <3>3. QED BY <2>2, <3>2 DEF ReapplySend
    <2>3. QED BY <1>2, <2>1, <2>2 DEF ReapplyStep
  <1>3. ASSUME NEW w \in Workers, ApplyStep(w), ~ApplySend(w) PROVE doubt' \subseteq Keys
    BY <1>3 DEF ApplyStep, ApplyGate, ApplyStash, ApplyFilter, ApplyRecord,
                ResetGate, ResetCommand, ResetRearm
  <1>4. ASSUME NEW vals \in [Keys -> Values], ReceiveStep(vals) PROVE doubt' \subseteq Keys
    BY <1>4 DEF ReceiveStep, Receive, ReceivePartial, ReceiveReset
  <1>5. CASE Connect \/ WatchStep \/ CacheExpires \/ DaemonDies \/ DaemonStarts \/ DaemonReady
    BY <1>5 DEF Connect, WatchStep, WatchSame, WatchNew, WatchForce, WatchDetect, CacheExpires,
                DaemonDies, DaemonStarts, DaemonReady
  <1>6. CASE UNCHANGED vars
    BY <1>6 DEF vars
  <1>7. CASE Next
    BY <1>1, <1>2, <1>3, <1>4, <1>5, <1>7, NextCases
  <1>8. QED BY <1>6, <1>7

\* The type invariant of MediadDelta, with no hypothesis but its assumptions.
THEOREM TypeCorrect == Spec => []TypeOK
  <1> DEFINE Typed == TypeInv /\ doubt \subseteq Keys
  <1>1. Init => Typed
    BY InitType DEF Init
  <1>2. Typed /\ [Next]_vars => Typed'
    BY StepType, StepDoubt
  <1>3. Typed => TypeOK
    BY DEF TypeInv, TypeOK, WorkerRecords, WorkerPcs, ReapplyRecords, Busy
  <1> HIDE DEF Typed
  <1>4. QED BY <1>1, <1>2, <1>3, PTL DEF Spec

----------------------------------------------------------------------------
(* The invariants. *)

\* The hypothesis of FirstObjectRecorded: one goroutine at a time forwards
\* settings, and none outlives its connection.
OneByOne == (\A v, w \in Workers : v = w) /\ ~Outlives

\* A first object is recorded: until it has been, the delta seeds or a full apply
\* is due, and no complete object is on its way.
FirstInv ==
    /\ TypeInv
    /\ \A w \in Workers :
        worker[w].first /\ worker[w].pc \in {"gate", "filter"} => delta.seed \/ delta.pending
    /\ ~greeted =>
        /\ delta.seed \/ delta.pending
        /\ \A w \in Workers : worker[w].complete => worker[w].pc \notin {"gate", "stash", "filter"}

Sent(w) == FirstKey(worker[w].todo)

\* The values known will be sent to the daemon: it is not there, or has not been
\* found to be a new one, or is to be found ready, or has been.
RestoreDue ==
    \/ ~Responsive
    \/ watch.lastPid # daemon.pid \/ watch.pc = "force"
    \/ ~ready
    \/ \E r \in Reappliers : reapply[r].pc = "snapshot"

\* What a goroutine has sent and not recorded is what the daemon holds, unless the
\* daemon has gone, and nobody is about to send another value of the control.
Held ==
    \A w \in Workers : worker[w].pc = "record" /\ Sent(w) \notin doubt =>
        /\ ~Responsive \/ daemon.val[Sent(w)] = worker[w].todo[Sent(w)]
        /\ Resending(Sent(w)) = {}

\* What is re-applied is still the known value.
Resent ==
    \A k \in DOMAIN delta.last \ (seeded \cup doubt) : \A r \in Resending(k) :
        reapply[r].todo[k] = delta.last[k]

\* A daemon whose socket is not there yet is not taken for ready once its pid is known.
Booted ==
    daemon.state = "booting" /\ watch.lastPid = daemon.pid /\ watch.pc # "force" => ~ready

\* A value counts as applied if it is, if it is about to be replaced by the one
\* that was just sent, if all is about to be forgotten, or if it will be sent again.
Restored ==
    \A k \in DOMAIN delta.last \ (seeded \cup doubt) :
        \/ daemon.val[k] = delta.last[k]
        \/ \E w \in Workers : worker[w].pc = "record" /\ k = Sent(w)
        \/ \E w \in Workers : worker[w].pc = "rearm"
        \/ Resending(k) # {}
        \/ RestoreDue

RestoreInv == TypeInv /\ doubt \subseteq Keys /\ Held /\ Resent /\ Booted /\ Restored

----------------------------------------------------------------------------
(* The first object of a connection. *)

FirstStep ==
    \A w \in Workers :
        worker[w].first /\ worker[w].pc = "filter" /\ worker'[w].pc = "send" => delta.pending

LEMMA FirstInit == Init => FirstInv
  <1> SUFFICES ASSUME Init PROVE FirstInv
    OBVIOUS
  <1>1. TypeInv
    BY InitType
  <1>2. greeted = TRUE /\ \A w \in Workers : worker[w].pc = "idle"
    BY IdleTypes DEF Init
  <1>3. QED BY <1>1, <1>2 DEF FirstInv

\* A step that leaves the goroutines, the delta's flags and greeted alone.
LEMMA FirstFrame ==
  ASSUME FirstInv, TypeInv', UNCHANGED <<worker, greeted>>,
         UNCHANGED delta \/ delta' = Rearmed
  PROVE  FirstInv' /\ FirstStep
  <1>1. delta.seed \/ delta.pending => delta'.seed \/ delta'.pending
    BY DEF Rearmed
  <1>2. FirstStep
    BY DEF FirstStep
  <1>3. QED BY <1>1, <1>2 DEF FirstInv

LEMMA FirstConnect == ASSUME OneByOne, FirstInv, Connect PROVE FirstInv' /\ FirstStep
  <1>1. /\ TypeInv' /\ delta'.seed /\ UNCHANGED worker
    BY ConnectType DEF FirstInv, Connect
  <1>2. \A w \in Workers : worker[w].pc = "idle"
    BY DEF Connect, MayConnect, OneByOne
  <1>3. QED BY <1>1, <1>2 DEF FirstInv, FirstStep

LEMMA FirstReceive ==
  ASSUME OneByOne, FirstInv, NEW vals \in [Keys -> Values], ReceiveStep(vals)
  PROVE  FirstInv' /\ FirstStep
  <1>1. /\ TypeInv'
        /\ UNCHANGED delta
        /\ \A w \in Workers :
              \/ worker'[w] = worker[w]
              \/ worker[w].pc = "idle" /\ worker'[w].pc = "resetgate"
              \/ /\ worker[w].pc = "idle" /\ worker'[w].pc = "gate"
                 /\ worker'[w].first => FirstHere
                 /\ worker'[w].complete => greeted'
        /\ greeted => greeted'
    BY ReceiveType DEF FirstInv, ReceiveStep
  <1>2. FirstHere => delta.seed
    BY DEF FirstHere, FirstInv
  <1>3. \A w \in Workers :
          worker'[w].first /\ worker'[w].pc \in {"gate", "filter"} => delta'.seed \/ delta'.pending
    <2> SUFFICES ASSUME NEW w \in Workers, worker'[w].first, worker'[w].pc \in {"gate", "filter"}
                 PROVE  delta.seed \/ delta.pending
      BY <1>1
    <2>1. CASE worker'[w] = worker[w]
      BY <2>1 DEF FirstInv
    <2>2. CASE worker'[w].pc = "gate" /\ (worker'[w].first => FirstHere)
      BY <1>2, <2>2
    <2>3. CASE worker'[w].pc = "resetgate"
      BY <2>3
    <2>4. QED BY <1>1, <2>1, <2>2, <2>3
  <1>4. ~greeted' => /\ delta'.seed \/ delta'.pending
                     /\ \A w \in Workers :
                          worker'[w].complete => worker'[w].pc \notin {"gate", "stash", "filter"}
    <2> SUFFICES ASSUME ~greeted'
                 PROVE  /\ delta.seed \/ delta.pending
                        /\ \A w \in Workers :
                             worker'[w].complete => worker'[w].pc \notin {"gate", "stash", "filter"}
      BY <1>1
    <2>1. ~greeted
      BY <1>1
    <2>2. delta.seed \/ delta.pending
      BY <2>1 DEF FirstInv
    <2>3. ASSUME NEW w \in Workers, worker'[w].complete
          PROVE  worker'[w].pc \notin {"gate", "stash", "filter"}
      <3>1. CASE worker'[w] = worker[w]
        BY <2>1, <2>3, <3>1 DEF FirstInv
      <3>2. CASE worker'[w].pc = "resetgate"
        BY <3>2
      <3>3. QED BY <1>1, <2>3, <3>1, <3>2
    <2>4. QED BY <2>2, <2>3
  <1>5. FirstStep
    BY <1>1 DEF FirstStep
  <1>6. QED BY <1>1, <1>3, <1>4, <1>5 DEF FirstInv

LEMMA FirstApply ==
  ASSUME OneByOne, FirstInv, NEW w \in Workers, ApplyStep(w)
  PROVE  FirstInv' /\ FirstStep
  <1>1. TypeInv /\ \A v \in Workers : v = w
    BY DEF FirstInv, OneByOne
  <1>2. CASE ApplyGate(w) \/ ResetGate(w)
    <2>1. /\ TypeInv' /\ UNCHANGED <<delta, greeted>>
          /\ worker[w].pc \in {"gate", "resetgate"}
          /\ worker[w].pc = "gate" => worker'[w].pc \in {"filter", "stash"}
          /\ worker[w].pc = "resetgate" => worker'[w].pc \in {"reset", "idle"}
          /\ worker'[w].first = worker[w].first /\ worker'[w].complete = worker[w].complete
      BY <1>1, <1>2, GateType
    <2>2. QED BY <1>1, <2>1 DEF FirstInv, FirstStep
  <1>3. CASE ApplyStash(w)
    <2>1. /\ TypeInv' /\ UNCHANGED greeted /\ worker[w].pc = "stash" /\ worker'[w].pc = "idle"
          /\ delta' = [last |-> Recorded(worker[w].todo),
                       seed |-> delta.seed /\ ~worker[w].complete,
                       pending |-> delta.pending /\ ~worker[w].complete]
      BY <1>1, <1>3, StashType, IdleTypes
    <2>2. /\ delta'.seed = (delta.seed /\ ~worker[w].complete)
          /\ delta'.pending = (delta.pending /\ ~worker[w].complete)
      BY <2>1
    <2>3. ~greeted => ~worker[w].complete
      BY <2>1 DEF FirstInv
    <2>4. QED BY <1>1, <2>1, <2>2, <2>3 DEF FirstInv, FirstStep
  <1>4. CASE ApplyFilter(w)
    <2>1. /\ TypeInv' /\ UNCHANGED greeted
          /\ worker[w].pc = "filter" /\ worker'[w].pc \in {"idle", "send"}
          /\ Keeps(w) => worker'[w].pc = "idle"
          /\ delta'.seed = (delta.seed /\ ~worker[w].complete)
          /\ delta'.pending = (delta.pending /\ ~worker[w].complete)
      BY <1>1, <1>4, FilterType
    <2>2. ~greeted => ~worker[w].complete
      BY <2>1 DEF FirstInv
    <2>3. worker[w].first => delta.seed \/ delta.pending
      BY <2>1 DEF FirstInv
    <2>4. worker[w].first /\ ~delta.pending => Keeps(w)
      BY <2>3 DEF Keeps
    <2>5. FirstStep
      BY <1>1, <2>1, <2>4 DEF FirstStep
    <2>6. QED BY <1>1, <2>1, <2>2, <2>5 DEF FirstInv
  <1>5. CASE ApplySend(w)
    <2>1. /\ TypeInv' /\ UNCHANGED <<delta, greeted>>
          /\ worker[w].pc = "send" /\ worker'[w].pc \in {"idle", "send", "record"}
      BY <1>1, <1>5, SendType
    <2>2. QED BY <1>1, <2>1 DEF FirstInv, FirstStep
  <1>6. CASE ApplyRecord(w)
    <2>1. /\ TypeInv' /\ UNCHANGED greeted
          /\ delta'.seed = delta.seed /\ delta'.pending = delta.pending
          /\ worker[w].pc = "record" /\ worker'[w].pc \in {"idle", "send"}
      BY <1>1, <1>6, RecordType
    <2>2. QED BY <1>1, <2>1 DEF FirstInv, FirstStep
  <1>7. CASE ResetCommand(w) \/ ResetRearm(w)
    <2>1. /\ TypeInv' /\ UNCHANGED greeted
          /\ \/ worker'[w].pc = "rearm" /\ UNCHANGED delta
             \/ worker'[w] = IdleWorker /\ delta' = Rearmed
      BY <1>1, <1>7, ResetType
    <2>2. worker'[w].pc \in {"rearm", "idle"}
      BY <2>1, IdleTypes
    <2>3. delta.seed \/ delta.pending => delta'.seed \/ delta'.pending
      BY <2>1 DEF Rearmed
    <2>4. QED BY <1>1, <2>1, <2>2, <2>3 DEF FirstInv, FirstStep
  <1>8. QED BY <1>2, <1>3, <1>4, <1>5, <1>6, <1>7 DEF ApplyStep

LEMMA FirstNext == ASSUME OneByOne, FirstInv, [Next]_vars PROVE FirstInv' /\ [FirstStep]_vars
  <1>1. TypeInv
    BY DEF FirstInv
  <1>2. CASE UNCHANGED vars
    BY <1>2 DEF vars, FirstInv, TypeInv
  <1>3. ASSUME NEW r \in Reappliers, ReapplyStep(r) PROVE FirstInv' /\ FirstStep
    <2>1. TypeInv' /\ UNCHANGED <<worker, greeted>> /\ delta' \in {delta, Rearmed}
      BY <1>1, <1>3, ReapplyType
    <2>2. QED BY <2>1, FirstFrame
  <1>4. CASE WatchStep \/ CacheExpires
    <2>1. TypeInv' /\ UNCHANGED <<worker, greeted, delta>>
      BY <1>1, <1>4, WatchType
    <2>2. QED BY <2>1, FirstFrame
  <1>5. CASE DaemonDies \/ DaemonStarts \/ DaemonReady
    <2>1. TypeInv' /\ UNCHANGED <<worker, greeted, delta>>
      BY <1>1, <1>5, DaemonType
    <2>2. QED BY <2>1, FirstFrame
  <1>6. CASE Next
    BY <1>3, <1>4, <1>5, <1>6, NextCases, FirstConnect, FirstReceive, FirstApply
  <1>7. QED BY <1>2, <1>6

\* Where one goroutine at a time forwards settings and none outlives its
\* connection, the first object of a connection is recorded and not applied.
THEOREM FirstObjectRecordedHolds == OneByOne => (Spec => FirstObjectRecorded)
  <1> SUFFICES ASSUME OneByOne PROVE Spec => FirstObjectRecorded
    OBVIOUS
  <1>1. Init => FirstInv
    BY FirstInit
  <1>2. FirstInv /\ [Next]_vars => FirstInv' /\ [FirstStep]_vars
    BY FirstNext
  <1>3. Spec => [][FirstStep]_vars
    BY <1>1, <1>2, PTL DEF Spec
  <1>4. QED BY <1>3 DEF FirstObjectRecorded, FirstStep

----------------------------------------------------------------------------
(* What is recorded is applied. *)

LEMMA RestoreInit == Init => RestoreInv
  <1> SUFFICES ASSUME Init PROVE RestoreInv
    OBVIOUS
  <1>1. TypeInv /\ doubt \subseteq Keys /\ ready = FALSE
    BY InitType DEF Init
  <1>2. \A w \in Workers : worker[w].pc = "idle"
    BY IdleTypes DEF Init
  <1>3. DOMAIN delta.last = {}
    BY NoControlsType DEF Init
  <1>4. QED BY <1>1, <1>2, <1>3 DEF RestoreInv, Held, Resent, Booted, Restored

\* Steps that leave alone what is known and applied, but for the keys they put in
\* doubt: nobody begins or ends to hold a value, and what was due stays due.
LEMMA Carried ==
  ASSUME RestoreInv, TypeInv', Booted',
         doubt \subseteq doubt', doubt' \subseteq Keys,
         ~Responsive' \/ \A j \in Keys \ doubt' : daemon'.val[j] = daemon.val[j],
         \A w \in Workers : worker[w].pc = "record" /\ ~Responsive => ~Responsive',
         \A w \in Workers :
             \/ worker'[w] = worker[w]
             \/ worker[w].pc # "record" /\ worker'[w].pc # "record",
         \A j \in Keys \ doubt' : \A r \in Resending(j)' :
             r \in Resending(j) /\ reapply'[r].todo[j] = reapply[r].todo[j],
         \A j \in DOMAIN delta'.last \ seeded' :
             j \in DOMAIN delta.last \ seeded /\ delta'.last[j] = delta.last[j],
         \/ DOMAIN delta'.last = {}
         \/ /\ RestoreDue => RestoreDue'
            /\ \A j \in Keys \ doubt' : Resending(j) # {} => Resending(j)' # {} \/ RestoreDue'
            /\ (\E w \in Workers : worker[w].pc = "rearm") => \E w \in Workers : worker'[w].pc = "rearm"
  PROVE  RestoreInv'
  <1>1. TypeInv /\ Held /\ Resent /\ Restored
    BY DEF RestoreInv
  <1>2. \A w \in Workers : worker'[w].pc = "record" => worker[w].pc = "record" /\ worker'[w] = worker[w]
    OBVIOUS
  <1>3. \A w \in Workers : worker[w].pc = "record" => Sent(w) \in Keys
    BY <1>1, FirstKeyIn DEF TypeInv, WorkerRecords, Busy, Sent
  <1>4. Held'
    <2> SUFFICES ASSUME NEW w \in Workers, worker'[w].pc = "record", Sent(w)' \notin doubt'
                 PROVE  /\ ~Responsive' \/ daemon'.val[Sent(w)'] = worker'[w].todo[Sent(w)']
                        /\ Resending(Sent(w))' = {}
      BY DEF Held
    <2> DEFINE j == Sent(w)
    <2>1. /\ worker[w].pc = "record" /\ worker'[w] = worker[w] /\ Sent(w)' = j
          /\ j \in Keys \ doubt' /\ j \notin doubt
      BY <1>2, <1>3 DEF Sent
    <2>2. ~Responsive \/ daemon.val[j] = worker[w].todo[j]
      BY <1>1, <2>1 DEF Held
    <2>3. Resending(j) = {}
      BY <1>1, <2>1 DEF Held
    <2> HIDE DEF j
    <2>4. ~Responsive' \/ daemon'.val[j] = worker'[w].todo[j]
      BY <2>1, <2>2
    <2>5. Resending(Sent(w))' = {}
      <3>1. Resending(Sent(w))' = {r \in Reappliers : reapply'[r].pc = "send" /\ j \in DOMAIN reapply'[r].todo}
        BY <2>1 DEF Resending
      <3>2. QED BY <2>1, <2>3, <3>1 DEF Resending
    <2>6. QED BY <2>1, <2>4, <2>5
  <1>5. Resent'
    <2> SUFFICES ASSUME NEW j \in DOMAIN delta'.last \ (seeded' \cup doubt'), NEW r \in Resending(j)'
                 PROVE  reapply'[r].todo[j] = delta'.last[j]
      BY DEF Resent
    <2>1. j \in DOMAIN delta.last \ (seeded \cup doubt) /\ delta'.last[j] = delta.last[j]
      OBVIOUS
    <2>2. j \in Keys \ doubt'
      BY <1>1, <2>1, ControlsDomain DEF TypeInv
    <2>3. r \in Resending(j) /\ reapply'[r].todo[j] = reapply[r].todo[j]
      BY <2>2
    <2>4. reapply[r].todo[j] = delta.last[j]
      BY <1>1, <2>1, <2>3 DEF Resent
    <2>5. QED BY <2>1, <2>3, <2>4
  <1>6. Restored'
    <2> SUFFICES ASSUME NEW j \in DOMAIN delta'.last \ (seeded' \cup doubt'), ~RestoreDue'
                 PROVE  \/ daemon'.val[j] = delta'.last[j]
                        \/ \E w \in Workers : worker'[w].pc = "record" /\ j = Sent(w)'
                        \/ \E w \in Workers : worker'[w].pc = "rearm"
                        \/ Resending(j)' # {}
      BY DEF Restored
    <2>1. j \in DOMAIN delta.last \ (seeded \cup doubt) /\ delta'.last[j] = delta.last[j]
      OBVIOUS
    <2>2. j \in Keys \ doubt' /\ Responsive'
      BY <1>1, <2>1, ControlsDomain DEF TypeInv, RestoreDue
    <2>3. \/ daemon.val[j] = delta.last[j]
          \/ \E w \in Workers : worker[w].pc = "record" /\ j = Sent(w)
          \/ \E w \in Workers : worker[w].pc = "rearm"
          \/ Resending(j) # {}
      BY <1>1, <2>1 DEF Restored
    <2>4. \A w \in Workers : worker[w].pc = "record" => worker'[w].pc = "record" /\ Sent(w)' = Sent(w)
      BY DEF Sent
    <2>5. QED BY <2>1, <2>2, <2>3, <2>4
  <1>7. QED BY <1>4, <1>5, <1>6 DEF RestoreInv

\* A new look at the daemon leaves what was due due.
LEMMA DetectDue ==
  ASSUME TypeInv, Booted, NEW cached \in BOOLEAN, Detect(cached), UNCHANGED daemon,
         watch'.lastPid = watch.lastPid, watch.pc # "force", watch'.pc # "force"
  PROVE  /\ RestoreDue => RestoreDue'
         /\ Booted'
         /\ \A r \in Reappliers :
               \/ reapply'[r] = reapply[r]
               \/ reapply[r].pc = "idle" /\ reapply'[r].pc = "snapshot"
  <1>1. CASE cached
    BY <1>1 DEF Detect, RestoreDue, Booted, Responsive
  <1>2. CASE ~cached
    <2>1. ready' = Responsive
      BY <1>2 DEF Detect
    <2>2. CASE ~ready /\ Responsive
      <3>1. PICK r \in Reappliers :
              reapply[r].pc = "idle" /\ reapply' = [reapply EXCEPT ![r].pc = "snapshot"]
        BY <1>2, <2>2 DEF Detect
      <3>2. reapply'[r].pc = "snapshot" /\ \A q \in Reappliers \ {r} : reapply'[q] = reapply[q]
        BY <3>1 DEF TypeInv, ReapplyRecords
      <3>3. RestoreDue'
        BY <3>2 DEF RestoreDue
      <3>4. Booted'
        BY <2>2 DEF Booted, Responsive
      <3>5. QED BY <3>1, <3>2, <3>3, <3>4
    <2>3. CASE ~(~ready /\ Responsive)
      <3>1. UNCHANGED reapply
        BY <1>2, <2>3 DEF Detect
      <3>2. RestoreDue => RestoreDue'
        BY <2>1, <2>3, <3>1 DEF RestoreDue, Responsive
      <3>3. Booted'
        BY <2>1 DEF Booted, Responsive
      <3>4. QED BY <3>1, <3>2, <3>3
    <2>4. QED BY <2>2, <2>3
  <1>3. QED BY <1>1, <1>2

\* It sends nothing itself.
LEMMA DetectSends ==
  ASSUME TypeInv, NEW cached \in BOOLEAN, Detect(cached)
  PROVE  \A r \in Reappliers :
            \/ reapply'[r] = reapply[r]
            \/ reapply[r].pc # "send" /\ reapply'[r].pc # "send"
  <1>1. CASE UNCHANGED reapply
    BY <1>1
  <1>2. ASSUME NEW r \in Reappliers, reapply[r].pc = "idle",
               reapply' = [reapply EXCEPT ![r].pc = "snapshot"]
        PROVE  \A q \in Reappliers :
                  \/ reapply'[q] = reapply[q]
                  \/ reapply[q].pc # "send" /\ reapply'[q].pc # "send"
    BY <1>2 DEF TypeInv, ReapplyRecords
  <1>3. QED BY <1>1, <1>2 DEF Detect

\* What is being sent again.
LEMMA SameResending ==
  ASSUME \A r \in Reappliers :
             \/ reapply'[r] = reapply[r]
             \/ reapply[r].pc # "send" /\ reapply'[r].pc # "send",
         NEW j
  PROVE  /\ Resending(j)' = Resending(j)
         /\ \A r \in Resending(j) : reapply'[r].todo[j] = reapply[r].todo[j]
  BY DEF Resending

LEMMA RestoreConnect == ASSUME RestoreInv, Connect PROVE RestoreInv'
  <1>1. TypeInv /\ Booted /\ doubt \subseteq Keys
    BY DEF RestoreInv
  <1>2. TypeInv' /\ DOMAIN delta'.last = {}
    BY <1>1, ConnectType
  <1>3. UNCHANGED <<daemon, ready, watch, worker, reapply, doubt>>
    BY DEF Connect
  <1>4. Booted' /\ Responsive' = Responsive
    BY <1>1, <1>3 DEF Booted, Responsive
  <1>5. \A j : Resending(j)' = Resending(j)
    BY <1>3 DEF Resending
  <1>6. QED BY <1>1, <1>2, <1>3, <1>4, <1>5, Carried DEF Resending

LEMMA RestoreReceive ==
  ASSUME RestoreInv, NEW vals \in [Keys -> Values], ReceiveStep(vals)
  PROVE  RestoreInv'
  <1>1. TypeInv /\ Booted /\ doubt \subseteq Keys
    BY DEF RestoreInv
  <1>2. /\ TypeInv'
        /\ UNCHANGED <<daemon, ready, fresh, watch, delta, reapply, seeded>>
        /\ \A w \in Workers :
              \/ worker'[w] = worker[w]
              \/ worker[w].pc = "idle" /\ worker'[w].pc \in {"gate", "resetgate"}
    BY <1>1, ReceiveType DEF ReceiveStep
  <1>3. doubt' = doubt
    BY DEF ReceiveStep, Receive, ReceivePartial, ReceiveReset
  <1>4. Booted' /\ Responsive' = Responsive /\ RestoreDue' = RestoreDue
    BY <1>1, <1>2 DEF Booted, Responsive, RestoreDue
  <1>5. \A j : Resending(j)' = Resending(j)
    BY <1>2 DEF Resending
  <1>6. \A w \in Workers : worker[w].pc = "rearm" => worker'[w].pc = "rearm"
    BY <1>2
  <1>7. QED BY <1>1, <1>2, <1>3, <1>4, <1>5, <1>6, Carried

LEMMA RestoreGate ==
  ASSUME RestoreInv, NEW w \in Workers, ApplyGate(w) \/ ResetGate(w)
  PROVE  RestoreInv'
  <1>1. TypeInv /\ Booted /\ doubt \subseteq Keys
    BY DEF RestoreInv
  <1>2. /\ TypeInv' /\ Detect(fresh)
        /\ UNCHANGED <<daemon, watch, delta, seeded>>
        /\ worker[w].pc \in {"gate", "resetgate"}
        /\ worker'[w].pc \in {"filter", "stash", "reset", "idle"}
        /\ \A v \in Workers \ {w} : worker'[v] = worker[v]
    BY <1>1, GateType
  <1>3. doubt' = doubt /\ Responsive' = Responsive
    BY <1>2 DEF ApplyGate, ResetGate, Responsive
  <1>4. \A r \in Reappliers :
          \/ reapply'[r] = reapply[r]
          \/ reapply[r].pc # "send" /\ reapply'[r].pc # "send"
    BY <1>1, <1>2, DetectSends DEF TypeInv
  <1>5. \A j : /\ Resending(j)' = Resending(j)
               /\ \A r \in Resending(j) : reapply'[r].todo[j] = reapply[r].todo[j]
    BY <1>4, SameResending
  <1>6. \A v \in Workers : worker[v].pc = "rearm" => worker'[v].pc = "rearm"
    BY <1>2
  <1>7. \A v \in Workers :
          worker'[v] = worker[v] \/ (worker[v].pc # "record" /\ worker'[v].pc # "record")
    BY <1>2
  <1>8. CASE watch.pc = "force"
    <2>1. /\ RestoreDue /\ RestoreDue' /\ Booted'
      BY <1>2, <1>8 DEF RestoreDue, Booted
    <2>2. QED BY <1>1, <1>2, <1>3, <1>4, <1>5, <1>6, <1>7, <2>1, Carried
  <1>9. CASE watch.pc # "force"
    <2>1. /\ RestoreDue => RestoreDue'
          /\ Booted'
      BY <1>1, <1>2, <1>9, DetectDue DEF TypeInv
    <2>2. QED BY <1>1, <1>2, <1>3, <1>4, <1>5, <1>6, <1>7, <2>1, Carried
  <1>10. QED BY <1>8, <1>9

\* An object that is kept is not known as sent, and what is forwarded is not known yet.
LEMMA RestoreKeep ==
  ASSUME RestoreInv, NEW w \in Workers, ApplyStash(w) \/ ApplyFilter(w)
  PROVE  RestoreInv'
  <1>1. TypeInv /\ Booted /\ doubt \subseteq Keys
    BY DEF RestoreInv
  <1>2. /\ TypeInv'
        /\ UNCHANGED <<daemon, ready, fresh, watch, reapply>>
        /\ worker[w].pc \in {"stash", "filter"} /\ worker'[w].pc \in {"idle", "send"}
        /\ \A v \in Workers \ {w} : worker'[v] = worker[v]
        /\ worker[w].todo \in Controls
        /\ \/ delta'.last = delta.last /\ seeded' = seeded
           \/ delta'.last = Recorded(worker[w].todo) /\ seeded' = seeded \cup DOMAIN worker[w].todo
    BY <1>1, StashType, FilterType, IdleTypes
  <1>3. doubt' = doubt
    BY DEF ApplyStash, ApplyFilter
  <1>4. /\ DOMAIN Recorded(worker[w].todo) = DOMAIN worker[w].todo \cup DOMAIN delta.last
        /\ \A k \in DOMAIN delta.last \ DOMAIN worker[w].todo :
             Recorded(worker[w].todo)[k] = delta.last[k]
    <2>1. delta.last \in Controls
      BY <1>1 DEF TypeInv
    <2>2. QED BY <1>2, <2>1, RecordedType
  <1>5. \A j \in DOMAIN delta'.last \ seeded' :
          j \in DOMAIN delta.last \ seeded /\ delta'.last[j] = delta.last[j]
    BY <1>2, <1>4
  <1>6. Booted' /\ Responsive' = Responsive /\ RestoreDue' = RestoreDue
    BY <1>1, <1>2 DEF Booted, Responsive, RestoreDue
  <1>7. \A v \in Workers : worker[v].pc = "rearm" => worker'[v].pc = "rearm"
    BY <1>2
  <1>8. QED BY <1>1, <1>2, <1>3, <1>5, <1>6, <1>7, SameResending, Carried

\* The daemon has the value; the goroutine has the control to itself or in doubt.
LEMMA RestoreDone ==
  ASSUME RestoreInv, TypeInv', NEW w \in Workers, NEW k \in Keys, k = Sent(w), worker[w].pc = "send",
         daemon'.state = daemon.state, daemon'.pid = daemon.pid,
         daemon'.val[k] = worker[w].todo[k], \A j \in Keys \ {k} : daemon'.val[j] = daemon.val[j],
         worker'[w].pc = "record", worker'[w].todo = worker[w].todo,
         \A u \in Workers \ {w} : worker'[u] = worker[u],
         doubt' = DoubtAfterSet(k),
         UNCHANGED <<ready, watch, delta, reapply, seeded>>
  PROVE  RestoreInv'
  <1>1. TypeInv /\ Held /\ Resent /\ Booted /\ Restored /\ doubt \subseteq Keys
    BY DEF RestoreInv
  <1>2. /\ \A j \in Keys \ {k} : j \in doubt' <=> j \in doubt
        /\ k \notin doubt' => Unrecorded(k) = {} /\ Resending(k) = {}
        /\ doubt' \subseteq Keys
    BY <1>1 DEF DoubtAfterSet
  <1>3. Responsive' = Responsive /\ RestoreDue' = RestoreDue /\ \A j : Resending(j)' = Resending(j)
    BY DEF Responsive, RestoreDue, Resending
  <1>4. \A u \in Workers : worker[u].pc = "record" => Sent(u) \in Keys
    BY <1>1, FirstKeyIn DEF TypeInv, WorkerRecords, Busy, Sent
  <1>5. Sent(w)' = k /\ \A u \in Workers \ {w} : Sent(u)' = Sent(u)
    BY DEF Sent
  <1>6. Held'
    <2> SUFFICES ASSUME NEW u \in Workers, worker'[u].pc = "record", Sent(u)' \notin doubt'
                 PROVE  /\ ~Responsive' \/ daemon'.val[Sent(u)'] = worker'[u].todo[Sent(u)']
                        /\ Resending(Sent(u))' = {}
      BY DEF Held
    <2>1. CASE u = w
      <3>1. Resending(Sent(u))' = Resending(k)
        BY <1>5, <2>1 DEF Resending
      <3>2. QED BY <1>2, <1>5, <2>1, <3>1
    <2>2. CASE u # w
      <3>1. worker'[u] = worker[u] /\ Sent(u)' = Sent(u) /\ worker[u].pc = "record" /\ Sent(u) \in Keys
        BY <1>4, <1>5, <2>2
      <3>2. Sent(u) # k
        <4>1. Sent(u) = k => u \in Unrecorded(k)
          BY <3>1 DEF Unrecorded, Sent
        <4>2. QED BY <1>2, <3>1, <4>1
      <3>3. Sent(u) \notin doubt
        <4>1. Sent(u) \notin doubt'
          BY <3>1
        <4>2. QED BY <1>2, <3>1, <3>2, <4>1
      <3>4. Resending(Sent(u))' = Resending(Sent(u))
        BY <3>1 DEF Resending
      <3>5. ~Responsive \/ daemon.val[Sent(u)] = worker[u].todo[Sent(u)]
        BY <1>1, <3>1, <3>3 DEF Held
      <3>6. Resending(Sent(u)) = {}
        BY <1>1, <3>1, <3>3 DEF Held
      <3> DEFINE j == Sent(u)
      <3> HIDE DEF j
      <3>7. Sent(u)' = j /\ j \in Keys \ {k} /\ worker'[u] = worker[u]
        BY <3>1, <3>2 DEF j
      <3>8. ~Responsive \/ daemon.val[j] = worker[u].todo[j]
        BY <3>5 DEF j
      <3>9. daemon'.val[j] = daemon.val[j]
        BY <3>7
      <3>10. ~Responsive' \/ daemon'.val[Sent(u)'] = worker'[u].todo[Sent(u)']
        BY <1>3, <3>7, <3>8, <3>9
      <3>11. QED BY <3>4, <3>6, <3>10
    <2>3. QED BY <2>1, <2>2
  <1>7. DOMAIN delta.last \subseteq Keys
    BY <1>1, ControlsDomain DEF TypeInv
  <1>8. Resent'
    BY <1>1, <1>2, <1>3, <1>7 DEF Resent
  <1>9. Restored'
    <2> SUFFICES ASSUME NEW j \in DOMAIN delta.last \ (seeded \cup doubt'), j # k, ~RestoreDue
                 PROVE  \/ daemon'.val[j] = delta.last[j]
                        \/ \E u \in Workers : worker'[u].pc = "record" /\ j = Sent(u)'
                        \/ \E u \in Workers : worker'[u].pc = "rearm"
                        \/ Resending(j) # {}
      BY <1>3, <1>5 DEF Restored
    <2>1. j \in Keys /\ j \notin doubt
      BY <1>2, <1>7
    <2>2. \/ daemon.val[j] = delta.last[j]
          \/ \E u \in Workers : worker[u].pc = "record" /\ j = Sent(u)
          \/ \E u \in Workers : worker[u].pc = "rearm"
          \/ Resending(j) # {}
      BY <1>1, <2>1 DEF Restored
    <2>3. \A u \in Workers : worker[u].pc \in {"record", "rearm"} => worker'[u] = worker[u] /\ Sent(u)' = Sent(u)
      BY <1>5
    <2>4. daemon'.val[j] = daemon.val[j]
      BY <2>1
    <2>5. CASE \E u \in Workers : worker[u].pc = "record" /\ j = Sent(u)
      BY <2>3, <2>5
    <2>6. CASE \E u \in Workers : worker[u].pc = "rearm"
      BY <2>3, <2>6
    <2>7. QED BY <2>2, <2>4, <2>5, <2>6
  <1>10. Booted'
    BY <1>1 DEF Booted
  <1>11. QED BY <1>2, <1>6, <1>8, <1>9, <1>10 DEF RestoreInv

LEMMA RestoreSend ==
  ASSUME RestoreInv, NEW w \in Workers, ApplySend(w)
  PROVE  RestoreInv'
  <1> DEFINE k == FirstKey(worker[w].todo)
             v == worker[w].todo[k]
  <1>1. TypeInv /\ Booted /\ doubt \subseteq Keys
    BY DEF RestoreInv
  <1>2. /\ TypeInv' /\ k \in Keys
        /\ UNCHANGED <<ready, watch, delta, reapply, seeded>>
        /\ worker[w].pc = "send" /\ worker'[w].pc \in {"idle", "send", "record"}
        /\ \A u \in Workers \ {w} : worker'[u] = worker[u]
        /\ daemon'.state = daemon.state /\ daemon'.pid = daemon.pid
        /\ \/ /\ SetDone(k, v)
              /\ worker'[w].pc = "record" /\ worker'[w].todo = worker[w].todo
              /\ daemon'.val[k] = v /\ \A j \in Keys \ {k} : daemon'.val[j] = daemon.val[j]
           \/ (SetLost \/ SetTimesOut(k, v)) /\ worker'[w].pc # "record"
    BY <1>1, SendType
  <1>3. \/ /\ SetDone(k, v)
           /\ worker' = [worker EXCEPT ![w].pc = "record"]
           /\ doubt' = DoubtAfterSet(k)
        \/ SetLost /\ Skip(w, k) /\ UNCHANGED doubt
        \/ SetTimesOut(k, v) /\ Skip(w, k) /\ doubt' = doubt \cup {k}
    BY DEF ApplySend
  <1>4. k = Sent(w)
    BY DEF Sent
  <1>5. CASE SetDone(k, v) /\ doubt' = DoubtAfterSet(k) /\ worker'[w].pc = "record"
    <2>1. /\ daemon'.val[k] = worker[w].todo[k] /\ \A j \in Keys \ {k} : daemon'.val[j] = daemon.val[j]
          /\ worker'[w].todo = worker[w].todo
      <3>1. worker'[w].todo = worker[w].todo
        BY <1>2, <1>5
      <3>2. k \in Keys /\ v \in Values
        <4>1. worker[w].todo \in Controls /\ DOMAIN worker[w].todo # {}
          BY <1>1, <1>2 DEF TypeInv, WorkerRecords, Busy
        <4>2. QED BY <4>1, FirstKeyIn
      <3> HIDE DEF k, v
      <3>3. daemon'.val[k] = v /\ \A j \in Keys \ {k} : daemon'.val[j] = daemon.val[j]
        BY <1>1, <1>5, <3>2, SetType
      <3>4. QED BY <3>1, <3>3 DEF v
    <2> HIDE DEF k
    <2>2. QED BY <1>2, <1>4, <1>5, <2>1, RestoreDone
  <1>6. CASE /\ worker'[w].pc # "record"
             /\ \/ daemon' = daemon /\ doubt' = doubt
                \/ SetTimesOut(k, v) /\ doubt' = doubt \cup {k}
    <2>1. doubt \subseteq doubt' /\ doubt' \subseteq Keys
      BY <1>1, <1>2, <1>6
    <2> HIDE DEF v
    <2>2. \A j \in Keys \ doubt' : daemon'.val[j] = daemon.val[j]
      <3>1. daemon \in [state : {"down", "booting", "up"}, pid : Nat, val : [Keys -> Values]]
        BY <1>1 DEF TypeInv
      <3> HIDE DEF k
      <3>2. QED BY <1>2, <1>6, <3>1 DEF SetTimesOut
    <2> HIDE DEF k
    <2>3. Booted' /\ Responsive' = Responsive /\ RestoreDue' = RestoreDue
      BY <1>1, <1>2 DEF Booted, Responsive, RestoreDue
    <2>4. \A u \in Workers : worker[u].pc = "rearm" => worker'[u].pc = "rearm"
      BY <1>2
    <2>5. \A u \in Workers : worker'[u] = worker[u] \/ (worker[u].pc # "record" /\ worker'[u].pc # "record")
      BY <1>2, <1>6
    <2>6. QED BY <1>1, <1>2, <2>1, <2>2, <2>3, <2>4, <2>5, SameResending, Carried
  <1>7. QED
    <2>1. SetDone(k, v) \/ ~SetDone(k, v)
      OBVIOUS
    <2>2. ASSUME Skip(w, k) PROVE worker'[w].pc # "record"
      BY <1>1, <1>2, <2>2, SkipType
    <2>3. worker' = [worker EXCEPT ![w].pc = "record"] => worker'[w].pc = "record"
      BY <1>1, <1>2, WorkerGoes DEF WorkerPcs
    <2>4. SetLost => daemon' = daemon
      BY DEF SetLost
    <2> HIDE DEF k, v
    <2>5. QED BY <1>3, <1>5, <1>6, <2>2, <2>3, <2>4

LEMMA RestoreRecord ==
  ASSUME RestoreInv, NEW w \in Workers, ApplyRecord(w)
  PROVE  RestoreInv'
  <1> DEFINE k == Sent(w)
  <1>1. TypeInv /\ Held /\ Resent /\ Booted /\ Restored /\ doubt \subseteq Keys
    BY DEF RestoreInv
  <1>2. /\ TypeInv' /\ k \in Keys
        /\ UNCHANGED <<daemon, ready, fresh, watch, reapply>>
        /\ worker[w].pc = "record" /\ worker'[w].pc \in {"idle", "send"}
        /\ \A u \in Workers \ {w} : worker'[u] = worker[u]
        /\ DOMAIN delta'.last = DOMAIN delta.last \cup {k}
        /\ delta'.last[k] = worker[w].todo[k]
        /\ \A j \in DOMAIN delta.last \ {k} : delta'.last[j] = delta.last[j]
        /\ seeded' = seeded \ {k}
    BY <1>1, RecordType DEF Sent
  <1>3. doubt' = doubt
    BY DEF ApplyRecord
  <1>4. k \notin doubt => /\ ~Responsive \/ daemon.val[k] = worker[w].todo[k]
                          /\ Resending(k) = {}
    BY <1>1, <1>2 DEF Held
  <1> HIDE DEF k
  <1>5. Responsive' = Responsive /\ RestoreDue' = RestoreDue /\ Booted'
    BY <1>1, <1>2 DEF Responsive, RestoreDue, Booted
  <1>6. \A j : Resending(j)' = Resending(j)
    BY <1>2 DEF Resending
  <1>7. \A u \in Workers \ {w} : worker'[u] = worker[u] /\ Sent(u)' = Sent(u)
    BY <1>2 DEF Sent
  <1>8. Held'
    <2> SUFFICES ASSUME NEW u \in Workers \ {w}, worker[u].pc = "record", Sent(u) \notin doubt
                 PROVE  /\ ~Responsive \/ daemon.val[Sent(u)] = worker[u].todo[Sent(u)]
                        /\ Resending(Sent(u)) = {}
      BY <1>2, <1>3, <1>5, <1>6, <1>7 DEF Held, Resending
    <2>1. QED BY <1>1 DEF Held
  <1>9. \A j \in DOMAIN delta'.last \ (seeded' \cup doubt) :
          \/ j = k
          \/ j \in DOMAIN delta.last \ (seeded \cup doubt) /\ delta'.last[j] = delta.last[j]
    BY <1>2
  <1>10. Resent'
    <2> SUFFICES ASSUME NEW j \in DOMAIN delta'.last \ (seeded' \cup doubt), NEW r \in Resending(j)
                 PROVE  reapply[r].todo[j] = delta'.last[j]
      BY <1>2, <1>3, <1>6 DEF Resent
    <2>1. j # k
      BY <1>4
    <2>2. QED BY <1>1, <1>9, <2>1 DEF Resent
  <1>11. Restored'
    <2> SUFFICES ASSUME NEW j \in DOMAIN delta'.last \ (seeded' \cup doubt), ~RestoreDue
                 PROVE  \/ daemon.val[j] = delta'.last[j]
                        \/ \E u \in Workers : worker'[u].pc = "record" /\ j = Sent(u)'
                        \/ \E u \in Workers : worker'[u].pc = "rearm"
                        \/ Resending(j) # {}
      BY <1>2, <1>3, <1>5, <1>6 DEF Restored
    <2>1. CASE j = k
      <3>1. Responsive /\ k \notin doubt
        BY <2>1 DEF RestoreDue
      <3>2. QED BY <1>2, <1>4, <2>1, <3>1
    <2>2. CASE j # k
      <3>1. j \in DOMAIN delta.last \ (seeded \cup doubt) /\ delta'.last[j] = delta.last[j]
        BY <1>9, <2>2
      <3>2. \/ daemon.val[j] = delta.last[j]
            \/ \E u \in Workers : worker[u].pc = "record" /\ j = Sent(u)
            \/ \E u \in Workers : worker[u].pc = "rearm"
            \/ Resending(j) # {}
        BY <1>1, <3>1 DEF Restored
      <3>3. CASE \E u \in Workers : worker[u].pc = "record" /\ j = Sent(u)
        <4>1. PICK u \in Workers : worker[u].pc = "record" /\ j = Sent(u)
          BY <3>3
        <4>2. u # w
          BY <2>2, <4>1 DEF k
        <4>3. QED BY <1>7, <4>1, <4>2
      <3>4. CASE \E u \in Workers : worker[u].pc = "rearm"
        BY <1>2, <3>4
      <3>5. QED BY <3>1, <3>2, <3>3, <3>4
    <2>3. QED BY <2>1, <2>2
  <1>12. QED BY <1>1, <1>2, <1>3, <1>5, <1>8, <1>10, <1>11 DEF RestoreInv

\* A reset puts every control that is to be recorded in doubt, and will forget the rest.
LEMMA RestoreReset ==
  ASSUME RestoreInv, NEW w \in Workers, ResetCommand(w) \/ ResetRearm(w)
  PROVE  RestoreInv'
  <1>1. TypeInv /\ Held /\ Resent /\ Booted /\ Restored /\ doubt \subseteq Keys
    BY DEF RestoreInv
  <1>2. /\ TypeInv'
        /\ UNCHANGED <<ready, fresh, watch, reapply>>
        /\ daemon'.state = daemon.state /\ daemon'.pid = daemon.pid
        /\ \A u \in Workers \ {w} : worker'[u] = worker[u]
        /\ \/ worker'[w].pc = "rearm" /\ UNCHANGED <<delta, seeded>>
           \/ worker'[w] = IdleWorker /\ delta' = Rearmed /\ UNCHANGED daemon
    BY <1>1, ResetType
  <1>3. Responsive' = Responsive /\ RestoreDue' = RestoreDue /\ Booted'
    BY <1>1, <1>2 DEF Responsive, RestoreDue, Booted
  <1>4. \A j : Resending(j)' = Resending(j)
    BY <1>2 DEF Resending
  <1>5. worker[w].pc \in {"reset", "rearm"} /\ worker'[w].pc \in {"rearm", "idle"}
    BY <1>2, IdleTypes DEF ResetCommand, ResetRearm
  <1>6. \A u \in Workers : worker'[u] = worker[u] \/ (worker[u].pc # "record" /\ worker'[u].pc # "record")
    BY <1>2, <1>5
  <1>7. CASE ResetCommand(w) /\ Responsive
    <2>1. doubt' = doubt \cup {k \in Keys : Unrecorded(k) # {}}
      BY <1>7 DEF ResetCommand
    <2>2. worker'[w].pc = "rearm" /\ UNCHANGED <<delta, seeded>>
      BY <1>1, <1>7, WorkerGoes DEF ResetCommand, WorkerPcs
    <2>3. ASSUME NEW u \in Workers, worker'[u].pc = "record" PROVE Sent(u)' \in doubt'
      <3>1. worker'[u] = worker[u] /\ worker[u].pc = "record" /\ Sent(u)' = Sent(u)
        BY <1>6, <2>3 DEF Sent
      <3>2. Sent(u) \in Keys
        BY <1>1, <3>1, FirstKeyIn DEF TypeInv, WorkerRecords, Busy, Sent
      <3>3. u \in Unrecorded(Sent(u))
        BY <3>1 DEF Unrecorded, Sent
      <3>4. QED BY <2>1, <3>1, <3>2, <3>3
    <2>4. Held'
      BY <2>3 DEF Held
    <2>5. Resent'
      BY <1>1, <1>2, <1>4, <2>1, <2>2 DEF Resent
    <2>6. Restored'
      BY <2>2 DEF Restored
    <2>7. QED BY <1>1, <1>2, <1>3, <2>1, <2>4, <2>5, <2>6 DEF RestoreInv
  <1>8. CASE ResetCommand(w) /\ ~Responsive
    <2>1. UNCHANGED <<daemon, doubt>> /\ worker'[w].pc = "rearm" /\ UNCHANGED <<delta, seeded>>
      BY <1>1, <1>8, WorkerGoes DEF ResetCommand, WorkerPcs
    <2>2. QED BY <1>1, <1>2, <1>3, <1>4, <1>6, <2>1, Carried DEF Resending
  <1>9. CASE ResetRearm(w)
    <2>1. DOMAIN delta'.last = {} /\ UNCHANGED <<daemon, doubt>>
      BY <1>9, NoControlsType DEF ResetRearm, Rearmed
    <2>2. QED BY <1>1, <1>2, <1>3, <1>4, <1>6, <2>1, Carried DEF Resending
  <1>10. QED BY <1>7, <1>8, <1>9

LEMMA WithoutIs ==
  ASSUME NEW todo, NEW k
  PROVE  /\ DOMAIN Without(todo, k) = DOMAIN todo \ {k}
         /\ \A j \in DOMAIN todo \ {k} : Without(todo, k)[j] = todo[j]
  BY DEF Without

LEMMA RestoreSnapshot ==
  ASSUME RestoreInv, NEW r \in Reappliers, ReapplySnapshot(r)
  PROVE  RestoreInv'
  <1>1. TypeInv /\ Held /\ Resent /\ Booted /\ Restored /\ doubt \subseteq Keys
    BY DEF RestoreInv
  <1>2. /\ TypeInv' /\ UNCHANGED <<daemon, ready, watch, worker, seeded>>
        /\ reapply[r].pc = "snapshot"
        /\ \A q \in Reappliers \ {r} : reapply'[q] = reapply[q]
    <2>1. TypeInv' /\ \A q \in Reappliers \ {r} : reapply'[q] = reapply[q]
      BY <1>1, ReapplyType DEF ReapplyStep
    <2>2. QED BY <2>1 DEF ReapplySnapshot
  <1>3. Booted' /\ Responsive' = Responsive
    BY <1>1, <1>2 DEF Booted, Responsive
  <1>4. CASE DOMAIN delta.last = {}
    <2>1. delta' = Rearmed /\ doubt' = doubt /\ reapply' = [reapply EXCEPT ![r] = IdleReapply]
      BY <1>4 DEF ReapplySnapshot
    <2>2. DOMAIN delta'.last = {} /\ reapply'[r].pc = "idle"
      BY <1>1, <2>1, NoControlsType, IdleTypes DEF Rearmed, TypeInv
    <2>3. \A q \in Reappliers :
            \/ reapply'[q] = reapply[q]
            \/ reapply[q].pc # "send" /\ reapply'[q].pc # "send"
      BY <1>2, <2>2
    <2>4. \A j : /\ Resending(j)' = Resending(j)
                 /\ \A q \in Resending(j) : reapply'[q].todo[j] = reapply[q].todo[j]
      BY <2>3, SameResending
    <2>5. QED BY <1>1, <1>2, <1>3, <2>1, <2>2, <2>4, Carried
  <1>5. CASE DOMAIN delta.last # {}
    <2>1. /\ UNCHANGED delta
          /\ reapply' = [reapply EXCEPT ![r] = [pc |-> "send", todo |-> delta.last]]
          /\ doubt' = doubt \cup {k \in DOMAIN delta.last : Unrecorded(k) # {}}
      BY <1>5 DEF ReapplySnapshot
    <2>2. reapply'[r] = [pc |-> "send", todo |-> delta.last]
      BY <1>1, <2>1 DEF TypeInv
    <2>3. doubt' \subseteq Keys
      BY <1>1, <2>1, ControlsDomain DEF TypeInv
    <2>4. \A j \in DOMAIN delta.last : r \in Resending(j)'
      BY <2>2 DEF Resending
    <2>5. \A j \in DOMAIN delta.last : \A q \in Resending(j)' : q = r \/ q \in Resending(j)
      BY <1>2 DEF Resending
    <2>6. Held'
      <3> SUFFICES ASSUME NEW u \in Workers, worker[u].pc = "record", Sent(u) \notin doubt'
                   PROVE  /\ ~Responsive \/ daemon.val[Sent(u)] = worker[u].todo[Sent(u)]
                          /\ Resending(Sent(u))' = {}
        BY <1>2, <1>3 DEF Held, Sent, Resending
      <3>1. Sent(u) \notin doubt
        BY <2>1
      <3>2. u \in Unrecorded(Sent(u))
        BY DEF Unrecorded, Sent
      <3>3. Sent(u) \notin DOMAIN delta.last
        BY <2>1, <3>2
      <3>4. /\ ~Responsive \/ daemon.val[Sent(u)] = worker[u].todo[Sent(u)]
            /\ Resending(Sent(u)) = {}
        BY <1>1, <3>1 DEF Held
      <3> DEFINE j == Sent(u)
      <3>5. j \notin DOMAIN reapply'[r].todo
        BY <2>2, <3>3
      <3>6. Resending(j) = {}
        BY <3>4
      <3>7. Resending(Sent(u))' = {q \in Reappliers : reapply'[q].pc = "send" /\ j \in DOMAIN reapply'[q].todo}
        BY <1>2 DEF Resending, Sent
      <3> HIDE DEF j
      <3>8. Resending(Sent(u))' = {}
        BY <1>2, <3>5, <3>6, <3>7 DEF Resending
      <3>9. QED BY <3>4, <3>8
    <2>7. Resent'
      <3> SUFFICES ASSUME NEW j \in DOMAIN delta.last \ (seeded \cup doubt'), NEW q \in Resending(j)'
                   PROVE  reapply'[q].todo[j] = delta.last[j]
        BY <1>2, <2>1 DEF Resent
      <3>1. CASE q = r
        BY <2>2, <3>1
      <3>2. CASE q \in Resending(j) /\ q # r
        <4>1. reapply'[q] = reapply[q] /\ j \notin doubt
          BY <1>2, <2>1, <3>2 DEF Resending
        <4>2. QED BY <1>1, <3>2, <4>1 DEF Resent
      <3>3. QED BY <2>5, <3>1, <3>2
    <2>8. Restored'
      BY <2>1, <2>4 DEF Restored
    <2>9. QED BY <1>2, <1>3, <2>3, <2>6, <2>7, <2>8 DEF RestoreInv
  <1>6. QED BY <1>4, <1>5

\* A control is sent again with the value that is known, whoever else has begun since.
LEMMA RestoreResend ==
  ASSUME RestoreInv, NEW r \in Reappliers, ReapplySend(r)
  PROVE  RestoreInv'
  <1> DEFINE k == FirstKey(reapply[r].todo)
             v == reapply[r].todo[k]
             rest == Without(reapply[r].todo, k)
  <1>1. TypeInv /\ Held /\ Resent /\ Booted /\ Restored /\ doubt \subseteq Keys
    BY DEF RestoreInv
  <1>2. /\ TypeInv' /\ UNCHANGED <<ready, watch, delta, worker, seeded>>
        /\ daemon'.state = daemon.state /\ daemon'.pid = daemon.pid
        /\ \A q \in Reappliers \ {r} : reapply'[q] = reapply[q]
    <2>1. /\ TypeInv' /\ \A q \in Reappliers \ {r} : reapply'[q] = reapply[q]
          /\ daemon'.state = daemon.state /\ daemon'.pid = daemon.pid
      BY <1>1, ReapplyType DEF ReapplyStep
    <2>2. QED BY <2>1 DEF ReapplySend
  <1>3. /\ reapply[r].pc = "send"
        /\ \/ (SetDone(k, v) \/ SetLost) /\ UNCHANGED doubt
           \/ SetTimesOut(k, v) /\ doubt' = doubt \cup {k}
        /\ reapply' = [reapply EXCEPT ![r] = IF DOMAIN rest = {} THEN IdleReapply
                                            ELSE [pc |-> "send", todo |-> rest]]
    BY DEF ReapplySend
  <1>4. k \in DOMAIN reapply[r].todo /\ k \in Keys /\ v \in Values
    <2>1. reapply[r].todo \in Controls /\ DOMAIN reapply[r].todo # {}
      BY <1>1, <1>3 DEF TypeInv, ReapplyRecords, Busy
    <2>2. QED BY <2>1, FirstKeyIn
  <1>5. DOMAIN rest = DOMAIN reapply[r].todo \ {k} /\ \A j \in DOMAIN rest : rest[j] = reapply[r].todo[j]
    BY WithoutIs
  <1>6. v = reapply[r].todo[k]
    OBVIOUS
  <1> HIDE DEF k, v, rest
  <1>7. \/ DOMAIN rest = {} /\ reapply'[r].pc = "idle"
        \/ DOMAIN rest # {} /\ reapply'[r] = [pc |-> "send", todo |-> rest]
    BY <1>1, <1>3, IdleTypes DEF TypeInv
  <1>8. \A j : \A q \in Resending(j)' : q \in Resending(j) /\ reapply'[q].todo[j] = reapply[q].todo[j]
    <2> SUFFICES ASSUME NEW j, NEW q \in Resending(j)'
                 PROVE  q \in Resending(j) /\ reapply'[q].todo[j] = reapply[q].todo[j]
      OBVIOUS
    <2>1. q \in Reappliers /\ reapply'[q].pc = "send" /\ j \in DOMAIN reapply'[q].todo
      BY DEF Resending
    <2>2. CASE q # r
      BY <1>2, <2>1, <2>2 DEF Resending
    <2>3. CASE q = r
      BY <1>3, <1>5, <1>7, <2>1, <2>3 DEF Resending
    <2>4. QED BY <2>2, <2>3
  <1>9. \A j : j # k => \A q \in Resending(j) : q \in Resending(j)'
    <2> SUFFICES ASSUME NEW j, j # k, NEW q \in Resending(j) PROVE q \in Resending(j)'
      OBVIOUS
    <2>1. q \in Reappliers /\ reapply[q].pc = "send" /\ j \in DOMAIN reapply[q].todo
      BY DEF Resending
    <2>2. CASE q # r
      BY <1>2, <2>1, <2>2 DEF Resending
    <2>3. CASE q = r
      BY <1>5, <1>7, <2>1, <2>3 DEF Resending
    <2>4. QED BY <2>2, <2>3
  <1>10. r \in Resending(k)
    BY <1>3, <1>4 DEF Resending
  <1>11. \A q \in Reappliers : reapply[q].pc = "snapshot" => reapply'[q].pc = "snapshot"
    BY <1>2, <1>3
  <1>12. Responsive' = Responsive /\ Booted' /\ (RestoreDue => RestoreDue')
    BY <1>1, <1>2, <1>11 DEF Responsive, Booted, RestoreDue
  <1>13. CASE SetDone(k, v) /\ doubt' = doubt
    <2>1. daemon'.val[k] = v /\ \A j \in Keys \ {k} : daemon'.val[j] = daemon.val[j]
      BY <1>1, <1>4, <1>13, SetType
    <2>2. Held'
      <3> SUFFICES ASSUME NEW u \in Workers, worker[u].pc = "record", Sent(u) \notin doubt
                   PROVE  /\ ~Responsive' \/ daemon'.val[Sent(u)] = worker[u].todo[Sent(u)]
                          /\ Resending(Sent(u))' = {}
        BY <1>2, <1>13 DEF Held, Sent, Resending
      <3> DEFINE j == Sent(u)
      <3>1. ~Responsive \/ daemon.val[j] = worker[u].todo[j]
        BY <1>1 DEF Held
      <3>2. Resending(j) = {}
        BY <1>1 DEF Held
      <3>3. j \in Keys
        BY <1>1, FirstKeyIn DEF TypeInv, WorkerRecords, Busy, Sent
      <3>4. Resending(Sent(u))' = {q \in Reappliers : reapply'[q].pc = "send" /\ j \in DOMAIN reapply'[q].todo}
        BY <1>2 DEF Resending, Sent
      <3> HIDE DEF j
      <3>5. j # k
        BY <1>10, <3>2
      <3>6. Resending(Sent(u))' = {}
        BY <1>8, <3>2, <3>4 DEF Resending
      <3>7. ~Responsive' \/ daemon'.val[j] = worker[u].todo[j]
        BY <1>12, <2>1, <3>1, <3>3, <3>5
      <3>8. QED BY <3>6, <3>7 DEF j
    <2>3. Resent'
      <3> SUFFICES ASSUME NEW j \in DOMAIN delta.last \ (seeded \cup doubt), NEW q \in Resending(j)'
                   PROVE  reapply'[q].todo[j] = delta.last[j]
        BY <1>2, <1>13 DEF Resent
      <3>1. q \in Resending(j) /\ reapply'[q].todo[j] = reapply[q].todo[j]
        BY <1>8
      <3>2. QED BY <1>1, <3>1 DEF Resent
    <2>4. Restored'
      <3> SUFFICES ASSUME NEW j \in DOMAIN delta.last \ (seeded \cup doubt), ~RestoreDue'
                   PROVE  \/ daemon'.val[j] = delta.last[j]
                          \/ \E u \in Workers : worker'[u].pc = "record" /\ j = Sent(u)'
                          \/ \E u \in Workers : worker'[u].pc = "rearm"
                          \/ Resending(j)' # {}
        BY <1>2, <1>13 DEF Restored
      <3>1. CASE j = k
        <4>1. reapply[r].todo[k] = delta.last[k]
          BY <1>1, <1>10, <3>1 DEF Resent
        <4>2. QED BY <1>6, <2>1, <3>1, <4>1
      <3>2. CASE j # k
        <4>1. /\ \/ daemon.val[j] = delta.last[j]
                 \/ \E u \in Workers : worker[u].pc = "record" /\ j = Sent(u)
                 \/ \E u \in Workers : worker[u].pc = "rearm"
                 \/ Resending(j) # {}
          BY <1>1, <1>12 DEF Restored
        <4>2. j \in Keys
          BY <1>1, ControlsDomain DEF TypeInv
        <4>3. daemon'.val[j] = daemon.val[j]
          BY <2>1, <3>2, <4>2
        <4>4. Resending(j) # {} => Resending(j)' # {}
          BY <1>9, <3>2
        <4>5. \A u \in Workers : worker'[u] = worker[u] /\ Sent(u)' = Sent(u)
          BY <1>2 DEF Sent
        <4>6. QED BY <4>1, <4>3, <4>4, <4>5
      <3>3. QED BY <3>1, <3>2
    <2>5. QED BY <1>1, <1>2, <1>12, <1>13, <2>2, <2>3, <2>4 DEF RestoreInv
  <1>14. CASE SetLost /\ doubt' = doubt
    <2>1. ~Responsive' /\ RestoreDue' /\ daemon' = daemon
      BY <1>12, <1>14 DEF SetLost, RestoreDue
    <2>2. QED BY <1>1, <1>2, <1>8, <1>12, <1>14, <2>1, Carried
  <1>15. CASE SetTimesOut(k, v) /\ doubt' = doubt \cup {k}
    <2>1. doubt \subseteq doubt' /\ doubt' \subseteq Keys
      BY <1>1, <1>4, <1>15
    <2>2. \A j \in Keys \ doubt' : daemon'.val[j] = daemon.val[j]
      <3>1. daemon \in [state : {"down", "booting", "up"}, pid : Nat, val : [Keys -> Values]]
        BY <1>1 DEF TypeInv
      <3>2. QED BY <1>4, <1>15, <3>1 DEF SetTimesOut
    <2>3. \A j \in Keys \ doubt' : Resending(j) # {} => Resending(j)' # {}
      BY <1>9, <1>15
    <2>4. QED BY <1>1, <1>2, <1>8, <1>12, <2>1, <2>2, <2>3, Carried
  <1>16. QED BY <1>3, <1>13, <1>14, <1>15

LEMMA RestoreWatch == ASSUME RestoreInv, WatchStep \/ CacheExpires PROVE RestoreInv'
  <1>1. TypeInv /\ Booted /\ doubt \subseteq Keys
    BY DEF RestoreInv
  <1>2. TypeInv' /\ UNCHANGED <<daemon, delta, worker, seeded>>
    BY <1>1, WatchType
  <1>3. doubt' = doubt
    BY DEF WatchStep, WatchSame, WatchNew, WatchForce, WatchDetect, CacheExpires
  <1>4. Responsive' = Responsive
    BY <1>2 DEF Responsive
  <1>5. ASSUME Booted', RestoreDue => RestoreDue',
               \A r \in Reappliers :
                   \/ reapply'[r] = reapply[r]
                   \/ reapply[r].pc # "send" /\ reapply'[r].pc # "send"
        PROVE  RestoreInv'
    <2>1. \A j : /\ Resending(j)' = Resending(j)
                 /\ \A r \in Resending(j) : reapply'[r].todo[j] = reapply[r].todo[j]
      BY <1>5, SameResending
    <2>2. QED BY <1>1, <1>2, <1>3, <1>4, <1>5, <2>1, Carried
  <1>6. CASE WatchSame \/ WatchDetect
    <2>1. PICK cached \in BOOLEAN : Detect(cached)
      BY <1>1, <1>6 DEF WatchSame, WatchDetect, TypeInv
    <2>2. watch'.lastPid = watch.lastPid /\ watch.pc # "force" /\ watch'.pc # "force"
      BY <1>1, <1>6 DEF WatchSame, WatchDetect, TypeInv
    <2>3. (RestoreDue => RestoreDue') /\ Booted'
      BY <1>1, <1>2, <2>1, <2>2, DetectDue
    <2>4. QED BY <1>1, <1>5, <2>1, <2>3, DetectSends
  <1>7. CASE WatchNew
    <2>1. watch'.pc = "force" /\ UNCHANGED reapply
      BY <1>7 DEF WatchNew
    <2>2. QED BY <1>5, <2>1 DEF Booted, RestoreDue
  <1>8. CASE WatchForce
    <2>1. ready' = FALSE /\ UNCHANGED reapply
      BY <1>8 DEF WatchForce
    <2>2. QED BY <1>5, <2>1 DEF Booted, RestoreDue
  <1>9. CASE CacheExpires
    <2>1. UNCHANGED <<ready, watch, reapply, daemon>>
      BY <1>9 DEF CacheExpires
    <2>2. Booted' /\ (RestoreDue => RestoreDue')
      BY <1>1, <1>4, <2>1 DEF Booted, RestoreDue
    <2>3. QED BY <1>5, <2>1, <2>2
  <1>10. QED BY <1>6, <1>7, <1>8, <1>9 DEF WatchStep

\* A daemon that goes takes what was due with it; one that gets its socket is yet
\* to be found, or found ready.
LEMMA RestoreDaemon ==
  ASSUME RestoreInv, DaemonDies \/ DaemonStarts \/ DaemonReady
  PROVE  RestoreInv'
  <1>1. TypeInv /\ Booted /\ doubt \subseteq Keys
    BY DEF RestoreInv
  <1>2. TypeInv' /\ UNCHANGED <<ready, fresh, watch, delta, worker, reapply, seeded>>
    BY <1>1, DaemonType
  <1>3. doubt' = doubt
    BY DEF DaemonDies, DaemonStarts, DaemonReady
  <1>4. \A j : Resending(j)' = Resending(j)
    BY <1>2 DEF Resending
  <1>5. daemon \in [state : {"down", "booting", "up"}, pid : Nat, val : [Keys -> Values]]
    BY <1>1 DEF TypeInv
  <1>6. CASE DaemonDies \/ DaemonStarts
    <2>1. ~Responsive' /\ RestoreDue'
      BY <1>5, <1>6 DEF DaemonDies, DaemonStarts, Responsive, RestoreDue
    <2>2. Booted'
      <3>1. CASE DaemonDies
        BY <1>5, <3>1 DEF DaemonDies, Booted
      <3>2. CASE DaemonStarts
        <4>1. daemon'.pid = daemon.pid + 1 /\ watch'.lastPid \in 0..daemon.pid /\ daemon.pid \in Nat
          BY <1>1, <1>2, <1>5, <3>2 DEF DaemonStarts, TypeInv
        <4>2. watch'.lastPid # daemon'.pid
          BY <4>1
        <4>3. QED BY <4>2 DEF Booted
      <3>3. QED BY <1>6, <3>1, <3>2
    <2>3. QED BY <1>1, <1>2, <1>3, <1>4, <2>1, <2>2, Carried DEF Resending
  <1>7. CASE DaemonReady
    <2>1. daemon.state = "booting" /\ daemon' = [daemon EXCEPT !.state = "up"]
          /\ \A w \in Workers : worker[w].pc # "record"
      BY <1>7 DEF DaemonReady
    <2>2. daemon'.pid = daemon.pid /\ daemon'.val = daemon.val /\ daemon'.state = "up"
      BY <1>5, <2>1
    <2>3. RestoreDue' /\ Booted'
      BY <1>1, <1>2, <2>1, <2>2 DEF Booted, RestoreDue
    <2>4. QED BY <1>1, <1>2, <1>3, <1>4, <2>1, <2>2, <2>3, Carried DEF Resending
  <1>8. QED BY <1>6, <1>7

LEMMA RestoreNext == ASSUME RestoreInv, [Next]_vars PROVE RestoreInv'
  <1>1. CASE UNCHANGED vars
    BY <1>1 DEF vars, RestoreInv, TypeInv, Held, Resent, Booted, Restored, RestoreDue,
                Responsive, Resending, Sent
  <1>2. ASSUME NEW w \in Workers, ApplyStep(w) PROVE RestoreInv'
    BY <1>2, RestoreGate, RestoreKeep, RestoreSend, RestoreRecord, RestoreReset DEF ApplyStep
  <1>3. ASSUME NEW r \in Reappliers, ReapplyStep(r) PROVE RestoreInv'
    BY <1>3, RestoreSnapshot, RestoreResend DEF ReapplyStep
  <1>4. CASE Next
    BY <1>2, <1>3, <1>4, NextCases, RestoreConnect, RestoreReceive, RestoreWatch, RestoreDaemon
  <1>5. QED BY <1>1, <1>4

\* Whatever goroutines, connections, resets, re-applications, time-outs and restarts
\* of the daemon overlap: when nothing is on its way, the daemon holds every value
\* recorded as applied that no two goroutines had in hand at once and whose set did
\* not time out since one set it alone.
THEOREM RecordedIsAppliedHolds == Spec => []RecordedIsApplied
  <1>1. Init => RestoreInv
    BY RestoreInit
  <1>2. RestoreInv /\ [Next]_vars => RestoreInv'
    BY RestoreNext
  <1>3. RestoreInv => RecordedIsApplied
    <2> SUFFICES ASSUME RestoreInv, Quiet, NEW k \in DOMAIN delta.last \ (seeded \cup doubt)
                 PROVE  daemon.val[k] = delta.last[k]
      BY DEF RecordedIsApplied
    <2>1. \A w \in Workers : worker[w].pc = "idle"
      BY DEF Quiet
    <2>2. \A r \in Reappliers : reapply[r].pc = "idle"
      BY DEF Quiet
    <2>3. ~RestoreDue
      BY <2>2 DEF Quiet, RestoreDue
    <2>4. Resending(k) = {}
      BY <2>2 DEF Resending
    <2>5. QED BY <2>1, <2>3, <2>4 DEF RestoreInv, Restored
  <1>4. QED BY <1>1, <1>2, <1>3, PTL DEF Spec

=============================================================================
