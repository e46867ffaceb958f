-------------------------------- MODULE Motion --------------------------------
(***************************************************************************)
(* Motion events of the Go client (src/goclient/motion_mq.go): one watcher *)
(* per connection to the controller reads the camera's message queue, and  *)
(* a failsafe of its own ends an event whose stop never comes.  A watcher  *)
(* blocked in the queue outlives its connection, and takes messages there. *)
(***************************************************************************)
EXTENDS Naturals, Sequences, FiniteSets

CONSTANTS
    MaxConns,       \* bound: connections
    MaxMessages,    \* bound: messages of the camera's motion detector
    MaxFails        \* bound: opens or receives that fail

VARIABLES
    queue,          \* /ipc_dispatch_6: motion messages nobody has read yet
    live,           \* the connection there is, 0 if none
    st,             \* motionState of each connection; old: for over 5 minutes
    watcher,        \* startMotionWatcher: program counter, event to send
    failsafe,       \* runMotionFailsafe: likewise
    sent,           \* per connection: the events the controller has been sent
    left            \* what remains of the bounds

vars == <<queue, live, st, watcher, failsafe, sent, left>>

Conns == 1..MaxConns
Opened == {c \in Conns : watcher[c].pc # "unborn"}
Unsent == [edge |-> "none", id |-> 0]
Unborn == [pc |-> "unborn", event |-> Unsent]

Init ==
    /\ queue = <<>> /\ live = 0
    /\ st = [c \in Conns |-> [active |-> FALSE, eventID |-> 0, old |-> FALSE]]
    /\ watcher = [c \in Conns |-> Unborn]
    /\ failsafe = [c \in Conns |-> Unborn]
    /\ sent = [c \in Conns |-> <<>>]
    /\ left = [messages |-> MaxMessages, fails |-> MaxFails]

----------------------------------------------------------------------------
(* The world: the camera's detector, the connection, time. *)

Detect(edge) ==
    /\ left.messages > 0
    /\ queue' = Append(queue, edge)
    /\ left' = [left EXCEPT !.messages = @ - 1]
    /\ UNCHANGED <<live, st, watcher, failsafe, sent>>

\* run() has a connection, with a watcher and a failsafe of its own.
Dial ==
    /\ live = 0 /\ Cardinality(Opened) < MaxConns
    /\ live' = Cardinality(Opened) + 1
    /\ watcher' = [watcher EXCEPT ![live'] = [Unborn EXCEPT !.pc = "top"]]
    /\ failsafe' = [failsafe EXCEPT ![live'] = [Unborn EXCEPT !.pc = "wait"]]
    /\ UNCHANGED <<queue, st, sent, left>>

\* The connection breaks and closes the done channel of its goroutines.
HangUp ==
    /\ live # 0
    /\ live' = 0
    /\ UNCHANGED <<queue, st, watcher, failsafe, sent, left>>

Done(c) == c # live

\* Five minutes pass without a stop.  Sending takes less than that.
EventAges(c) ==
    /\ st[c].active /\ ~st[c].old
    /\ watcher[c].pc # "send"
    /\ st' = [st EXCEPT ![c].old = TRUE]
    /\ UNCHANGED <<queue, live, watcher, failsafe, sent, left>>

----------------------------------------------------------------------------
(* handleMotionStart and handleMotionStop, up to the end of their critical *)
(* section, and the send that follows it outside the mutex.                *)

Started(c) == [st EXCEPT ![c].active = TRUE, ![c].old = FALSE]
\* Wrong on purpose: the event's number is not advanced.
MutStopped(c) == [st EXCEPT ![c].active = FALSE]
Stopped(c) == [st EXCEPT ![c].active = FALSE, ![c].eventID = @ + 1]

\* The event goes out, unless the connection is closed.
Report(c, event) ==
    sent' = IF Done(c) THEN sent ELSE [sent EXCEPT ![c] = Append(@, event)]

----------------------------------------------------------------------------
(* startMotionWatcher and runMotionWatcherOnce. *)

WatcherGo(c, pc) == watcher' = [watcher EXCEPT ![c] = [Unborn EXCEPT !.pc = pc]]

\* The loops' look at the done channel: before an open, before a receive.
WatcherDone(c) ==
    /\ watcher[c].pc \in {"top", "check", "backoff"} /\ Done(c)
    /\ WatcherGo(c, "off")
    /\ UNCHANGED <<queue, live, st, failsafe, sent, left>>

OpenQueue(c) ==
    /\ watcher[c].pc = "top" /\ ~Done(c)
    /\ WatcherGo(c, "check")
    /\ UNCHANGED <<queue, live, st, failsafe, sent, left>>

\* ENOENT just after boot, or a receive that fails: try again after a while.
QueueFails(c) ==
    /\ \/ watcher[c].pc = "top" /\ ~Done(c)
       \/ watcher[c].pc = "receive"
    /\ left.fails > 0
    /\ left' = [left EXCEPT !.fails = @ - 1]
    /\ WatcherGo(c, "backoff")
    /\ UNCHANGED <<queue, live, st, failsafe, sent>>

BackoffOver(c) ==
    /\ watcher[c].pc = "backoff" /\ ~Done(c)
    /\ WatcherGo(c, "top")
    /\ UNCHANGED <<queue, live, st, failsafe, sent, left>>

BeginReceive(c) ==
    /\ watcher[c].pc = "check" /\ ~Done(c)
    /\ WatcherGo(c, "receive")
    /\ UNCHANGED <<queue, live, st, failsafe, sent, left>>

\* Nothing for 5 s.
ReceiveTimeout(c) ==
    /\ watcher[c].pc = "receive" /\ queue = <<>>
    /\ WatcherGo(c, "check")
    /\ UNCHANGED <<queue, live, st, failsafe, sent, left>>

\* A message, taken whether the connection is still there or not, and the
\* critical section it leads to.  A duplicate start or an unmatched stop is ignored.
Receive(c) ==
    /\ watcher[c].pc = "receive" /\ queue # <<>>
    /\ queue' = Tail(queue)
    /\ IF (Head(queue) = "start") = st[c].active
       THEN WatcherGo(c, "check") /\ UNCHANGED st
       ELSE /\ watcher' = [watcher EXCEPT ![c] = [pc |-> "send",
                                event |-> [edge |-> Head(queue), id |-> st[c].eventID]]]
            /\ st' = IF Head(queue) = "start" THEN Started(c) ELSE Stopped(c)
    /\ UNCHANGED <<live, failsafe, sent, left>>

WatcherSend(c) ==
    /\ watcher[c].pc = "send"
    /\ Report(c, watcher[c].event)
    /\ WatcherGo(c, "check")
    /\ UNCHANGED <<queue, live, st, failsafe, left>>

----------------------------------------------------------------------------
(* runMotionFailsafe. *)

FailsafeGo(c, pc) == failsafe' = [failsafe EXCEPT ![c] = [Unborn EXCEPT !.pc = pc]]

FailsafeDone(c) ==
    /\ failsafe[c].pc = "wait" /\ Done(c)
    /\ FailsafeGo(c, "off")
    /\ UNCHANGED <<queue, live, st, watcher, sent, left>>

\* Wrong on purpose: the failsafe claims the event under the mutex, so that
\* handleMotionStop then finds none.
MutFailsafeTick(c) ==
    /\ failsafe[c].pc = "wait"
    /\ st[c].active /\ st[c].old
    /\ FailsafeGo(c, "stuck")
    /\ st' = [st EXCEPT ![c].active = FALSE]
    /\ UNCHANGED <<queue, live, watcher, sent, left>>

\* A tick that finds the event stuck; the mutex is released before the stop.
FailsafeTick(c) ==
    /\ failsafe[c].pc = "wait"
    /\ st[c].active /\ st[c].old
    /\ FailsafeGo(c, "stuck")
    /\ UNCHANGED <<queue, live, st, watcher, sent, left>>

\* handleMotionStop, for whichever event is active by then.
FailsafeStop(c) ==
    /\ failsafe[c].pc = "stuck"
    /\ IF st[c].active
       THEN /\ failsafe' = [failsafe EXCEPT ![c] = [pc |-> "send",
                                event |-> [edge |-> "stop", id |-> st[c].eventID]]]
            /\ st' = Stopped(c)
       ELSE FailsafeGo(c, "wait") /\ UNCHANGED st
    /\ UNCHANGED <<queue, live, watcher, sent, left>>

FailsafeSend(c) ==
    /\ failsafe[c].pc = "send"
    /\ Report(c, failsafe[c].event)
    /\ FailsafeGo(c, "wait")
    /\ UNCHANGED <<queue, live, st, watcher, left>>

----------------------------------------------------------------------------

WatcherStep(c) ==
    \/ WatcherDone(c) \/ OpenQueue(c) \/ BackoffOver(c) \/ BeginReceive(c)
    \/ ReceiveTimeout(c) \/ Receive(c) \/ WatcherSend(c)

FailsafeStep(c) ==
    FailsafeDone(c) \/ FailsafeTick(c) \/ FailsafeStop(c) \/ FailsafeSend(c)

Next ==
    \/ \E edge \in {"start", "stop"} : Detect(edge)
    \/ Dial \/ HangUp
    \/ \E c \in Conns : EventAges(c) \/ QueueFails(c) \/ WatcherStep(c) \/ FailsafeStep(c)

----------------------------------------------------------------------------
(* Properties. *)

Goroutine == [pc : {"unborn", "top", "backoff", "check", "receive", "wait", "stuck",
                    "send", "off"},
              event : [edge : {"none", "start", "stop"}, id : 0..MaxMessages]]

\* Every variable holds a value the code can put there.
TypeOK ==
    /\ queue \in Seq({"start", "stop"}) /\ live \in 0..MaxConns
    /\ st \in [Conns -> [active : BOOLEAN, eventID : 0..MaxMessages, old : BOOLEAN]]
    /\ watcher \in [Conns -> Goroutine] /\ failsafe \in [Conns -> Goroutine]

Event(edge, id) == [edge |-> edge, id |-> id]
Sent(c, event) == \E i \in 1..Len(sent[c]) : sent[c][i] = event

\* motion_mq.go:175, "duplicate starts and unmatched stops are suppressed": on each
\* connection no event is started or stopped twice, and none is stopped whose
\* start is not sent or being sent, although two goroutines send outside the mutex.
EventPaired ==
    \A c \in Conns : ~Done(c) => \A j \in 1..Len(sent[c]) :
        /\ \A i \in 1..(j - 1) : sent[c][i] # sent[c][j]
        /\ sent[c][j].edge = "stop" =>
            LET start == Event("start", sent[c][j].id)
            IN  Sent(c, start) \/ watcher[c].event = start

\* Again and again every motion event the controller has seen start on the live
\* connection has been stopped, also when the stop message went to the watcher of
\* an earlier connection: no event stays open for ever.
EventStopped ==
    []<>(live # 0 => \A id \in 0..MaxMessages :
            Sent(live, Event("start", id)) => Sent(live, Event("stop", id)))

\* The same comment, as the controller sees it: no stop comes before its start, or
\* the start that follows it is never stopped.
StopFollowsStart ==
    \A c \in Conns : \A j \in 1..Len(sent[c]) : sent[c][j].edge = "stop" =>
        \E i \in 1..(j - 1) : sent[c][i] = Event("start", sent[c][j].id)

\* motion_mq.go:116, the failsafe "forces a stop if no STOP arrives within
\* motionMaxEventDuration": it stops no event younger than that.
FailsafeStopsOldOnly ==
    [][\A c \in Conns :
            failsafe[c].pc = "stuck" /\ failsafe'[c].pc = "send" => st[c].old]_vars
==============================================================================
