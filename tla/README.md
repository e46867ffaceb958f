# yi-protect: a TLA+ verification project

yi-protect turns a Yi camera into a camera that UniFi Protect adopts. This
directory holds TLA+ models of its own control logic, TLC configurations that
check them on small instances, and theorems that TLAPS proves for every value of
the constants. `PROJECT.json` says, definition by definition, which lines of the
source each one stands for.

## The system

### Components, their state, and how they talk

| Part | Code | State it keeps | Operations |
|---|---|---|---|
| flv_bridge: connection manager | `flv_bridge/FlvPush.cpp` | per channel: generation, activeFd, host, streamName, wantConnected; a mutex per channel and one for dialling | CONNECT, DISCONNECT (FIFO), retry after a failed or lost connection, the push thread's life |
| flv_bridge: video queue | `FlvPush.cpp`, `main.cpp` | a bounded queue per channel, `dropUntilKey`, the gap detector's counter | enqueue, discontinuity, pop |
| flv_bridge: self-healing exit | `FlvPush.cpp` | a static clock per channel | poll of an empty queue, exit |
| flv_bridge: muxer | `FlvPush.cpp`, `hevc_flv.cpp`, `tsutil.h` | per connection: the anchor and the last stamps, the parameter sets and whether their header went out; per channel: the sets it keeps for the next connection, its codec | stamp and write an AAC, Opus or video tag; take over a parameter set; CODEC |
| flv_bridge: ring reader | `FshareReader.cpp` | read position in shared memory | read, resync |
| Go client: stream control | `goclient/main.go`, `vidcodec.go` | destination and codec per channel, microphone level, FIFO handle, codec file | ChangeVideoSettings, ChangeAudio..., reconnects |
| Go client: adoption and reset | `manage.go`, `main.go`, `discovery.go` | adopted and awaiting flags (memory and card), credentials, a channel of capacity 1 | adopt push over HTTPS, dial loop, ResetToDefaults |
| Go client: encoder settings | `mediad_ctl.go`, `main.go` | last known value per key, seed flag, cached availability | forward a delta, re-apply to a restarted daemon |
| Go client: motion events | `motion_mq.go` | current event, event counter | start, stop, failsafe, one watcher per connection |
| Go client: light sensor and IR | `lux.go`, `main.go` | mode, slider, resync flag, day or night | settings, 5 s poll |
| Go client: PTZ | `ptz.go` | preset slots, motor | moves, presets |
| Go client: snapshots | `main.go` | grab mutex, cached picture | snapshot requests |
| Go client: clock | `timesync.go` | offset | synchronise |
| Go client: identity | `main.go`, `discovery.go` | adopted flag, console id, controller host, certificate pair, device id: each in memory and in a file of its own | hello, paramAgreement, adopt push, deleteIdentity, start; discovery replies, status LED |
| Go client: settings page, SSH credential | `webui.go`, `ssh_credential.go` | pinned keys (in the encoder); the credential on the card and its live copy | pin, hand back; UpdateUsernamePassword, `ssh-accounts.sh` |
| Supervisor | `sd_root/yi-protect/script/watchdog.sh`, `init.sh` | lock file, pid file, heartbeat file, strike counters | supervision pass, CLI restart, guard, the ladder for a missing encoder |
| Others | downloader, talkback, cpld_ctl, mixer_set, mkpasswd, install scripts | - | tools and I/O |

The controller (UniFi Protect) speaks JSON over a websocket to the Go client. The
client tells the bridge by a FIFO (`CONNECT`, `DISCONNECT`, `CODEC`, `MUTE`)
where to push each channel, and tells the encoder (mediad) over a Unix socket which
codec, bitrate and picture settings to use. The encoder writes frames to shared
memory; the bridge reads them there, queues them per channel and pushes FLV over
TCP. The supervisor restarts whichever of these is missing, under a lock file.

### What is hard

- **Threads and file descriptors** (bridge): retry threads race commands and each
  other, push threads outlive the connection they were started for, and a closed
  descriptor's number comes back as another connection's.
- **Loss** (bridge): dropping a frame is fine, queueing one that predicts from it is
  not; three threads and a connection that comes and goes share the queue.
- **State that outlives a peer** (client): the client does not repeat what it believes
  the bridge or the encoder knows, so every restart of either must be noticed.
- **Checks outside the lock** (client): pushes, settings and re-applications run in
  goroutines of their own and send outside the mutex that protects what they record.
- **Crashes and restarts**: power loss, the supervisor's kills, reboots that fail.
- **Shell** (supervisor): every command is a step; files are read, judged and
  removed by different commands.
- **One fact in many places** (client): what the camera is adopted by is a flag, an id, a host
  and a key pair, in memory, in files, and in what discovery and the LED show.
- **A ring without a lock** (bridge): the encoder's fields change one by one while they are read,
  and nothing stops it from overwriting what is being copied.

`PROJECT.json` "hazards" lists each of these at its line with the properties that
would show it going wrong; those without a property say why.

## The modules

| Module | Models | Instance |
|---|---|---|
| `StreamSlot` | abstract: what the connection manager promises of a channel | `FlvConn` implements it |
| `FlvConn` | the bridge's connection manager | `MCFlvConn` adds the symmetry |
| `FlvConnProofs` | theorems about `FlvConn` | - |
| `PushQueue` | one channel's video queue between ring reader, connection manager and push threads | `MCPushQueue` adds the symmetry |
| `PushQueueProofs` | theorems about `PushQueue` | - |
| `Starvation` | the bridge's 20 s self-healing exit | `Device` extends it |
| `RingReader` | the ring in shared memory, its writer and its reader | `Device` |
| `Stamps` | the time stamps of a connection's tags, and the two audio queues | `Device` |
| `ParameterSets` | parameter sets, their cache, sequence headers and the channel's codec | `Device` |
| `Motion` | motion events of the client | `Device` |
| `Lux` | night vision with the stock encoder: settings handler and light sensor | `Device` |
| `Controls` | from Protect's fields and the settings page to what mediad shows | `Device` |
| `Ptz` | the motor and its presets | `Device` |
| `Snapshot` | snapshot requests | `Device` |
| `TimeSync` | the camera's clock | `Device` |
| `Device` | the ten above, one at a time | directly |
| `DeviceProofs` | theorems about eight of them as parts of `Device` | - |
| `Adoption` | adopt push, dial loop, ResetToDefaults | directly |
| `AdoptionProofs` | theorem about `Adoption` | - |
| `MediadDelta` | settings on their way to the encoder, and their re-application | directly |
| `MediadProofs` | theorems about `MediadDelta` | - |
| `StreamControl` | client, bridge processes and supervisor around the stream settings | directly |
| `StreamProofs` | theorems about `StreamControl` | - |
| `LeastNumbers` | the lemma both rest on: every set of naturals that is not empty has a least number | - |
| `WatchLock` | `lock_take` and `lock_drop` | `Upkeep` extends it |
| `Supervisor` | the supervisor's singleton, its heartbeat and init.sh's guard | `Upkeep` |
| `Ladder` | strikes, restarts of mediad and the reboot | `Upkeep` |
| `Identity` | adopted flag, console id, host and certificate through messages, failures and power cuts | `Upkeep` |
| `Credentials` | the SSH credential on the card and its live copy | `Upkeep` |
| `Upkeep` | the five above, one at a time | directly |
| `UpkeepProofs` | theorems about `Upkeep`'s types and about `WatchLock`, `Supervisor`, `Identity` and `Credentials` as its parts | - |

Every module has a type invariant, `TypeOK`. The runs of the modules that hold most of the state check it (`FlvConn`,
`PushQueue`, `Device` and `Upkeep` for all their parts); for `Adoption`, `Mediad` and `Stream` add it to the configuration's INVARIANTS.

Operators whose name starts with `Mut` are wrong on purpose: each is one plausible
slip in the definition below it, and the property named with it in `PROJECT.json`
("mutants") fails as soon as it takes that definition's place.

### `FlvConn`: how it corresponds to the code

A `ChannelState` is spread over `generation`, `activeFd`, `host`, `streamName` and
`wanted`. `setup[t]` is the program counter and the locals of a thread that may run
`doConnect`: the control thread `Ctl` or a retry thread. `push[p]` is the same for a
push thread, `peer` and `wrote` are the kernel's view of each descriptor.

| Action | Code |
|---|---|
| `CtlConnect`, `CtlDisconnect` | `ctlThreadMain` reads a command; `doDisconnect` |
| `RetryWake` | `retryThreadMain` after its sleep: the check of generation and `wantConnected`; the mutex is released before `doConnect` |
| `ConnectBegin`, `DialSucceeds`, `DialFails`, `ConnectRearm`, `ConnectInstall`, `ConnectSpawn` | `doConnect`: target recorded, `connect(2)`, retry scheduled or socket installed and push thread created |
| `PushStart`, `PushHeader`, `PushCheck`, `PushBody` | `pushThreadMain`: read `activeFd`, write the FLV header, then its loop |
| `PushEnd`, `PushRedial` | its exit section and the retry it schedules |
| `PeerLeaves` | the far end closes, or stops reading |

A critical section of `stateMutex` is one step, because every access to what it
protects takes it, except for the one read of `activeFd` at the start of a push thread:
that read is a step of its own, `PushStart`. A descriptor that is closed may be handed out again by
the next dial: this is what makes a thread that holds an old number dangerous.

`StreamSlot` is the same without threads, mutexes, generations and retries: per channel at most one
connection, made only while the channel is wanted from a socket nobody else has (`Dial`, `Establish`), with one
writer (`Serve`) that alone gives it up (`Lose`), or torn down by a command (`Unwant`). `FlvConn!Implements`
says that `FlvConn` is a refinement of it: `dialled` is the socket of the thread that holds
`g_connectMutex`, `link` is `activeFd`, `session` is `generation`, and a channel's `writer` is "due" from the
installation of the socket until its push thread runs.

### `PushQueue`

`Emit`, `DiscontinuityCheck`, `Discontinuity`, `EnqueueCheck`, `Enqueue` are the steps
of `emitFrame` for one frame: the gap detector, then `flvPushDiscontinuity` and
`flvPushEnqueue`, each of which looks at the connection *before* it takes the queue's mutex.
`Replace`, `Install` and `Disconnect` are what `FlvConn` does to a channel, reduced to what the
queue sees: doConnect first closes the connection it replaces and then installs the new one, and between the two
the reader, which looks without `stateMutex`, finds the channel inactive. `PushCheck`, `Pop`, `PeerGone` and `PushEnd` are the push threads. A frame carries its stream
counter and whether it is a keyframe, nothing of its picture, and `span`, how often the reader has found the channel inactive.

### `Starvation`

`PollFrame` and `PollEmpty` are the two outcomes of a poll of the queue, `Restart` what
the supervisor does after the exit. A tick stands for 10 s; a connected channel is polled in every tick.

### `Device` and its parts

`Starvation`, `RingReader`, `Stamps`, `ParameterSets`, `Motion`, `Lux`, `Controls`, `Ptz`, `Snapshot` and `TimeSync` share no
variable that one writes and another reads, so `Device` chooses one of them at the start and leaves the others at rest: its state space is the sum of
theirs, not the product, and one run answers for all.

- `Motion`: `watcher[c]` is `startMotionWatcher` of connection `c`, `failsafe[c]` its
  `runMotionFailsafe`, `st[c]` their shared `motionState`. `Receive` ends with the
  critical section of `handleMotionStart` or `handleMotionStop`; what is sent after the mutex
  is released is a step of its own (`WatcherSend`, `FailsafeSend`), and so is the stop that follows the
  failsafe's look (`FailsafeTick`, `FailsafeStop`).
- `Lux`: `Manual`, `Custom` and `Auto` are the messages `handleIspSettings` tells apart,
  `HandlerRuns` one `cpld_ctl` of it; `PollReads`, `PollClears`, `PollSwitches` the poller, which
  works with the mode it read under the mutex. The commands are assumed to succeed.
- `Ptz`: `RelativeGoes` and `RelativeStops` are the goroutine of a relative move, `preset` what the
  firmware holds, `conf` the client's file. `Rewritten` drops the coordinates of every
  slot but the one it writes, as `ptzPresetSlots` does. Here too `ipc_cmd` succeeds.
- `Snapshot`: `BeginGrab` to `Upload` are `handleGetRequest`; `Tick` lets time pass only where the
  code waits.
- `RingReader`: `Begin`, `Publish` and `Deposit` are the encoder (external: a header, then the three fields one
  after the other, a payload that may follow them), `Attach`, `ReadStart`, `ReadLen`, `Compare`, `Walk`, `Copy` and `Resync`
  are `run()` between two accesses of shared memory. A cell read as a header that is none says anything
  (`Headers`). `MovePtr` and `ProducerEnd` differ at the ring's end, as in the code. `Mishaps` says what may happen beside: the
  writer laps the reader, a frame ends exactly at the end, the reader attaches between two fields.
- `Stamps`: `PushAac`, `PushOpus` and `PushVideo` are the three parts of the push thread's loop, `Anchored` and `Mapped` are
  `captureElapsed`, `OpusMs` and `MonotonicMs` the guards that the two audio tracks share. A step of time is 20 ms, the Opus
  grid; `Block` is a `writeAll` that waits. `sent` is the last stamp of each track and how far the last tag was ahead of its time.
- `ParameterSets`: a ring frame is a list of NAL units with the codec and geometry of the encoder that made it; `Mux` treats one of
  them as the channel's codec says at that moment (`KindOf`: which NAL of one codec passes for a set of the other), `ConnStart`
  is the part of the initial write that sends the cached sets. `keyed` is whose keyframe was muxed last as a whole; `HeaderInForce` then
  compares the connection's header with what that encoder's sets make.
- `Controls`: `ControlMap` and the operators above it are the mapping of fields to keys,
  `Settings` is one object through `mediadDropLocked`, the delta and `mediadSet`, `Restart` a daemon that starts with its
  pins and is told the known values. `Asks` is what an object means by what its fields are called, `Shown` what the daemon
  does by what its keys are called: `PictureFollows` compares the two, without the mapping.
- `TimeSync`: `error` is how wrong the camera's clock is, a sample is the error less the message's
  delay. Two late messages that are handled in a row were sent half a minute apart, so their delays
  differ: the property rests on that, and the guard of `HandleTimeSync` says so.

### `Adoption`

`main` is the dial loop (`MainTop` ... `BackoffOver`), `reset` is `performReset`
(`ResetToDefaults`, `DeleteIdentity`, `EnterAwaiting`, `PersistAwaiting`,
`ClearToken`, `Reboot`), `handler[w]` an HTTP handler of the manage API in
`deliverManagePush` (`Accept`, `LeaveAwaiting`, `RemoveAwaiting`, `Drain`, `Send`).
`disk` survives `Crash` and `Reboot`, everything else starts anew in `Boot`.

### `MediadDelta`

`worker[w]` is a goroutine that forwards one settings object
(`ApplyGate` ... `ApplyRecord`) or an ISP reset (`ResetGate` ... `ResetRearm`), `reapply[r]` a
`mediadReapplyKnown`, `watch` the watcher that compares the daemon's pid. Commands to the daemon
go out under no lock; only the delta and the cached availability have one. A message of several parts (`Parts`)
starts a goroutine for each, as main.go:1252 and 1383 do.

A goroutine sets a control and records it afterwards, in two steps that another one may come between. `doubt` is the
controls for which that has happened (a second goroutine, a reset or a re-application had the control in hand when one set it) or whose set
timed out, until a goroutine sets the control alone again; `seeded` those whose last value was recorded unsent on
purpose. `RecordedIsApplied` speaks of all others, at the moments when nothing is on its way. What the comments promise, without
`doubt`, is `EveryRecordedApplied` (table of disagreements).

### `StreamControl`

`Deliver` is a settings message, the `Handler` steps are `handleVideoSettings` channel by channel
(`NextDisconnect`, `NextTarget`, `StartVideoStream`, `ReassertMute`, `SendChannelCodec`,
`StoreStreamCodecs`, `TellEncoder`), `wd` the supervisor's pass (`EnsureBridge`,
`EnsureClient`, `StopClient`, `StartClient`) or the CLI under the same lock (`CliStopBridge`, `CliStartBridge`), and
`InitStarts` what `init.sh` starts at boot. `bridge` lists the bridge
processes in the order of their pids; `path` is the one whose FIFO has the name, `client.handle`
the one whose FIFO the client has open.

### `Upkeep` and its parts

Like `Device`: `WatchLock`, `Supervisor`, `Ladder`, `Identity` and `Credentials` share no state.

- `WatchLock`: every command of the shell is a step: `Create` (`set -C; >file` opens it), `Write` (the pid goes in), `Exists`,
  `Read` (`cat`), `Judge`, `Remove`, `GiveUp`, `Check` and `Drop`; `ClearCheck` and `Clear` are the `cat` and `rm` by which a supervisor that
  starts drops the lock of the stalled one it has killed. A killed shell leaves the file as it is. `misled` remembers that
  a shell has removed another file than the one it read, or one that it read empty and whose creator had yet to write its pid.
- `Supervisor`: `Look`, `Kill`, `Unlink`, `Create`, `Write`, `Judge`, `JudgeAgain`, `Override`, `Beat` are watchdog.sh from its first
  line to its loop, `GuardStarts` is init.sh's `wd_guard`, `HandStarts` the boot or a person. A tick is 50 s, longer than a start;
  `STALE` is three of them and the guard's limit four. A shell may stall and later go on.
- `Ladder`: a pass is `Found`, `Strike`, `RestartMediad` or `Reboot`. `ran` is how long the present run of the
  encoder has really lasted, `since` what the script believes.
- `Identity`: each goroutine has a list of operations to do (`todo`): on a variable, or on a file, which `os.WriteFile` first
  empties and then fills. Handlers put lists there (`SetAdopted`, `SetUUID`, `DeleteIdentity`); the power may go, or an
  operation fail, between any two. `meant` is what the controllers have said, `spoiled` what a fault has put in doubt and nothing has
  rewritten since.
- `Credentials`: `OpenTmp` ... `Return` are the handler with `storeSSHCredential`, `Clear` and `Copy` the part of
  `ssh-accounts.sh` that concerns the live file.

### What composes with what

`PushQueue` and `Starvation` refine the inside of a channel that `FlvConn` connects and
disconnects; `StreamControl` treats the bridge that `FlvConn` models as "has this target" and the encoder
that `MediadDelta` models as "makes this codec"; `WatchLock` justifies that a supervision pass and the CLI in
`StreamControl` do not overlap, and `Supervisor` that there is one supervisor to make them.
`RingReader` hands `PushQueue` its frames. `Controls` is what `MediadDelta` sends, one object at a time with a daemon that
answers; `Identity` is what `Adoption` deletes and sets, with the power going in between. No module restates another's steps beyond what it sees of them.

## What each run checks

| Run | What could go wrong | Bounds |
|---|---|---|
| `FlvConn` | leaked or shared descriptor, two threads or none on a connection, a wanted channel nobody tends, a step that is none of `StreamSlot`'s | 2 channels, 3 descriptors, 3 commands, 1 failed dial, 1 lost peer; 135k states |
| `FlvConnLive` | the retry chain dies out; a dead peer is kept | 1 channel, 2 commands, 1 failed dial, 2 lost peers; 28k |
| `PushQueue` | a frame that predicts from a lost one is sent | queue of 2, 6 frames, 1 lost at a time, 2 connections; 4.3M |
| `Device` | a channel is connected and silent and nothing restarts it; a motion event without end; hardware and poller disagree; the motor runs away, the preset file names the wrong slot; a snapshot waits without bound; an old message steps a right clock; the picture is not what was asked for; a frame is torn, lost, repeated or out of order; a stamp steps back or runs ahead; a picture goes out under another stream's header | 2 channels, limit of 2 ticks, 5 ticks; 2 connections, 3 motion messages, 1 failed open; 4 settings; 2 slots, 2 moves, 5 commands; 2 requests; 6 samples, 1 drift; 3 settings objects, 1 reconnect, 1 restart, 1 pin; a ring of 7 cells, 4 frames of 1 or 2 cells beside the header, batches of 3, 1 resync; 11 steps of 20 ms, queues of 2, 4 and 2, 1 blocked write, 1 connection; 4 frames, 2 geometries of either codec, 1 restart of the encoder, 2 CODEC commands, 2 connections; 542k states in all |
| `Adoption` | instant re-adoption after a reset, a handler that hangs, a push that leads nowhere | 2 consoles, 1 handler, 2 pushes, 2 resets, 1 crash, 1 failed reboot; 99k |
| `Mediad` | the client believes the encoder holds a value it does not hold | 2 controls, 2 values, 2 settings goroutines and a re-applier that run at once and outlive their connection, 2 messages, 1 ISP reset, 2 connections, 1 restart of the daemon, 1 set that times out; 2.3M |
| `MediadLive` | a restarted encoder stays at its defaults; a connection's first object is applied instead of recorded | the same controls, 1 settings goroutine and 2 re-appliers, 2 messages, 2 connections, 1 restart, the daemon down, booting or up at first; 256k |
| `Stream` | a restarted bridge gets no target, or labels the feed with the wrong codec | 1 channel, either encoder, 2 restarts of the bridge, 1 of the client, 1 of the CLI's; 834k |
| `StreamFaults` | a muted camera is heard, or an unmuted one is not | supervisor killed, slow boot, audio messages; 1.7M |
| `StreamLive` | what the controller wants never arrives | 1 channel, 2 restarts, 2 changes; 128k |
| `Upkeep` | two shells start and stop the services at once, or nobody can; two supervisors, or none; an encoder that stays missing; memory, files and controllers disagree about the adoption; a torn or stale SSH credential | 2 shells that take the lock twice each, 1 kill, 1 failed write; 3 supervisor shells, 2 starts by hand, 2 deaths or stalls; 2 strikes, 2 tries, a long run of 3 passes, 1 new supervisor, 1 revival; 2 consoles, 1 host, 3 messages, 1 power cut, 1 failed operation; 2 credentials, 3 updates, 2 deaths, 2 power cuts; 554k states in all |
| `FlvConnUndone` | (fails) a DISCONNECT is undone by a retry | 1 channel |

Why these bounds are enough to be interesting: three commands are the shortest
sequence that replaces a connection, loses one and still has one to come while a
retry sleeps; with three descriptors for two channels numbers are reused; six
frames and a queue of two fill it, lose frames both ways and reconnect; two pushes and two
resets let each overtake the other, with a crash in between; two
restarts of the bridge let the second hit a client that still remembers the first; four frames
in seven cells go round the ring and fill a batch; three shells are a supervisor that stalls, the
one that replaces it and one that is started at the wrong moment; three passes for ten minutes are
enough to tell a run that is seen up at a pass from one that lasts.

There are two kinds of bounds. A CONSTANT that starts with `Max` limits the environment, or how long a run is: what commands,
messages, losses, crashes and failures there are. A CONSTANT that is a set limits what there is of something, and a set of threads,
goroutines or shells how many of them work at once: a step that starts one waits until one of the set is free, which the code never does.
This does restrict the code's own concurrency, in these places:

- `Workers` in `MediadLive` has one member and each message one part. The code starts a goroutine for each message and two for a
  ChangeVideoSettings (main.go:1252 and 1383); here the next message waits until the goroutine of the one before is done,
  and a connection until all are (`Outlives` is FALSE). `FirstObjectRecorded` does not hold with two (table of disagreements). `Mediad` has two
  goroutines that outlive their connection, so that they race with each other, with a reset, a re-application and a reconnect; its complete messages have one part
  and its partial ones another control, so that messages overlap within one part only when both are complete or both partial. `Reappliers` are one there and two in `MediadLive`.
- `Handlers` in `Adoption` has one member: a push waits for the handler of the one before. What two do is in the table.
- `PushThreads`, `RetryThreads` and `Fds` in `FlvConn`: three push threads and descriptors for two channels, two retries. A superseded
  thread keeps its slot until it has ended, so a fourth thread would have to wait. In `PushQueue` there are as many push threads as connections.
- `Procs` and `Shells` in `Upkeep`: two shells contend for the lock, three are supervisors; `Requests` in `Device`: two snapshot requests.

The theorems are for any such sets.

`Deadlock` is checked wherever the state at rest is described (`FlvConn`, `PushQueue`,
`Adoption`). `Device`, `Mediad*`, `Stream*` and `Upkeep` say `CHECK_DEADLOCK FALSE`:
there the system really comes to rest once the messages and restarts the bounds allow are
used up.

Some conditions are part of the properties, or of the bounds, because the code does not do without
them: `MutualExclusion` holds until a shell removes another lock
file than it has read, or one it read empty before its creator wrote to it (`misled`); `RecordedIsApplied` but for controls that two goroutines had
in hand at once or whose set timed out (`doubt`), until one of them is set alone; `PushLeadsToDial` until `/sbin/reboot` has failed; `OneSupervisor` until two shells start at once over an
old pid file (`raced`); `IdentityConsistent` but for a file that a fault tore and nothing has
rewritten since (`spoiled`), and for a message that overlaps a deletion (`MaxOverlaps` is 0); `PictureFollows` but for values that were recorded
unsent on purpose (`unsent`); `FramesWholeInOrder` until the writer laps the reader (`Mishaps` is empty); `LeadBounded` for a connection that finds its queues empty (`MaxStampConns` is 1);
`HeaderInForce` until a header was made of the other codec's sets (`misread`). What
happens beyond is in the table of disagreements. `Settled` and `Quiet` limit a property to
the moments when nothing is on its way, which is when a wrong value would stay.

### Fairness

| Specification | Assumed | Why |
|---|---|---|
| `FlvConn!FairSpec` | WF of each thread's own steps | detached threads, scheduled by the kernel; sleeps and socket time-outs end |
| `Adoption!FairSpec` | WF of `main`, reset and handlers; SF of `PollPush`, `DialSucceeds` | goroutines run; the loop polls for ever; a console that is up answers a dial some time |
| `MediadDelta!FairSpec` | WF of goroutines, watcher, cache expiry, the daemon's start | time-outs of 2 s on the socket; a 30 s cache; init restarts mediad |
| `StreamControl!FairSpec` | WF of handler, supervisor, boot, the bridge's start; SF of `Resend` | the controller repeats its settings every ~10 s, between whatever else it sends |
| `Device!FairDeviceSpec` | WF of the motion goroutines, and that five minutes pass | goroutines run; a receive times out after 5 s |
| `Upkeep!FairUpkeepSpec` | WF of each live shell's steps (lock and supervisor), of the guard, of time, of the ladder's pass | shells run; a killed or stalled one does not, and is not assumed to; init.sh's guard looks every 30 s; the supervisor that `Supervised` is about makes the passes that `LadderEnds` rests on |

No fairness is assumed of what the environment may leave undone: commands, lost peers,
crashes, new pushes, failing writes, stalled shells that resume.

### Known disagreements between code and comments

`FlvConnUndone` is a run of the project. The other configurations of this table are kept beside
it with the same purpose: `tlc -config X.cfg M` prints the sequence of steps. Where the table says
`Device`, `Upkeep`, `Adoption`, `Mediad` or `MediadLive` and a property, take that configuration, replace its properties by the one
named, which is an invariant unless it says otherwise, and its bounds by those in brackets.

| Configuration (module) | Comment | What the code does |
|---|---|---|
| `FlvConnUndone` (`MCFlvConn`) | FlvPush.cpp:1178 says "an explicit DISCONNECT must not be undone by retry" | retryThreadMain checks wantConnected under stateMutex, releases it (598) and only then calls doConnect (602), which sets wantConnected again; a DISCONNECT in between is undone. At FlvPush.cpp:602. |
| `FlvConnNewer` (`MCFlvConn`) | FlvPush.cpp:574 says "a newer CONNECT (generation) or a DISCONNECT (wantConnected) always wins over the retry" | A CONNECT whose dial fails leaves the generation as it was, so an older retry for another host passes its check and re-dials the old destination over the new. At FlvPush.cpp:1138. |
| `FlvConnMixed` (`MCFlvConn`) | FlvPush.cpp:1128 says a later peer-gone "can retry the exact same destination" | The exit section re-dials with the channel's present host and the stream name the thread captured when it started, a pair no CONNECT ever named. At FlvPush.cpp:1115. |
| `FlvConnStream` (`MCFlvConn`) | FlvPush.cpp:646 says "each reconnect is a new stream" | A new push thread reads activeFd without the mutex after both mutexes were released; if another CONNECT comes first it writes its FLV header and tags into the next connection's socket. At FlvPush.cpp:627. |
| `PushQueueLoss` (`MCPushQueue`) | FlvPush.h:41 says "Upstream frames were lost: flush the channel's backlog and refuse non-key frames until the next keyframe" | flvPushDiscontinuity returns early on a channel that is not active, so a loss just before a CONNECT does not latch dropUntilKey and the P frames after it are queued. At FlvPush.cpp:510. |
| `Device`: `ExitOnlyWhenStarved` (temporal; MaxTime = 7) | FlvPush.cpp:915 says "a connected channel with no video for 20 s means the ring reader or the peer is wedged" | lastFrameSec is static and survives connections: a channel that reconnects after more than 20 s without one exits the process at its first empty poll. At FlvPush.cpp:920. |
| `Device`: `FailsafeStopsOldOnly` (temporal) | motion_mq.go:116 says runMotionFailsafe "forces a stop if no STOP arrives within motionMaxEventDuration" | The failsafe finds the event stuck, releases the mutex and calls handleMotionStop, which stops whatever event is active by then: if the stop and a new start came in between, one that is seconds old. At motion_mq.go:131. |
| `Device`: `StopFollowsStart` | motion_mq.go:175 says "Duplicate starts and unmatched stops are suppressed" | Start and stop are sent after the mutex is released: in the same race the failsafe's stop of the new event may reach the controller before its start, which then is never stopped. At motion_mq.go:211. |
| `Device`: `ManualPrevails` (temporal) | main.go:1045 says "Manual takes precedence over any lux-threshold state -- disable the poller so it doesn't fight this explicit setting" | A poller that has read the mode goes on with its commands after the manual ones. At lux.go:172. |
| `Device`: `SlotsMirrored` (Indexed = TRUE) | ptz.go:149 says "ipc_cmd -P can't report which slot it picked, so we mirror it" | A set that names an occupied slot is recorded there, while the firmware stores it in the lowest free slot (the log line at 231 calls it a first-available prediction). At ptz.go:219. |
| `Device`: `OthersKept` (temporal) | ptz.go:189 says the file is rewritten "with one slot set/cleared, keeping our bookkeeping in sync with the stock script's file format" | The slots read back hold names only, so every rewrite drops the coordinates of all other slots. At ptz.go:169. |
| `Device`: `AnsweredBeforeDeadline` | main.go:1586 says "headroom below the controller's granted deadline (60s observed) so we always log the outcome before it gives up" | The deadline of 55 s starts after the grab mutex has been taken: a request behind another waits up to 110 s. At main.go:1517. |
| `Device`: `LedFollows` | mediad_ctl.go:651 says of ir_led 0 "filter only, no LED" | nightVisionControls sends ir_led 0 for such an object and nothing for any other, so the LED stays off when a later object wants it on again. At mediad_ctl.go:650. |
| `Device`: `OverlayFollows` | mediad_ctl.go:583 says "enableOverlay is the top-level master switch" | osdControlMap takes it like the others from the per-stream object it found first: a master switch that stands beside per-stream objects never reaches the encoder. At mediad_ctl.go:585. |
| `Device`: `UnpinHandsBack` (temporal) | webui.go:224 says "Protect now controls this setting" | Unpinning leaves the delta, and a key that mediad refused while it was pinned stays locked for the life of the process: what Protect sends next counts as known, or is dropped, and the page's value stays. In mediadDropLocked and filter, mediad_ctl.go. |
| `Device`: `SyncKept` (Mishaps = {"exact"}) | FshareReader.cpp:228 says "The writer lapped us (or a header is garbage)" | movePtr wraps a pointer only beyond the end (42), the producer's end wraps at it (157): a walk that lands exactly on the end never meets `end`, and frames are dropped though nobody lapped anybody. At FshareReader.cpp:42. |
| `Device`: `SeededAtBoundary` (temporal; Mishaps = {"seed"}) | FshareReader.cpp:149 says "Seed the cursor at the current producer end" | start and len are read apart and, unlike in the loop, not compared with end: a seed between two of the encoder's writes lies inside a frame. At FshareReader.cpp:154. |
| `Device`: `FramesWholeInOrder` (Mishaps = {"lap"}) | FshareReader.cpp:277 says "so the consumer never sees a torn write" | The copy is not checked against the writer: a frame overwritten while it is copied is emitted. At FshareReader.cpp:280. |
| `Device`: `NeverAhead` | FlvPush.cpp:656 says stamps are "Never ahead of write time" | Opus packets are stamped at least 20 ms apart, and the AAC tags share their guard: a burst that is written at once runs ahead of the time, takes the AAC stamps with it, and after a blocked write they stay ahead for the rest of the connection. At FlvPush.cpp:891. |
| `Device`: `LeadBounded` (MaxStampConns = 2, MaxBlocks = 0, MaxStampTime = 14) | FlvPush.cpp:646 says "Tag timestamps and trailer elapsed are relative to this connection (each reconnect is a new stream)" | Nothing empties the queues between connections: an AAC packet left over from the one before sets the anchor, and fresh Opus packets, which are not held to the time, are stamped ahead by as long as the channel was down. At FlvPush.cpp:870. |
| `Device`: `HeaderResent` | FlvPush.cpp:952 says a changed parameter set "re-sends the sequence header; else the controller keeps decoding with the old one" | The header is sent anew when a set changes, not when the codec does: a CODEC command and one back, with NAL units taken for sets of the other codec in between, may leave a header in force that was made of them. At FlvPush.cpp:950. |
| `Device`: `CachedHeaderFits` (MaxCodecs = 0) | FlvPush.cpp:726 says that parameter sets "cached from a prior connection" go out first | If the encoder has been restarted with other geometry in between, the first pictures go out under the old header until its keyframe. At FlvPush.cpp:736. |
| `Adoption`: `NewestPushWins` (temporal; Handlers = {w1, w2}) | manage.go:33 says "only the most recent push matters" | deliverManagePush of two requests interleave: the older drains and sends after the newer, whose push is dropped or replaced. At manage.go:196. |
| `Adoption`: `SendFindsRoom` (Handlers = {w1, w2}) | manage.go:198 says "drop a stale buffered one, don't block" | Two handlers drain before either sends; the second send waits until the dial loop comes round, which a healthy connection never lets it. At manage.go:203. |
| `Adoption`: `DialUsesNewestPush` (temporal) | manage.go:194 says deliverManagePush "hands a freshly-received controller push to main()'s dial loop and immediately clears awaitingManage -- real hardware dials right away" | awaitingManage is cleared before the push is in the channel, so the dial loop may leave the awaiting state, find no push and dial with the old credentials. At manage.go:197. |
| `Adoption`: `EarlyPushLeadsToDial` (temporal; MaxResets = 1, MaxStuck = 0) | manage.go:194 says deliverManagePush hands the push to the dial loop "and immediately clears awaitingManage -- real hardware dials right away" | The manage server is started (2385) before main() sets awaitingManage (2400, 2408). A push handled in between clears the flag first; main() sets it again, the poll applies the push, and the camera goes on waiting for another. At main.go:2400. |
| `Adoption`: `GateHolds` (OffSubnet = {console1}) | main.go:515 says performReset "switches to awaiting-manage (manage.go) and reboots -- the gate that stops instant re-adoption by MAC" | On a start that finds the camera not adopted and the controller off-subnet the await file is ignored, so the reboot after ResetToDefaults dials at once. At main.go:2398. |
| `Adoption`: `PushAfterResetDials` (temporal; MaxResets = 1, MaxRestarts = 0) | main.go:530 logs "falling back to reconnect only" and main.go:524 says "If the reboot fails this process keeps running" | performReset has deleted the certificate; if /sbin/reboot fails the process goes on, ensureCertKey does not run again and run() fails to load the pair on every dial. At main.go:529. |
| `MediadLive`: `FirstObjectRecorded` (temporal; Parts = {{1}, {2}}, Workers = {w1, w2}) | main.go:1904 says "the controller's first settings object is full and must be recorded, not re-applied (a burst risk)" | One ChangeVideoSettings starts two goroutines with complete=true (1252 and 1383); the first ends the seed, so the second's values are sent. At main.go:1383. |
| `Mediad`: `EveryRecordedApplied` (also with MaxTimeouts = 0) | mediad_ctl.go:388 says "record notes a successfully applied value" | The set goes out under no lock and is recorded afterwards: two goroutines can send in one order and record in the other, and the wrong value is not corrected by later resends because it counts as unchanged. At mediad_ctl.go:504. |
| `MediadLive`: `KnownRestored` (temporal; MaxTimeouts = 1) | mediad_ctl.go:297 says mediadReapplyKnown "re-sends last-known values to a daemon at its defaults (Protect won't)" | A set that times out in mediadReapplyKnown is logged and dropped; the delta still counts the value as known, so nothing sends it again. At mediad_ctl.go:311. |
| `StreamCodec` (`StreamControl`) | main.go:1214 says the codec is "pushed to the bridge/encoder so the feed matches" | A stream object with a type and no avSerializer goes on to the next key before sendChannelCodec (1359), while the encoder is told the new codec (1383). At main.go:1271. |
| `StreamShared` (`StreamControl`) | main.go:1214 says the codec is "pushed to the bridge/encoder so the feed matches" | video2 and video3 share the low encoder: if one asks for h265 and the other for h264 the encoder makes h265 and the bridge labels one of them h264. At main.go:1380. |
| `StreamSeed` (`StreamControl`) | main.go:1214 says the codec is "pushed to the bridge/encoder so the feed matches" | A codec that changes in the first message of a connection is sent to the bridge, but for mediad it may fall into the seed and is only recorded, never sent. At main.go:1383. |
| `StreamWdDies` (`StreamControl`) | watchdog.sh:222 says "Bridge came back but the client kept running: it will not re-send CONNECT, so bounce it to re-drive the fresh bridge" | ensure_stack remembers in a shell variable that it started the bridge; a supervisor killed before line 225 leaves a client that never sends CONNECT to the new bridge. At watchdog.sh:219. |
| `StreamOrphan` (`StreamControl`) | main.go:1704 says "On false the caller forgets dest so the controller's ~10 s re-send retries" | If the supervisor that wd_guard started ran first, init.sh:373 starts a second bridge, which unlinks the FIFO of the first (FlvPush.cpp:1200); the next pass keeps the lower pid, whose FIFO has no path any more, and every CONNECT fails. At watchdog.sh:210. |
| `StreamUnmute` (`StreamControl`) | main.go:1182 says "absent keeps last" | currentMicLevel is 100 in a new process and nothing restores it, so the first CONNECT of a restarted client writes MUTE off to a muted bridge if its message has no audio object. At main.go:1717. |
| `StreamTorn` (`StreamControl`) | vidcodec.go:4 says "a restarted client starts from this state instead of h264, so its first (partial) ChangeVideoSettings neither advertises h264 nor tells mediad to drop a channel that is on h265" | os.WriteFile truncates the codec file before it writes: a client killed in between starts from h264 and its next message tells the encoder to drop H.265. At vidcodec.go:55. |
| `Upkeep`: `Serialised` (Procs = {p1, p2, p3}, MaxTakes = 1, MaxFull = 0) | watchdog.sh:115 says the lock "serialises every start/stop (loop and CLI)" | Between reading a dead holder's pid (135, 274) and rm (143, 274) another waiter or starter may have removed the file and a third created its own, which rm then removes: two shells hold the lock. At watchdog.sh:143 and 274. |
| `Upkeep`: `Serialised` (MaxKills = 0, MaxFull = 0) | watchdog.sh:115 says the lock "serialises every start/stop (loop and CLI)" | cat of an absent file also gives an empty pid: a waiter with _t at 3 or more that reads between a drop and the next creation removes the new holder's lock, without any crash. At watchdog.sh:140. |
| `Upkeep`: `OneStarterWins` | watchdog.sh:288 gives "a simultaneous starter" time to be seen "before overriding it" | Of two starters over an old pid file both find it stale; the second unlinks or overrides what the first has just written, and both go into their loops. At watchdog.sh:295. |
| `Upkeep`: `ClearedByLongRun` (temporal) | watchdog.sh:320 says "Only a run that lasted 10 min clears the ladder" | MEDIAD_ALIVE_SINCE goes back to 0 only at a pass that misses mediad: two short runs with the gap between two passes count as one long one. At watchdog.sh:319. |
| `Upkeep`: `NeverOwnConsole` | main.go:129 says the id is persisted "so a restart while adopted doesn't look adopted to another console" | Flag and id are written to files of their own, one of which may fail or come too late: a restart with the flag and without the id announces the camera's own device id as its console's. At discovery.go:30 and main.go:134. |
| `Upkeep`: `ReplyWhole` (temporal) | discovery.go:158 says the console's id is "present only once adopted" | The flag is read for 0x17 and again for 0x26: one reply may say adoptable and name a console. At discovery.go:159. |
| `Upkeep`: `PairLoads` | main.go:493 says a pair is generated "if either file is missing" | os.Stat is content with an empty file, which a power cut during the first start leaves: the pair is never made anew and every dial fails to load it. At main.go:496. |
| `Upkeep`: `ControllerOutranks` (Hosts = {h1, h2}) | main.go:2455 says "A human-set yi-protect.cfg CONTROLLER still outranks it" | applyManagePush sets cfg.Host all the same: until the next start the push outranks the setting. At main.go:2453. |
| `Upkeep`: `LedAsAsked` | main.go:1085 says ledFaceEnabled drives the status LED | The blinker of a camera that is not adopted yet sets it again, and switches it on for good when it is. At main.go:1021. |
| `Upkeep`: `AdoptionKept` (Hosts = {h1, h2}, MaxOverlaps = 2, MaxEvents = 4) | discovery.go:21 says the flag is "persisted so a restart reports correctly at once" | setAdopted sets the flag and then writes the file, from the message loop and from performReset's goroutine: the two may write in the other order than they set. At discovery.go:30. |
| `Upkeep`: `ResendInstalls` | ssh_credential.go:6 says the credential is "sent on every connect" | One that was stored before its script failed, or was never run, counts as unchanged when it is sent again, and is installed at the next boot only. At ssh_credential.go:71. |

One more was noticed while modelling and has no configuration: a re-application works on
a snapshot of the known values (mediad_ctl.go:309), so it may overwrite a newer value that
a settings goroutine has just sent. For `RecordedIsApplied` that is one more way for two goroutines to have a control in hand at once (`doubt`). And two scales of one
field were noticed: customValueToLux takes icrCustomValue to be 0 to 10, the handler for the stock encoder
takes it as the threshold itself.

## What is proved

Each module ending in `Proofs` proves theorems for every value of the constants that the named assumptions of
the modules allow (`tlapm FlvConnProofs.tla`, and so on: one to a few minutes each). Nothing
is assumed about the cardinality of any set, except that snapshot requests are finitely many, and no bound on the environment is assumed beyond its being a natural number,
except where a theorem says so in its hypothesis. Where it does, TLC finds the property violated without
each part of the hypothesis: the table of disagreements and the lists below say how.

| Module | Theorem | Says |
|---|---|---|
| `FlvConnProofs` | `TypeCorrect` | `Spec => []TypeOK` |
| | `InductiveInvariant` | `Spec => []IInv` |
| | `NoFdLeakCorrect` | the open sockets are exactly those some channel or some dialling thread holds |
| | `NoSharedFdCorrect` | no two channels hold one descriptor |
| | `OneWriterCorrect` | each live connection has exactly one thread of its generation |
| | `CurrentThreadCorrect` | the thread whose generation is current holds its channel's socket |
| | `NeverAbandonedCorrect` | a wanted channel always has a thread that tends it |
| | `ImplementsSlot` | `Spec => Implements`: every step is a step of `StreamSlot`, or none |
| `PushQueueProofs` | `TypeCorrect` | `Spec => []TypeOK` |
| | `NoMissingReferenceHolds` | `Spec => []NoMissingReference` |
| `AdoptionProofs` | `GateHoldsOnLink` | `Spec => []GateHolds`, if no controller is off the camera's subnet |
| `MediadProofs` | `TypeCorrect` | `Spec => []TypeOK` |
| | `FirstObjectRecordedHolds` | `Spec => FirstObjectRecorded`, if `OneByOne` |
| | `RecordedIsAppliedHolds` | `Spec => []RecordedIsApplied` |
| `StreamProofs` | `TypeCorrect` | `Spec => []TypeOK` |
| | `DedupSoundHolds` | `Spec => []DedupSound`, if `init.sh` finds no supervisor before it (`~SlowBoot`) and none is killed |
| | `FeedMatchesHolds` | `Spec => []FeedMatches`, if `OneSource` |
| | `MuteKeptHolds` | `Spec => []MuteKept` |
| | `MicAsAskedHolds` | `Spec => MicAsAsked`, if every message that names destinations has audio settings (`"plain" \notin Kinds`) |
| `UpkeepProofs` | `MutualExclusionHolds` | `UpkeepSpec => []MutualExclusion` |
| | `OneSupervisorHolds` | `UpkeepSpec => []OneSupervisor` |
| | `CredentialWholeHolds` | `UpkeepSpec => []CredentialWhole` |
| | `IdentityConsistentHolds` | `UpkeepSpec => []IdentityConsistent` |
| | `UpkeepTypeCorrect` | `UpkeepSpec => []UpkeepTypeOK` |
| `DeviceProofs` | `StarvedChannelExitsHolds` | `DeviceSpec => []StarvedChannelExits` |
| | `AccurateStaysHolds` | `DeviceSpec => []AccurateStays` |
| | `AsBookedHolds` | `DeviceSpec => []AsBooked`, if a "set" never names an occupied slot (`~Indexed`) |
| | `LuxAppliedHolds` | `DeviceSpec => []LuxApplied` |
| | `StampsOrderedHolds` | `DeviceSpec => StampsOrdered` |
| | `PictureLeadHolds` | a picture is stamped at most a full queue ahead: what `LeadBounded` says of pictures, for any number of connections |
| | `LeadBoundedHolds` | `DeviceSpec => []LeadBounded`, for one connection (`OneLink`) and a full picture queue no older than the Opus queue is long or than `Late` (`QueuesYoung`) |
| | `EventPairedHolds` | `DeviceSpec => []EventPaired` |
| | `AnsweredInTurnHolds` | `DeviceSpec => []AnsweredInTurn` |
| | `HeaderInForceHolds` | `DeviceSpec => []HeaderInForce` |
| | `FramesWholeInOrderHolds` | `DeviceSpec => []FramesWholeInOrder`, if `Mishaps` is empty |
| | `PictureFollowsHolds` | `DeviceSpec => []PictureFollows` |

Every invariant named below was checked by TLC as an invariant of the module's run (in `Paired` with events up to a bound).

### `FlvConnProofs`

**Assumptions.** `NoneAssumption` (`None` is none of the values it stands for the absence of, and the
control thread is not a retry thread) and `BoundsAssumption` (the bounds are natural
numbers). Nothing is assumed about the cardinality of any set.

**Argument.** None of the five invariants is inductive as it stands. `NoFdLeak` needs to know that an
install closes the channel's old socket and no other, `OneWriterPerConnection` needs
generations that never come back, and `CurrentThreadHoldsActiveFd` needs both. `IInv`
adds what the code relies on without saying so:

- `MutexInv`: a thread between the start and the end of `doConnect` holds `g_connectMutex`, so
  at most one socket is being set up at a time;
- `FdInv`: `NoFdLeak` and `NoSharedFd` together (each is needed to preserve the other when a
  descriptor is closed);
- `GenInv`: no thread has a generation newer than its channel's, so a generation that is
  bumped belongs to nobody yet;
- `UniqueInv`: of one generation there is at most one thread, running or about to be created (the "at most
  one" half of `OneWriterPerConnection`, in a form that needs no cardinalities);
- `CurrentInv`: as long as a generation is current its socket stays the channel's, also
  before its thread has read `activeFd` and after it has closed it;
- `ServedInv`: the "at least one" half;
- `CareInv`: `NeverAbandoned`, and that a wanted channel has a host to dial: a retry that
  re-arms reads it back.

One lemma per action shows that it preserves `TypeOK`, one that it preserves the rest, in
the seven parts. The cardinality in `OneWriterPerConnection` is derived once, at the end, from
`UniqueInv` and `ServedInv`.

`ImplementsSlot` rests on `IInv` and on one more invariant, `DialledWanted`: a channel that is being dialled is
wanted. It holds although the dialling thread has released the state mutex, because a DISCONNECT needs
`g_connectMutex`, which that thread holds. With it `ConnectInstall` is `Establish`; that at most one
thread is setting up makes `SlotDialled` one socket (`SlotDialledIs`); that a
generation has one thread at most (`UniqueInv`) makes `SlotWriter` what the abstract writer is. One lemma says what each action
is in `StreamSlot`: `CtlConnect` and `RetryWake` none, `ConnectBegin` `Want`, `DialSucceeds` `Dial`, `ConnectSpawn` of a generation
that is still the channel's `Serve`, `PushEnd` of such a thread `Lose`, and so on.

### `PushQueueProofs`

Assumed: the queue holds at least one frame, the bounds are naturals, and `None` is no frame. `NoMissingReference` alone is
not inductive: it says of the frames in the queue that each comes after its reference, and nothing of the one that comes next.
`Chain` says it: `Newest`, the end of the queue or what was popped last, is the last frame the reader has seen while
the channel is active and not frozen; a frame that has passed the look at the connection stays in step with it until
it is queued, or the freeze or a new span (the reader has found the channel inactive in between) makes that irrelevant. This is what makes the looks
outside the queue's mutex harmless, except for the one in the table of disagreements (`PushQueueLoss`).

### `AdoptionProofs`

`GateHolds` is about memory, and a crash loses memory: `IInv` adds that a closed gate is also on the card
(`GateOnDisk`). It holds because the gate counts as closed only when performReset has written the await file after setting the flag,
and because a push opens it with whichever of the two it clears first. The hypothesis `OffSubnet = {}` is needed (`Adoption`: `GateHolds` above): a boot that finds the controller off-subnet ignores the file.

### `MediadProofs`

`RecordedIsApplied` is proved without a hypothesis: any number of settings goroutines and re-appliers may run at once and outlive
their connection, and the daemon may die, start and time out whenever it likes. `RestoreInv` says, beside the types, what makes that possible:

- `Held`: a value that a goroutine has set and not recorded yet is what the daemon holds, if it runs, and no re-applier is about to send
  another value of the control, unless the control is in doubt;
- `Resent`: what a re-applier has yet to send is still the value that is known, unless the control is in doubt or its value was recorded unsent;
- `Booted`: a daemon whose socket is not there yet is not taken for ready once the watcher has seen its pid;
- `Restored`: for the same controls as `Resent`, the known value is in the daemon, or is about to be replaced by the one that was just set, or all is
  about to be forgotten (a reset between its command and `rearm`), or it will be sent again: a re-applier has it, or one is still
  to be started (`RestoreDue`). At rest only the first of these is left.

`DoubtAfterSet` puts a control in doubt where `Held` or `Resent` would fail, and takes it out again when a goroutine sets it
with no other that has it in hand. Without `doubt` the invariant is false (`EveryRecordedApplied`).

`FirstObjectRecorded` is proved under `OneByOne`: there is one settings goroutine at a time and none outlives its connection. `FirstInv`: until the
first object of a connection has been recorded the delta seeds or a full apply is due, and no complete object
is on its way. The property fails with two goroutines (table above) and with a goroutine that outlives its connection (Outlives = TRUE).

### `StreamProofs`

`TypeCorrect` contains a bound on the bridge processes, for which `Bounded` counts the one that init.sh may still add. `DedupInv`
says that one bridge runs and owns the FIFO (`OneBridge`), that only a running client handles messages
(`Attended`), and that what the client remembers the bridge has, unless the handler is just connecting it or
the supervisor is about to bounce the client (`Remembered`). It fails with SlowBoot = TRUE and with MaxWdDeaths = 1
(`StreamWdDies`): nobody bounces the client.

`OneSource` excludes what the table of disagreements shows: a supervisor that starts beside init.sh (SlowBoot = TRUE), a stream object with a type
and no destination (`StreamCodec`), a first codec that mediad's seed swallows (`StreamSeed`), and two channels on one encoder (`StreamShared`).
`FeedInv` follows a message through: between messages every channel heard of is labelled with what its encoder makes (`BetweenMessages`);
within one, the channels it has dealt with carry the new label and the others the old (`WithinMessage`); what is told to the encoder
has been stored before (`StoredThenTold`), and what the connection takes the encoders to make they make (`KnownMade`). Both rest on the same
facts about messages, FIFO and processes, one lemma each.

`MicInv` needs neither one starter nor a supervisor that lives, and so neither `OneBridge` nor `Remembered`: several bridges may run, and the
one at the other end of the client's handle need not be the one that made the FIFO. `AsMute` is `MuteKept` in the midst of a message: the
channel whose CONNECT is sent or about to be sent is left out until MUTE follows it. It would be lost when the handle moves to
another bridge; `NewPath` says that the bridge it can move to has no target yet, and `Bare` where that comes from: a process that is starting has
none. `MicWished` ties the message to the controller: the handler has what is wanted, and once past the audio settings the client has it too.
Without the hypothesis the second half of `MicAsAsked` is false (`StreamUnmute` in the table of disagreements); the first, `MuteKept`, needs none.

### `UpkeepProofs`

`Upkeep` runs one of its parts at a time, so each step is one of a part or none (`PartStep`) and the parts are proved apart.

- `LockInv`: until `misled`, the shell that owns the lock has made the file that is there (its inode), which is empty until its pid
  is in it; no other live shell's pid is in it (`OwnFile`). A pid that was read from a file is still in it if it is still that file, and a shell
  that is about to remove it for that pid removes a dead shell's (`KnowsOwner`); a file that is created is new to every shell (`InoBound`). Where `misled`
  becomes true the lock is not exclusive any more (`Serialised` in the table).
- `SupInv`: until `raced`, the pid file names the shell that loops; two that start at once do so where there was no file, and
  exactly one of them has made it (`PairOK`); who is between a look and a kill, an unlink or an override is alone but
  for the supervisor it is about to replace (`StarterOK`).
- `CredentialInv`: what is about to be renamed is the whole line, and between the script's two commands the live file is empty.
- `IdentityInv`: `IdentityConsistent` speaks of the moments at which nothing is left to do; the invariant says what holds before them. What
  is left of a goroutine's list of operations is the rest of one of the code's programs (`Program`: a variable is set before its file, a file
  that is emptied is filled next, the key is the last of the pair), and each operation sets what is meant (`AsMeant`). A variable is as
  meant unless the list will still set it, or its file is in doubt and will not be filled by the list (`MemoryAs`); a file is as meant
  unless the list touches it or it is in doubt (`DiskAs`); and a certificate without its key is one whose key the list will write (`PairAs`).
  A power cut empties the lists, a failed operation drops a write (`WriteDropped`) or the rest of a deletion
  (`DeleteGivenUp`), and in each case what was dropped is in doubt. Nothing is claimed once a message overlaps a deletion. Rests on
  `IdentityAssumption`: no console has the camera's own id, and what stands for an absent or empty file is none of the values a file holds.
- `IdentityTypes` and `LadderTypes` complete the types (`UpkeepTypeCorrect`). The types need no such exception: whatever overlaps, each
  operation in hand carries a value of the variable or file it sets. At its limit a counter of the ladder is reset or goes
  no further. Rests on `LadderAssumption`: the limits are natural numbers, that on strikes not 0.

### `DeviceProofs`

`Device` too runs one of its parts at a time (`PartStep`). Besides types, the parts' invariants say:

- `StarvationInv`: a channel whose static clock is 0 is new and has not been polled, and one that has been polled in this tick
  has been silent for no longer than the limit. This is why a clock that survives its connection does not keep a starved channel going.
- `ClockInv`: while the clock is right, a pending offset is the last sample's, out of tolerance because it came late.
- `PtzInv`: `AsBooked`, which is inductive, provided that the client picks the slot the firmware takes (`SameSlot`) and a rewrite of the
  file keeps all names but one (`RewrittenNames`). Without `~Indexed` it is false: `Device`: `SlotsMirrored` in the table.
- `LuxInv`: each part of the hardware is set or headed for where the poller believes it is; a resync that is about to be marked done is
  still to be carried out in full, and while the lux mode is on the handler has nothing to do.
- `StampInv`: a picture's lead, what is queued and what the ring reader still owes are together no more than the queue takes
  (`Behind`). Audio has such a bound on one connection only (`LeadBounded` in the table); the order of stamps needs none.
- `LeadInv`: on a connection that found its queues empty they hold what was handed over last, without a gap, up to the last time at which it was
  due (`AudioForm`, `OpusForm`, `PictureForm`), so that a queue's length tells its head's age. A tag's stamp is its capture time plus a shift that the anchor fixes.
  AAC packets pull the anchor back to where they are not ahead, pictures move it only when it is first set or when they are
  young (`AnchorForm`), and each queued Opus packet can add one step to the track's last stamp and no more (`AudioAhead`). `QueuesYoung` is needed: a picture
  queue that is older than `Late` when it is full makes the muxer anchor anew, and an Opus packet may then be stamped before an AAC
  packet pulls the anchor back (TLC, with VideoSize = 3, Interval = 3, Late = 5). In the code the queue has 40 pictures and `Late` is 3 s, so it
  asks for more than 13 pictures per second.
- `MotionInv`: on the connection there is, the events sent and about to be sent are distinct, numbered up to the current one, and a stop
  is not about to go out unless its start has gone out or is in the watcher's hands (`Paired`); connections are opened in turn, so that one not yet opened has nothing.
- `SetsInv`: what is left of the frame that is being muxed is a slice, or the end of one encoder's keyframe (`NalsInv`). Between a keyframe's
  first NAL unit and its last, the sets that have gone by are the thread's (`PartialInv`); once it has gone out as a whole the header is the one
  made of its sets (`WholeInv`), which needs that a header that has been sent is always that of the thread's current sets
  (`Agree`), whatever the cache supplied. Rests on `SetsAssumption`: a parameter set is not the absence of one.
- `RingInv`: from the frame that an attached reader is to hand on next, frames follow one another without a gap, leave a cell of the ring
  free (`Spaced`) and are there as they were written, but for the end of the newest while it is being written (`Stored`); the reader is where a
  frame starts, and its batch is the frames from that one on (`ReaderFrom`); what it has handed on is whole, in turn and before it
  (`EmittedTo`). The producer sets its three fields one by one (`FieldsAs`), so the end that the reader goes by is some frame's.
  Distances are counted around the ring (`Ahead`), so that the wrap needs no case of its own: `movePtr` and the producer agree on it as long as no
  frame ends at the ring's last cell. `Mishaps` is empty, as in the run: that does not happen, the writer does not lap the reader
  and the pointer that seeds the reader is not torn. What each of the three leads to is in the table of disagreements. `RingAssumption`:
  a frame fits in the ring together with its header.
- `ControlInv`: every aspect that has been asked for has an object that asked last (`LastAsked`), and each key that this object was mapped to is, once sent, in the
  daemon with the value it was mapped to, and known as that unless it is locked. It needs that pinned and refused keys count as unsent, and that what is known and sent
  is what the daemon holds. What an object leads to is stated once, key by key (`Effect`); that it disturbs no other aspect rests on
  `Unasked` (an object that does not speak of an aspect is mapped to none of its keys), that the picture is the one asked for on `Shows`,
  which follows the mapping of each of the model's objects through to what the daemon shows. Any number of objects, in any order, but these objects.
- `SnapshotInv`: the camera is held by one request, no longer than its deadline (`Exclusive`); who waits has waited no longer than the
  deadlines of those that have had it and the time the present one has held it.

### What is not proved

Only model-checked:

- `LeadBounded` outside the theorem's conditions, where it does not hold for every value of the constants (`LeadInv` above, and the table of disagreements);
- `DeviceTypeOK` as a whole: the invariants above type what their proofs need;
- the liveness properties of all modules, which rest on fairness and ENABLED, and these the prover does not handle.

## Abstractions

- Frames, settings, tokens, hosts and codecs are model values or small sets; JSON, SDP, FLV
  and socket bytes do not appear.
- A FIFO command takes effect when it is written: one writer, one reader, order kept; what is
  unread when the bridge dies is lost with the bridge (`StreamControl`).
- The supervisor's detection of duplicate clients is not followed: it finds a client or none.
- `StreamControl` knows which codec the encoder was told, `MediadDelta` how telling it works.
- `MediadDelta` has one category of settings and no locked keys; the daemon becomes ready only
  after values that are being recorded have been.
- The 16-bit frame counter of the ring is not wrapped in `PushQueue`: the gaps that matter are
  far smaller than 2^16.
- A file write is one step, except for the codec file, whose truncation and write are two; failures to
  save other files are left out.
- `Controls` has one object at a time and a daemon that answers; of the page's five keys it has `denoise`, the only one
  that Protect sends too.
- In `RingReader` frames are all of a known type and have no prefix, cells stand for bytes, and a read that straddles the wrap is
  put together rightly. The layout is known from the start.
- Operations on the card's files take effect in the order in which they are made: what a file system without
  an fsync may lose in a power cut beyond the last of them is left out (`Identity`, `Credentials`).
- `mediad.sh` is not in the repository: its restart either brings the encoder up or does not (`Ladder`).
- `Supervisor` counts time in 50 s; the 0.3 s before the second look are enough for another starter's two commands, and the new pid of a
  shell is one that no file names any more.
- `Stamps` does not wrap its times: the tags' 32 bits last 49 days, and the ring's PTS is never 0. A negative double becomes 0 as a `uint32_t`, as the
  camera's ARM core does it. The Opus clock follows the ring's PTS (in the code, up to 100 ms off it); a picture that overflows its queue is taken for a keyframe.
- In `ParameterSets` a frame starts with all its codec's sets or has none, and no frame is lost within a connection (`PushQueue`).
- `streamName` is a whole value even when it is read without the mutex; what a torn `std::string`
  would hold is not modelled.

## Not modelled, and why

| Part | Why |
|---|---|
| going to a preset, cruising, answers to queries, replies that echo settings | they start the firmware's own motion, or format what was received, and keep no state |
| AAC to Opus, the bytes of FLV tags and AMF objects, onClockSync, the measured frame rate | conversion and formatting of one thread's data, which a unit test reaches; no interleaving changes them |
| layout detection and frame types of the ring reader | done once, before the loop, from what a given firmware writes |
| log trimming, the Yi cloud daemons, the rest of the boot sequence | sequential shell without state that another actor reads |
| status and login pages, discovery's packets | formatting and I/O; what a reply says of the adoption is in `Identity`, what the page pins in `Controls` |
| firmware version, device name, second connection to the controller | one value each, written whole and shown; a connection that carries nothing |
| installers, mixer and cpld tools, mkpasswd, talkback audio, downloader | I/O, with hardly any state that a second actor shares |

## The plan

What is left, most valuable first:

1. Proofs: the types of `Device` that its invariants leave open.
2. Larger instances where a counterexample might hide: `ParameterSets` with two restarts of the encoder, `Stamps` with the queues' own sizes.
