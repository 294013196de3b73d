# A TLA+ model of the EZVIZ CB2 to HomeKit bridge

The repository is a fork of go2rtc (Go) with a bridge around it (Python) that
shows a battery camera, the EZVIZ CB2, to HomeKit. The camera must be woken, is
slow to start, and drains its battery while it streams, so the hard part of the
system is deciding *when the camera is on*, *for which camera*, and *with which
account*; around that lies go2rtc with its many protocols to cameras and viewers.
This directory models both: TLA+ modules, TLC runs on small instances, and TLAPS
proofs for every value of the constants.

## 1. The system

```
 config_tool.py (migrate, import, upgrade) ──fills──▶ data volume
 setup wizard (HTTPS) ──writes──▶ settings.json, ezviz_token.json, ezviz_auth.json
 login-ezviz-cloud.py ──writes──▶        │ watched
                                         ▼
                              BridgeSupervisor ──starts, stops──▶ ezviz_warm_controller.py
                                                                    │ main: starts, stops
      HomeKit, RTSP, WebRTC, HLS, HTTP viewers ──▶ go2rtc ◀─────────┤
                                                      │ internal/   │ strategy: PIR alarms,
                                                      │ streams     │ mains/battery
            ┌──────────────┬──────────────────────────┤             ▼
            ▼              ▼                          ▼           one ffmpeg reading ezviz_raw
      other cameras   RTSP cameras,   ezviz_raw: probe-ezviz-direct-reverse.py ──▶ activity marker
      (pkg/tapo, ...) child processes                 │
                                                      ▼ camera
```

| Component | State it keeps | Hard behaviour | What makes it correct |
|---|---|---|---|
| **Streams** (`internal/streams`, `pkg/core/node.go`) | viewers, the count of viewers being added, linger timer and its generation; per source connection, receivers, senders, worker | goroutines under two mutexes plus unlocked reads; timers that fire late; a reconnect that moves tracks while viewers leave | a source is closed only while nobody uses it or arrives; none stays open unwatched; a served viewer has a live source |
| **Camera binding** (`runtime_settings.py`, `setup_wizard.py`, `login-ezviz-cloud.py`) | three files; pending login, staged token, their timers, a lock | two processes, three writes per commit, crashes, late timer callbacks | a bound token is the one verified for the bound camera; secrets do not linger |
| **Supervisor** (`service_supervisor.py`) | process handle, events, file signature, restart delay, status | files change while they are read; a stop that times out; process crash | one bridge at most; it runs with the latest settings or not at all |
| **Warm controller** (`ezviz_warm_controller.py`) | power mode, PIR window, ffmpeg and back-off, seen alarms, activity grace | alarms twice or late, status calls failing one by one, close in the middle of a tick | battery sleeps, mains stays warm, nothing is left behind |
| **Tools** (`config_tool.py`, `tls_config.py`, `migrate-ezviz-config.py`) | files of the data volume, the certificate pair | a crash between any two writes | all old or all new, the identity survives |
| **Direct source** (`probe-ezviz-direct-reverse.py`, `ezviz_direct_media.py`, activity marker) | listener, control threads, buffer, marker file | late callbacks, answers out of order, handover of the marker | with the camera's address asked for only its media flows, whatever the split of the bytes |
| **HomeKit** (`internal/homekit`, `pkg/homekit`, `pkg/hap`, `pkg/srtp`) | pairings and their file, sessions, one shared socket | two handlers of one controller; restarts; a socket closed while read | a removed controller stays out; a session is served; a stopped viewer leaves |
| **RTSP and child processes** (`pkg/rtsp`, `internal/rtsp`, `internal/exec`) | connection state, tracks, waiters by path | reconnect under a reader; a process that connects late | every track plays; nothing stays on a stream; a start is answered |
| **Registry** (`internal/streams` api, preload, publish) | two maps, two mutexes, the configuration file | overlapping requests, a failed write | no consumer is left behind; a request alone on its name leaves registry and file in agreement |
| **WebRTC, HLS, other viewers** | offers, candidates, timers, write buffers | candidates before offers, timers against requests, packets before the writer | order kept, nothing lost or doubled, who is gone leaves |
| **Camera transports** (`cs2`, `tutk`, `dtls`) | sequence numbers, reorder buffers, frames, acknowledgements | loss, doubles, reordering, wrapping numbers, silence | whole frames in order; commands confirmed; Close returns |
| **Other cameras and their clouds** | dial, probe, reader, talk; tokens shared by requests | probe and reader on one connection; two logins at once; failed dials | what the probe read is delivered once; no account gets another's token |

The bridge's own parts interact through four things. The *files* (Binding writes,
Supervisor reads) are module `Files`. The *reload event* is set by the last step of
a save or login (`Binding`) and is `RequestReload` in `Supervisor`. The *bridge
process* is started and stopped by the Supervisor; what it does inside is
`WarmController`. The *raw stream* is a reader-counted source that stays warm for
the linger window: `Streams` implements it, `WarmController` uses a three-valued
summary of it (`source`). All other parts meet at a stream: a viewer joins with
AddConsumer and leaves with RemoveConsumer, a source is dialled, probed, read and
stopped. Their modules therefore keep "is on the stream" as a flag, and their
properties ask that it is taken back on every way out; what the stream does with
it is `Streams`.

`PROJECT.json` lists all components with their sources and what is left out of
each, and every hazard at its line.

## 2. Modules

| Module | What it is |
|---|---|
| `SourceUse` | abstract: arriving viewers, open sources, who uses which. A source is opened for somebody who arrives and closed while nobody arrives and nobody uses it. |
| `Streams` | one stream, at the grain of its lock operations. Implements `SourceUse`. |
| `Files` | abstract: how the three files may change, whoever writes them. |
| `Binding` | wizard requests, the command line login, timers, crashes. Implements `Files`. |
| `Supervisor` | the supervisor loop, in an environment that is `Files`. |
| `WarmController` | strategy, alarms, ffmpeg, main. |
| `Channel` | abstract: messages in order, none twice, none left out. |
| `MCStreams` | instances of `Streams`. `Binding`, `Supervisor` and `WarmController` need no module of their own: TLC runs them directly. |
| `MCTransports` | `Cs2` (implements `Channel`), `CommandAck`, `Tutk`, `Dtls`, `Signalling` |
| `MCServers` | `Rtsp`, `RtspServer`, `Registry`, `Hls`, `WebRtc`, `Sender`, `Waiter` |
| `MCHomeKit` | `HomeKit`, `HomeKitPairing`, `Srtp`, `RtpVideo`, `Consumers`, `Rtmp`, `Accounts` |
| `MCTools` | `Migration`, `Upgrade`, `Certificate`, `Probe`, `DirectMedia`, `Marker`, `Cameras`, `Frames` |
| `StreamsProofs`, `BindingProofs`, `SupervisorProofs`, `WarmControllerProofs` | theorems; they extend the modules they are about |
| `ServersProofs`, `PeersProofs`, `ToolsProofs` | theorems about `Sender`, `Waiter`, `Registry`, `Hls`, `WebRtc`, `RtspServer`, `Rtsp`; `CommandAck`, `HomeKitPairing`, `Srtp`, `HomeKit`; `Certificate`, `Upgrade`, `Migration`, `Probe`, `Marker`, `Frames`, each instantiated under a name |

**Suites.** The last four MC modules are *suites*: each instantiates several modules
that share no state. `part` says which of them a behaviour explores; the others
stay in their initial state (`Frame`), and the initial choices of one part are not
multiplied with those of another. So the states of a suite are the sum, not the
product, of its parts. Nothing fair is enabled in the initial state of a part, so
the fairness of one part asks nothing of a behaviour that explores another.

**Promises.** Each module of a suite ends in `Promise`, the conjunction of its
invariants and temporal properties. A promise of a suite (`PairingsPromise`, ...)
is the conjunction of those of one or more modules, and it is what a run checks.

### Streams and the code

`pc[c]` is where a viewer session stands in `AddConsumer` (`dial`, `track`,
`attach`, `leave`, ...) and `RemoveConsumer`; `pos[c]` are its two loop
variables, `errs` and `starts` the locals `prodErrors` and `prodStarts`, `track`
the receiver it has in hand. `pending`, `consumers`, `stopTimer`, `generation`
are fields of `Stream`; `fired` are callbacks that wait for `s.mu`. `loop` is a
stop loop that holds `s.mu`; `rec[p]` is a reconnect that holds `p.mu`. All
other critical sections are one action. The loop *reads* a producer's children
without `p.mu`, in a step of its own (`StopCheck`), and closes in another
(`StopProducer`), as `stream.go:178-189` does. `Node` splits moving children in
two locked halves (`TakeChilds`, `GiveChilds`); in between a sender that closes
is in neither list.

A media is its kind; two kinds and sources that offer some of them give every
branch of the matching loop, including a source that cannot be dialled
(`Dial`), has no match (`NoMatch`), breaks between match and attach
(`TrackError`), or is the viewer itself (`Loops`).

### Binding and the code

A camera identity is serial plus region; a token *is* the identity it was
verified for. `secure_write` ends in `os.replace`, so one write is one step;
`persist_bound_token` is four (`TakeFlock`, `WriteUpdating`, `WriteToken`,
`WriteBinding`). The kernel drops the `flock` when its process dies, which is
why `Crash` and `Kill` free it. A request that holds the coordinator's lock over
its cloud calls keeps `lock`; one that takes and releases it at once is one
step. A timer is `armed` until it runs out or is cancelled, `late` from its deadline,
`fired` while its callback waits for the lock.

### Supervisor and the code

`at` is the position in the loop. Settings, token and binding are read in three
steps, each from the files as they are then. `touched` means the file signature
differs from the one the loop holds; the loop takes note at the top of a round
only. A process that was sent SIGKILL (`killed`) dies in the end, though perhaps
after the loop stopped waiting.

### WarmController and the code

`at` is the position in `run_strategy`; `WarmConsumer.tick` under its lock is
one action, as are MQTT callbacks. A deadline is a flag cleared by its clock at
any moment; a period (status, poll, reconnect, renewal) is an action that is due
or is not. The live, grace and none of `ActivityTracker` are `active`. Two
variables are history, not code: `misses` counts status calls that failed in a row
while mains is assumed, and `owed` says that an alarm's window has not been given yet.

### The transports

| Module | State and actions | Promise |
|---|---|---|
| `Cs2` | `phase` of the handshake, numbered datagrams in flight, `waitSeq` and the buffer of a channel; the worker's datagram, its acknowledgement, the reader's `Pop` | `InOrder` (implements `Channel`): whole messages in order through losses, doubles, reordering and a wrap of the numbers; `AllArrive` |
| `CommandAck` | who holds `cmdMu`, the closure in `cmdAck`, `repeat` of each command; one tick of the loop, an acknowledgement | `DoneIsConfirmed`: silence is never taken for success; `CommandsEnd` |
| `Tutk` | the waiting frame, the reorder buffer, the queue; the camera sends chunks, the network loses, doubles, overtakes | `FramesWhole`, `BufferHasRoom`, `KeepsDelivering` |
| `Dtls` | `step` of dial, worker, reader, ack ticker, the two halves of Close | `DialEnds`, `CloseEnds` |
| `Signalling` | ten dials as step lists: socket, offer, answer, candidates, `Waiter`, error path | `GateHolds`, `OkMeansConnected`, `ErrorReleases`, `RingReleases`, `DialEnds` |

### The servers

| Module | State and actions | Promise |
|---|---|---|
| `Rtsp` | `state` under its mutex, `link`, receivers; GetTrack, Start, Handle, Reconnect | `TracksPlay`, `PlaysAgain` |
| `RtspServer` | a connection from DESCRIBE or ANNOUNCE to its end; the waiter of a child process with its timeout | `LeavesStream`, `NoProcessLeft`, `StartAnswers` |
| `Registry` | `streams`, `preloads`, the file; each request by its lock operations | `NobodyLeft`, `PreloadIsSaved`, `PreloadsAnswered` |
| `Hls` | buffer, init, alive timer, overlapping requests | `FoundIsFed`, `NothingTwice`, `SessionLeaves` |
| `WebRtc` | three kinds of offer, candidate handlers in goroutines of their own, listeners | `AnswerFirst`, `OfferFirst`, `CandidatesReach`, `GoneLeaves` |
| `Sender` | `buf`, the channel, one worker per `Start` | `InOrder`, `NeverPanics`, `Drains` |
| `Waiter` | the wait group's counter, `err` | `FirstDoneCounts`, `WaitersEnd` |

### HomeKit, viewers and clouds

| Module | State and actions | Promise |
|---|---|---|
| `HomeKitPairing` | pairing list, its file, the status flag; pair setup, verify, remove, restart | `FlagIsTrue`, `RemovedStaysOut` |
| `HomeKit` | the one session slot, consumers with their deadline, what their closed senders still drain; SetupEndpoints, SelectedStream, End, expiry | `StartIsOwn`, `NeverPushedAgain`, `StoppedViewerLeaves` |
| `Srtp` | sessions, the open socket, readers of this and of earlier sockets | `SessionsAreServed`, `NoSocketLeak`, `ReadersEnd` |
| `RtpVideo` | H.264 and H.265 payloaders, a faulty path, `RTPDepay` | `NalsAreWhole`, `UnitsStayApart`, `AllArrives`, `FitsMtu` |
| `Consumers` | 13 uses, muxer times sink: FLV, MPEG-TS, ADTS, Y4M, MJPEG, MP4, MSE and the snapshots over HTTP, websocket or RTMP, with `WriteBuffer` and `OnceBuffer` | `AllInOrder`, `HeaderFirst`, `FragmentOrder`, `KeyFirst`, `OneByOne`, `Steady`, `NobodyWaits`, `LeftOnClose` |
| `Rtmp` | both ends: handshake, packet size, commands, chunked messages of one tag or of all that were buffered | `TagsArrive`, `DialIsHeard`, `NobodyWaits`, `NobodyIsLeft` |
| `Accounts` | requests of two users at the clients of ring, nest, xiaomi, wyze, tuya with the tokens they share | `LatestIsKept`, `RetryIsNewer`, `NilAfterRefusal`, `TokenOfItsAccount`, `StoredIsConfirmed`, `ListedOnce`, `SomeCanGoOn` |

### Tools and cameras

| Module | State and actions | Promise |
|---|---|---|
| `Migration` | the files of the volume, the progress of a migration or import, their undo; crashes and logins between | `TokenOfItsCamera`, `CommitIsLast`, `NeverStuck`, `BridgeKeepsItsOwn`, `RunsEnd` |
| `Upgrade` | the text of a configuration and its backups | `NothingLost` |
| `Certificate` | key and certificate files, what the thread believes, what the server serves | `ThreadKnows`, `LoadsAPair`, `Renewed` |
| `Probe` | `step` of main, the control threads, the listener, the network lock | `StreamsAlone`, `OnlyMedia`, `ZeroIsMedia`, `LockIsFinal`, `ProbeEnds` |
| `DirectMedia` | the deframer's buffer over every split of the bytes | `SplitDoesNotMatter`, `EndsWhole`, `Monotone` |
| `Marker` | the marker file, sources that renew it, the controller's rounds, each with the time of its top (`stale`) | `FlowIsMarked`, `HandoverIsMasked`, `StopIsSeen` |
| `Cameras` | thirteen clients and the readers of eight formats: dial, probe, replay, reader, Stop, talk | `InOrder`, `AllOfIt`, `NoMisread`, `FailedReleases`, `OneReader`, `TalkWhole`, `StopReleases`, `Ends` |
| `Frames` | per channel the packets of a frame, the clock of 20 bits, the queue | `WholeFrames`, `ArrivedIsQueued`, `ClockRuns`, `ClockNeverBack`, `NewestKept`, `NothingAfterClose` |

## 3. Runs

Passing runs:

| Run | Module | Shows |
|---|---|---|
| `viewers` | `MCStreams` | 3 viewers of 1 source, fair: viewers that arrive, fail and leave in every order forget no source (`NoForgottenSource`), stay served (`ViewerIsServed`), and no timer of an earlier window closes anything (`ExpiryIsCurrent`); `Streams` implements `SourceUse` (`KeepsPromise`) and closes every source that stays unused (`KeepsFairPromise`) |
| `sources` | `MCStreams` | 2 viewers, a playback, 2 unlike sources, one with a backchannel, a loop request, one lost connection: the admission boundary holds (`NoCloseWhileAdding`), no stopped source is brought back (`StoppedStaysStopped`) |
| `binding` | `Binding` | 2 cameras, 2 requests, 1 tool run, 1 crash, fair: the binding is the truth at every moment (`FailsClosed`), files change in the discipline of `Files` (`KeepsFiles`), secrets are timed and a timer drops only its own (`SecretsAreTimed`, `SecretUntilDue`), every request ends and every secret is dropped (`LoginsEnd`) |
| `supervisor` | `Supervisor` | 2 cameras, 4 changes, 2 faults, fair: one bridge at most (`OneChild`), none that does not match its files goes unnoticed (`StaleIsNoticed`); the latest settings are applied, health tells the truth, a stop ends everything (`SettlesOrStops`) |
| `warm_auto` | `WarmController` | power mode auto, 1 fault, fair: mains is believed for fewer than three failures (`MainsIsConfirmed`); on mains ffmpeg is restarted whatever ends it, until a stop or the end of go2rtc ends everything (`WarmUntilStopped`) and leaves nothing behind (`NothingLeft`) |
| `warm_battery` | `WarmController` | 1 alarm, battery, fair: with no viewers and no alarms the stream goes cold for good (`BatterySleeps`) |
| `transports` | `MCTransports` | media and commands over networks that lose, double and reorder; the life of a DTLS connection; ten dials to WebRTC cameras |
| `servers` | `MCServers` | RTSP on both sides, child processes, the registry under three requests, HLS, WebRTC, the viewer's queue, the waiter |
| `homekit` | `MCHomeKit` | pairings with restarts, sessions, the SRTP socket, RTP packets over a faulty path, viewers that are written to, RTMP, the accounts of the camera clouds |
| `tools` | `MCTools` | migration, import, upgrade and certificate with a crash between any two writes; the direct source and its marker; the clients of other cameras; the frame handler |

Runs whose property TLC refutes. Each property says what a comment or document
of the repository says, each counterexample is a path of the code
(`PROJECT.json`, "findings", has the lines):

| Run | Property | What happens |
|---|---|---|
| `closed_under_reader` | `CloseOnlyIdle` | the stop loop reads no children while a reconnect carries them, then closes the source under its viewer. Without lost connections the property is a theorem (`ClosedOnlyIdle`) |
| `window_not_extended` | `AlarmExtends` | an alarm in the warm window is started and stopped in one round and does not extend the window |

### Bounds

- **Streams.** Two viewers are enough for each race that involves a pair (one
  arriving, one leaving); the third lets one arrive between the two. A session
  is used once, so three sessions also play a viewer that returns. One source in
  `viewers`, which is how the bridge reads `ezviz_raw`; two in `sources`, so that the
  stop loop has something to do after the first and a viewer can be served by the
  second. `MaxReconnects` is zero in `viewers`: with a reconnect its properties are
  false (`closed_under_reader`, and section 6). One in `sources`; the worker counter
  distinguishes a stale reconnect. The proofs remove all but the last of these bounds.
- **Binding.** Two requests are a login that one other request interferes with, at
  every one of its steps; one tool run is the second process; one crash may hit any
  point of a commit. The safety properties are proved for any numbers.
- **Supervisor.** Four changes are one whole commit (three) and a save; two faults
  let a stop time out and the next start fail.
- **WarmController.** One alarm can be pushed, polled and arrive in each window;
  `warm_auto` has none, because its properties are about power and ends. The three
  failures that end mains are no `Fault`; the bound is on lost consumers, failed
  starts and an end of go2rtc.
- **`transports`.** `Cs2`: 7 packets, numbers modulo 6, so that they wrap, `PopSize` 2.
  `CommandAck`: 3 commands, 3 attempts, 2 late acknowledgements. `Tutk`: frames of 3,
  1 and 2 chunks repeated, a reorder buffer of 2, 2 faults, 2 datagrams in flight, so that
  the buffer overflows and a frame is lost whole. `Dtls`: one command in the queue.
  `Signalling`: 2 candidates and 2 replies, which lie on either side of the offer.
- **`servers`.** `Rtsp`: 3 tracks and 4 calls of GetTrack, so that a reconnect meets tracks that
  play, a track that waits and another reconnect. `RtspServer`: 2 connections and a process
  that is started twice. `Registry`: 2 names, 2 streams, 3 requests, 2 queries, one of them empty: two requests that
  overlap on a name and one that sees the result, and mends it. `Hls`: 3 requests, 3 packets. `WebRtc`: 2
  connections, 1 candidate each way. `Sender`: buffer 2, 4 packets, 2 workers. `Waiter`: 2
  waiters, 2 callers, 2 errors.
- **`homekit`.** Two controllers with two connections and two sessions: one slot, two
  claims; starts of the first may overlap (`Most`), and a closed sender drains up to one packet
  (`MaxQueued`), after which the next one would be the same again. `Srtp`: 2 sessions, 2 readers, 4 sockets: a reader that still holds a socket two
  generations old. `RtpVideo`: MTU 6, slices of 1 and of 8, so one packet or several, 2 units,
  numbers modulo 8, 1 fault. `Consumers`: 2 packets of the first track and one of the second, before
  or after the writer. `Rtmp`: two shows of four tags with sizes 0 to 4 over packets of 2, of
  which two may be flushed as one message, the second with a time of all ones. `Accounts`: 2 requests at once, 2 users, 3 tokens, 1 retry.
- **`tools`.** 2 cameras, 2 sessions, 2 faults between writes; 3 texts; 2 changes and 3
  faults of the certificate; 2 attempts of the callback, 1 stranger. `Marker`: 2 sources, a grace of 3
  ticks, rounds of up to 2 ticks (the cloud calls of a round have timeouts of 15 s, a tick is 10 s);
  the theorem `ActivityIsSeen` is about any number of each. `DirectMedia`: 3 frames
  of up to 2 units, cut everywhere. `Cameras`: 3 packets of 2 units, 2 talk tracks. `Frames`: 6
  shots on two video channels and one for sound, among them a frame of four packets whose index
  meets the marker; 2 faults, clock modulo 4, queue 2.

### Fairness

- `Streams!Fairness`: goroutines run, a mutex that is free is taken, an armed
  timer expires. Not assumed: that a viewer leaves, that a dial succeeds.
- `Binding!Fairness`: a request in progress goes on because cloud calls and TLS
  reads have timeouts, and a timer's thread runs. Not assumed: that anybody
  answers an SMS.
- `Supervisor!Fairness`: the loop goes round (every wait in it has a timeout),
  the restart delay passes, a killed process dies.
- `WarmController!Fairness`: the loop goes on (cloud calls have timeouts), clocks
  run, the stream is closed after its window, go2rtc ends when told to (main
  kills it otherwise), main goes on. Not assumed: that ffmpeg ever attaches, that
  alarms or viewers come or stop.
- The modules of the suites assume that goroutines, threads and handlers run,
  that armed timers fire and that reads with a deadline return. Not assumed: that a
  camera, a cloud or a player does anything. Where a property needs the other side it
  says so: the CS2 camera repeats what nobody acknowledged (`Cs2!Fairness`), a TUTK
  camera goes on sending, and `DialEnds` of `Signalling` excepts dials that the other
  side leaves without an answer, as they wait for ever. `Rtsp!StartLocked` is strongly
  fair: Start takes a mutex that GetTrack takes and releases any number of times, and
  Go's mutexes starve nobody.

`sources` and the refuted runs have no fairness: they are about safety only.

## 4. Proofs

All theorems hold for every value of the constants that satisfies the `ASSUME`
of their module or the assumption that the theorem names (disjoint names, finite sets
of viewers and readers, natural bounds). A bound on a counter (`MaxSockets`,
`MaxPackets`, ...) is any number: no theorem uses that it is small.

| Theorem | States |
|---|---|
| `StreamsProofs!TypeCorrect` | `Spec => []TypeOK` |
| `StreamsProofs!NoRevival` | a stopped source is not brought back by an older worker |
| `StreamsProofs!AdmissionBoundary` | no source is closed while any viewer is being added, with reconnects, playbacks and late timers |
| `StreamsProofs!WindowsAreKept` | `ExpiryIsCurrent`: a timer of an earlier window closes nothing, with reconnects and playbacks |
| `StreamsProofs!ImplementsSourceUse` | without lost connections `Streams` implements `SourceUse` |
| `StreamsProofs!ViewersAreServed` | without lost connections a viewer that is on has a started source until it leaves |
| `StreamsProofs!ForgottenAfterPlayOnly`, `NothingForgotten` | without lost connections only a playback with its own client can make a stream forget a source; without those none is forgotten |
| `StreamsProofs!ClosedOnlyIdle` | without lost connections a source that somebody reads is not closed |
| `BindingProofs!TypeCorrect`, `BindingIsTruth` | a bound token is the one verified for the bound camera |
| `BindingProofs!ImplementsFiles` | `Binding` implements `Files` |
| `BindingProofs!NothingUntimed`, `OwnDeadlineOnly` | every secret has its timer; a timer drops nothing newer |
| `SupervisorProofs!TypeCorrect`, `NeverTwo`, `NoChangeIsLost` | one bridge; a bridge that does not match the files is noticed |
| `WarmControllerProofs!TypeCorrect`, `MainsNeedsProof`, `LeavesNothing` | mains ends at the third failure; nothing is left behind |
| `ServersProofs!ViewerInOrder`, `QueuedIsKept` | a viewer gets its packets in order, none twice; each one queued is delivered, held or still queued; Close panics nowhere |
| `ServersProofs!FirstDoneWins` | nobody passes a waiter before a Done, and its error is that of the first |
| `ServersProofs!NobodyIsLeft` | a consumer on a stream belongs to somebody who takes it off |
| `ServersProofs!RegistryIsSaved` | registry and file agree once a preload request that had its name to itself could write, whatever overlapped before |
| `ServersProofs!NothingIsLeft` | a connection that returned is off its stream; no process runs that nobody waits for or reads |
| `ServersProofs!CandidatesKeepOrder` | no local candidate is written before its answer, no remote one given to a connection without an offer |
| `ServersProofs!SegmentsAreWhole` | an HLS session that can be found is fed; its segments join to the packets written |
| `ServersProofs!TracksPlayTogether` | a connection to a camera that plays was told to play every track handed out, unless a reconnect failed after its dial |
| `PeersProofs!SentIsConfirmed` | a command is reported as sent only after an acknowledgement |
| `PeersProofs!AnnouncedIsTrue`, `RemovedIsRefused` | the announced status is true; a removed controller stays out |
| `PeersProofs!SocketIsServed` | a registered session has the open socket and a reader; no socket outlives its sessions |
| `PeersProofs!StartsAreOwn`, `StoppedIsQuiet` | a handler starts only what its own controller was offered; no connection of a start or viewer is lost from the list; what was stopped is pushed only by what was queued, each packet once |
| `ToolsProofs!PairsBelongTogether` | the wizard loads a key only with its own certificate |
| `ToolsProofs!OldTextsAreKept` | every overwritten text is in a backup |
| `ToolsProofs!MigrationCommits`, `BridgeKeepsItsIdentity` | the identity comes last and with its session; it is never replaced; a half filled volume lets a migration in |
| `ToolsProofs!MediaFlowsAlone`, `LockHolds` | while media flows no request is under way, nothing listens, and the lock is on; with strict only the camera's media is handed on, never a late callback's, and without media no success returned; the lock is final |
| `ToolsProofs!ActivityIsSeen` | the marker is live while media flows two ticks after the last handover; rounds within the grace after one without handovers say so (`HandoverIsMasked`); a stopped source is seen at most for the grace and the waiting of the round |
| `ToolsProofs!FramesAreWhole` | a queued video frame is all packets of one frame in order; the clock never runs back; the queue holds the newest; Close crashes nothing |

The arguments:

- **Streams.** `IInv` adds three facts to the types. `PendingCounts`: the atomic
  counter equals the number of sessions between admission and decrement, so
  `pending = 0`, which the loop reads, *means* that nobody arrives. `LoopOK`:
  while a stop loop is between its reads and its close it holds `s.mu` and the
  counter is zero, so no admission can come in between. `WorkersOK`: a reconnect
  that carries tracks has the current worker number. `AdmissionBoundary` follows
  at `StopProducer`. For `ImplementsSourceUse`, `QuietInv` adds that without lost
  connections no reconnect exists, hence what the loop read about the children
  (`loop.idle`) is still true when it closes: only an arriving viewer adds a
  child, and there is none. `ClosedOnlyIdle` is the same fact as an action property.
- **The window.** `TimerOK`: an armed timer has the current generation, and a callback
  that waits for `s.mu` with that generation is the one of the armed timer. Whoever
  cancels or arms takes the next number first, so any other callback that gets the lock
  finds another generation and returns.
- **Viewers and forgotten sources.** `StillInv` relates the two sides of a stream.
  `ViewersInv` says what a session holds on its way: the receiver in its hand belongs to
  its producer (`AttachLive`), a producer with a track or child is past its first two
  states (`TracksOK`), the producers yet to be started have the session as a child
  (`StartsOK`), and who failed or left is a child of nobody (`ChildrenOK`). `Served` then
  says that a viewer that is on is the child of a started producer, and `Watched` that a
  connected producer without children has a timer, a stop loop that has not passed it, or
  a session on its way to request a stop. Both are preserved because a step moves a
  session and a producer in one of nine ways (`Quietly`), each of which is a lemma; the
  proofs then are about the nine, not about all actions. The hypotheses are needed:
  with a lost connection the old senders move to the new connection and a viewer that
  leaves meanwhile is attached again, and a playback cancels the timer and arms none (section 6).
- **Binding.** `FailsClosed` alone is not inductive: after `WriteToken` of one
  actor another might write its binding. `Exclusive` says that whoever is inside
  the commit holds the flock, `Protocol` says what the files are at each of its
  steps (`auth` is `updating` from the first write to the last, `token` is the
  actor's from the second), and a crash leaves `updating`, which matches nothing.
  `TimerInv` adds to `SecretsAreTimed` that a waiting callback is past its
  deadline; the generation then protects newer secrets.
- **Supervisor.** `Informed` relates the position of the loop to what it has read:
  if what it read is no longer so, then a change is still `touched`. This needs
  the environment to be `Files`, and `BindingProofs!ImplementsFiles` is the proof
  that Binding is such an environment; so the two modules are treated
  apart and the claim holds for both together. `Emptied` says that startup is
  retried with no bridge running.
- **WarmController.** `Counted` ties the code's failure counter to the history
  `misses` at each position of the loop; `Quiet` says that a closed consumer has no
  process and accepts none (its `closed` flag is set under the lock that a tick takes).
- **Sender.** `OneWorker`: Start makes a worker only when `done` is nil, so at most one
  exists, and only it holds a packet. `Ordered`: output, the worker's packet, the queue and
  the packets still to come are one rising sequence. `Accounted` compares their lengths.
- **Waiter.** The mutex serialises the two halves of Done (`OneDone`); the group counts
  at most the one task that the first Wait added (`OneTask`), so it never goes below zero;
  the error is written once (`OneError`).
- **Registry.** `RequestsKnow` says what a request knows at each of its steps, `LockIsHeld`
  that one about to attach holds the lock and that the consumer it replaces is off,
  `PreloadWasMade` that the registry names requests that got so far. For the file,
  `OneAtATime` says that a request that met no other is the only one on its name,
  `WritesTheRegistry` that the query such a request is about to write is the one it made the registry's
  entry of, and `AgreesOrWrites` that a name on which nobody is about to write agrees or is `unsaved`.
- **RtspServer.** The two claims are inductive with the types alone: every exit of a handler
  takes the connection off the stream, as the code's deferred calls do, and a start that
  times out or fails ends its process with it.
- **WebRtc.** `ReleasedByAnswer`: who waits with the local candidates is released by the answer or by
  an error before gathering. `GathersWhenDescribed` says where a connection has both
  descriptions, `ContextIsDescribed` that the websocket's context names only such a one.
- **Hls.** `TimerInv`: a callback of the timer is past the map only when its session is out of it.
  `PacketInv`: what the segments took followed by what they would take now is 1, 2, ..., the
  number of packets written.
- **Rtsp.** `HandedOut`: unless a reconnect failed half way, the tracks handed out are set up on a
  connection that is set up, and a call that sets up has them done or before it. The client's
  mutex is what lets it hold between the requests of one call.
- **CommandAck.** `OneCommand`: `cmdAck` is the closure of the command that waits. An
  acknowledgement therefore brings down its own counter, and `CountedDown` says that a
  command that is not out of attempts has none or was acknowledged.
- **HomeKitPairing.** List, file and flag change in one critical section (`ListIsSaved`),
  so a restart reads what was. A handshake checks the list in the section in which it
  lets the controller in.
- **Srtp.** `NoSocketLeak` and `SessionsAreServed` are inductive together. That there is a
  number for the next socket, as the code needs none, follows by counting: readers and
  the open one hold fewer numbers than there are (`FreshExists`).
- **HomeKit.** `Serving`: a handler in the middle of a start serves the controller the session was
  offered by, or its connection was closed meanwhile. `Entries` counts: the starts of a session, its
  viewers and those who leave never exceed its entries in the list, so a DelConn has one to take.
  `StoppedIsQuiet` holds because the timer a first track makes is never made again: who pushes it is
  the open sender, or what is queued of the closed one, which only gets less.
- **Probe.** `RequestsKnown` says which threads may run at each position of `main` (none but the
  invite's after the wait for them), `LockedLate` that the lock comes after the listener was
  closed, and that with strict a stranger got no further than the accept; a lock is then a fact
  about the last two positions. Without strict a stranger may stream, and `MediaOnly` says so.
- **Marker.** `RenewedInTick`: in a tick without a start or an end, a source whose media flows leaves
  a new marker behind that a running source owns; so one tick later it is at most a tick old
  (`FlowLeavesMark`). `SureIsLive`: the tracker's last live round is the last round without a handover
  or a later one, and no later than the round that runs; `QuietIsStale`: it is no later than the end
  of the last source. A round subtracts the time of its top from both, which gives the two bounds.
- **Frames.** `Collecting`: a channel holds nothing or the first packets of one frame. It needs that
  the camera counts the frames of a channel, so that no two in one stream have the same number;
  the code compares nothing else. `Stamps` bounds every queued time by the clock that made it, and
  `QueueInv` says that the channel is the end of what was ever queued.
- **Certificate, Upgrade, Migration.** The invariants say for each position what is on
  disk: `Replacing` (the key first, then the certificate, both of the newest pair),
  `UpgradeInv` (what is about to be overwritten has its backup), `Progress` (how far each
  write got), `ReadTogether` (what a run read belongs together) and `LeftWithMarker` (what an
  interrupted run left belongs to what its marker names). A crash changes only the
  position, and the invariant of the new position is the weaker one.

Model-checked only:

- Liveness and refinement with fairness: `KeepsFairPromise`, `LoginsEnd`, `SettlesOrStops`,
  `WarmUntilStopped`, `BatterySleeps`, and the liveness half of each promise. They and
  ENABLED are out of the prover's reach.
- The safety halves of the other modules of the suites (`RtpVideo`, `Consumers`,
  `Rtmp`, `Accounts`, `Tutk`, `Dtls`, `Signalling`, `DirectMedia`, `Cameras`), whose invariants are not
  written yet. `Cs2` uses a recursive operator (`Cut`) and stays with TLC.
- `ArrivedIsQueued` and `ClockRuns` of `Frames`.
- The refuted properties, whose evidence is a counterexample.

## 5. What is left out

- **Everywhere:** cryptography, the bytes of codecs and containers, HTTP routing, rendering,
  validation of single settings, logging. `PROJECT.json` gives the reason per component.
- **Streams:** external and internal (pushed) producers, `SetSource`, `SetLinger`
  after a viewer came, sources whose offer changes between connections. Packets between a
  source and its viewers are `Sender`.
- **Binding and Supervisor:** loss of power that reorders renames (a crash is a
  process crash); two writes within one tick of the file's mtime.
- **WarmController:** SIGKILL is taken to end ffmpeg within the five seconds the
  code waits; an exception that ends the strategy thread is not modelled; the
  activity marker is its verdict, and how that comes about is `Marker`.
- **Suites:** a module of a suite sees the stream as a flag "is on it", and a peer as a set of
  answers. Where an unsynchronised field can be read torn or stale the modules take the outcome
  as a choice where a property depends on it, and the rest is listed in section 6.
- **Composition:** WarmController and Streams are joined by the meaning of
  `source` only, Supervisor and WarmController not at all, the parts of a suite not at all.
- **Not modelled:** camera discovery and the installation's own self tests, the HTTP API with configuration merging
  and the process around it, web pages, examples and packaging, devices of the operating
  system (v4l2, alsa).

## 6. Seen while modelling

Where the code does something that a property had to be weakened for, or that a reader of the
code should know, it is noted here. None of these is kept as a run; the modules contain the
behaviour, and the properties say what holds in spite of it.

**Streams.**
- A playback cancels the linger timer and nobody arms it again: a warm source stays connected
  without readers (`play.go:125`). `ForgottenAfterPlayOnly` proves that nothing else does this
  while no connection is lost.
- With a reconnect a source is forgotten in two ways. The new connection gets every sender of the
  producer, also the backchannel of a viewer that left (`producer.go:227-232`). And a viewer
  that leaves between the two halves of `MoveNode` (`node.go:75-88`) is attached again.
- Two viewers that leave together close the source without its window (`stream.go:104`).
- `add_consumer.go:15` indexes `producers` by a count that an unlocked change may have outdated.

**Binding, Supervisor, WarmController.**
- Two saves interleave between writing the settings and publishing the staged token
  (`setup_wizard.py:477-483`): the first camera is bound under the second one's settings. The bridge
  then waits for a login (it fails closed).
- An alarm that came as a push is new to the poller when pushes stop, and is answered twice
  (`ezviz_warm_controller.py:594`).
- An alarm in the activity grace starts ffmpeg and the same round stops it though the source is
  cold (lines 626-631). The camera is kept awake within the grace although its stream has
  ended (line 635).
- A round takes its `now` at its top (line 478) and judges the marker with it after its cloud calls
  (lines 395, 491, 550, 587, 625), which wait up to 15 seconds each: a stopped source is believed
  longer than the grace by that much, and a handover in a round that comes later than the grace after the
  one before is not masked. `StopIsSeen` and `HandoverIsMasked` have these terms (`stale`).

**Registry.**
- A preload that fails to be added again after its old consumer was removed leaves neither
  (`preload.go:44`). One that failed at the start stays in the configuration and cannot be deleted
  (`preload.go:62`, `api.go:165`). A publish loop ends on its first failure to find the stream.
  `api.go:101` deletes from the map of streams without its mutex.
- A PUT without a query keeps "video&audio" in the registry (`preload.go:22`) and writes an empty query
  to the file (`api.go:160`), of which the next start makes the same preload. Two requests that overlap on
  a name may change the registry in one order and write the file in the other; the two then differ
  until the next request. `PreloadIsSaved` is about what the next start would make, and excepts the names last
  written by requests that overlapped.

**Media primitives.**
- `Waiter` wakes those who wait before it stores the error (`waiter.go:45-54`), so
  `internal/webrtc/client.go:93` may see none. `Worker.Stop` before the first run is lost
  (`worker.go:48`).

**RTSP and child processes.**
- A reconnect that fails after its dial leaves the tracks of the old connection without
  one (`producer.go:131`, the history `halfway` of `Rtsp`).
- A process that connects after its start timed out keeps its connection until it ends by itself
  (`exec.go:49-56`).

**WebRTC and HLS.**
- An offer that fails after its consumer joined leaves it on the stream until the peer connection
  closes (`webrtc.go:202`, `:223`, `ExchangeSDP` at 271 and 291).
- A TS session of HLS may return a segment that holds its header only.

**HomeKit.**
- A stop makes the timer due and then closes the senders; the packets that are queued by then are still
  drained and push the timer again (`consumer.go:146-148`, `:185`, `track.go:143-148`), so the viewer's
  goroutine may leave one deadline later.
- An `End` for a session that is still being started is lost (`server.go:290`). The proxy to another
  accessory can wait for itself (`pkg/homekit/proxy.go:89`). A reader of the SRTP
  server may use a connection that was just set to nil (`server.go:44`; `panicked` in `Srtp`).
- A verified connection stays open when its controller is removed.

**CS2, TUTK, DTLS.**
- An acknowledgement of CS2 carries no command number (`cs2/conn.go:164`): a late one confirms the
  next command. `DoneIsConfirmed` therefore says that *an* acknowledgement came.
- `session16.go:222` may join the chunks of two frames; `session25.go:86-91` keeps a chunk that
  came after its number was passed until the numbers wrap.
- The deadline of wyze is overwritten by the dial's (`conn_dtls.go:660`); `clientConn` is read
  without its lock (595); the UDP socket is written without an address (371).
- The frame handler: frame number 0 never completes; a doubled first packet costs its frame; a
  doubled frame of one packet is delivered twice; an overtaken frame makes the clock jump by about a
  second; sound in several packets would deliver its last piece only.

**RTP.**
- Aggregation packets of H.265 may exceed the MTU by 2 bytes, and the repository's own `RTPDepay` does
  not split them (type 48). An H.265 SEI with the marker returns without taking its sequence
  number, so the keyframe after it is dropped (`h265/rtp.go:28-46`). The packet that shows a gap is
  dropped as well. The depacketizer of H.264 does not look at sequence numbers.

**Dials of WebRTC cameras.**
- The peer connection is never closed on an error by kinesis, openipc, whep, creality, milestone,
  nest and webtorrent. A bad answer does not end the dial of kinesis (`kinesis.go:150-163`). An error of
  ring's socket before its handlers are set is lost (`client.go:126-139`), and its Close sets
  `closed` before it would send "close". tuya's Init failing in WakeUp leaves MQTT reconnecting; its
  handlers publish within the MQTT callback. Nobody limits the wait for an other side that
  stays silent.

**Accounts.**
- ring: `Request` reads the token outside the mutex and may find none after another request's
  refusal; a late refusal throws a good new token away; `Using2FA` is never reset; `onTokenRefresh`
  is never set. A source whose client has no valid token gets a new client that begins with the refresh
  token of the URL (`api.go:178-208`, `client.go:56`), however many tokens the clients before it
  were given. An answer that is lost after the cloud granted a new token leaves the client with the old
  one. `LatestIsKept` is about what one client, and what two together, may not do. nest: after a refusal the cached client gives the same token again; its mutex is held
  over HTTP; the extension timer fires once and all devices share its fields. xiaomi: the cached
  cloud is never renewed; its global `auth` and wyze's map have no mutex.

**Cameras.**
- tapo's Dial has no deadline, and when talking is asked for first it gets two readers. A request reads its
  answer with a buffered reader of its own that is dropped with what it read ahead (`client.go:283`, `:186`):
  packets that came with the answer are lost (`skipped`; `InOrder` and `AllOfIt` are about the rest). An answer
  without an ID is no error, and a later request then reads beside Start. A talk track that was refused is
  asked for again with a new second connection, and the first stays open (`backchannel.go:13`, `:39`;
  `leaked`), as does one whose request fails in `newConn`. A dial of tapo, kasa, dvrip, bubble, eseecloud, doorbird, and of http,
  rtmp, flv and mpegts that fails later leaves its connection open. isapi may be stopped while it opens.
  multitrans does not notice a lost connection. dvrip fails its probe on a camera that is silent, and
  counts what it sends only on an error. gopro's worker waits for ever after Stop. roborock may lose its
  `connected` signal (`client.go:120-126`, `:174-199`).
- mjpeg joins two images when one read ends the first and brings all of the second; the MPEG-TS
  demuxer refuses an adaptation field of 183 bytes.

**Viewers that are written to.**
- `Muxer.AddTrack` of mpegts may change its map while a sender reads it, in spite of the comment at
  `muxer.go:44`; that of mp4 may lose what `GetPayload` just counted. A Close before WriteTo is
  forgotten. A viewer of a silent source is noticed at the next write only. Frames from before WriteTo are
  written in one piece (`writebuffer.go:92`), which joins messages of a websocket. A second "mse" request
  mixes fragments of two muxers. Stamp 0 means "none yet" in flv and mpegts, so sound and video lose their
  offset. The snapshot cache takes its time after transcoding and ignores the size.

**RTMP.**
- The server does not close the connection on an error, and the client has no deadline for the
  answer. A frame at exactly 0xFFFFFF ms (4 h 39 min) makes the reader lose its place. A packet size that is
  announced during streaming is not taken. Chunks of two messages may not alternate.
- The tags that a viewer's or publisher's muxer made between AddConsumer and WriteTo are flushed in one
  write (`writebuffer.go:63`), of which `Conn.Write` makes one message (`flv.go:89-96`): the first tag with the
  headers and payloads of the others behind its own payload. `TagsArrive` is about messages for that reason.

**Tools and the direct source.**
- An import that dies while it takes back what it wrote leaves a volume that neither tool accepts
  (`torn` in `Migration`). Two processes that initialise a configuration at the same time make two identities.
  Removing the old directory after half a migration lets the bridge start with a new identity.
- The deframer does not ask for a session frame before media. A late callback of an earlier attempt is
  taken for media and refused only by the alignment of its bytes. Without `--strict-camera-ip` whoever connects
  in time and sends frames of the private protocol is taken for the camera (`OnlyMedia` says with strict).
- A call of openssl that fails while a good certificate is checked has it made anew (`CheckFails`). An answer to the invite in its last second is
  ignored, and with the network lock the source then exits with 4. A `feed` that raises loses the fragments of that call.

## 7. Plan

Done, in order of importance: `Streams`, `SourceUse`; `Binding`, `Files`; `Supervisor`;
`WarmController`; then the suites of transports, servers, HomeKit with the viewers, and tools with
the cameras; theorems about all four core modules and about seventeen modules of the suites.

Next:

1. Theorems for the safety halves of `Tutk`, `Rtmp`, `Signalling`, `Accounts` and `Cameras`, and for
   `ArrivedIsQueued` of `Frames`.
2. `Cs2` with `Cut` as a function, so that its refinement of `Channel` can be proved.
3. External and internal producers in `Streams`.
4. A composition of `WarmController` with the reader-counted raw stream that `Streams` implements.

## 8. Running

```
tlc -workers 2 -config viewers.cfg MCStreams.tla      # likewise sources, closed_under_reader
tlc -workers 2 -config binding.cfg Binding.tla        # likewise supervisor, warm_*, window_not_extended
tlc -workers 2 -config servers.cfg MCServers.tla      # likewise transports, homekit, tools
tlapm StreamsProofs.tla                               # likewise the other *Proofs modules
```

`PROJECT.json` names the module of each configuration, and for every property a
change of one definition that TLC must find (the operators marked "Mutant").
Each run takes from some seconds to about three minutes.
