# A TLA+ model of jetson-ros2-perception

This directory holds TLA+ specifications of the program in this repository, the
TLC configurations that check them on small instances, and theorems about them
that TLAPS proves for every instance. `PROJECT.json` lists the runs, the mutants
that show what every property would catch, the lines each definition stands for,
the findings and the hazards; this file explains them. Paths are relative to the
repository: the ROS packages are under `src/`, so that the camera driver is
`src/jetson_camera/src/argus_camera_node.cpp`.

To check: `tlc -config CameraSafety.cfg MCArgusCamera.tla`; to prove:
`tlapm ArgusCameraProofs.tla`.

## 1. The system

A CSI camera on a Jetson is driven through GStreamer and NVIDIA's Argus daemon,
its images are published on ROS 2 topics, a TensorRT network detects objects in
them, and a console shows the video in a browser, records bags, and reads and
writes a CAN bus.

    nvargus-daemon -- argus_camera_node --/image_raw--> trt_detector_node --> detections, overlay
                              |
                              +--/image_raw/compressed--> operator_console <--HTTP--> index.html
                                                           |        |
                                                 ros2 bag record   can0

| Component | State it keeps | Operations | Hard behaviour | What makes it correct |
|---|---|---|---|---|
| Camera driver `argus_camera_node.cpp` | pipeline and appsink; `running_`, `unrecoverable_`; the loop's counters of frames, empty seconds and fruitless rebuilds | construct, pull, watchdog, rebuild with backoff, give up, `stop()` | three threads (main, capture, finisher), daemon calls that may never return, five-second deadline, crash and restart of the daemon | publishes or exits; no two threads on the pipeline; drops every warm-up; gives up when and only when it should; terminates; rests between sessions, and its exit code tells supervisors the truth |
| nvargus-daemon (external) | sessions of the processes it serves, its socket | serve, reclaim, crash, wedge, be restarted | failures seen as silence, an ended stream, a refusal or a crash of the client; sessions reclaimed slowly; a restart is a new socket, which a container does not see | environment of the driver |
| Detector `trt_detector_node.cpp` | `latest_frame_` under `frame_mutex_`, engine, buffers, CUDA stream | load, callback, worker loop, destructor | condition variable, newest-frame slot, asynchronous GPU, unchecked return codes | no lost wakeup; detections and overlay under their own frame's header; order; nothing used that is not owned; destructor returns |
| Postprocessing `postprocess.cpp` | none | decode, suppress | ties of an unstable sort, thresholds at the boundary | nothing reported twice, nothing lost, nothing in the letterbox's border |
| Console: recording | `state.recording`, a process | start, stop, exit | one thread per request, lock released between check and act, processes that ignore SIGTERM | one recorder, owned by somebody, every stop answered |
| Console: live view, and `index.html` | newest frame and its number; subscription; time of the last request; the page's pumps | frame arrives, timer, long poll, Stop live, Go live | timer against requests, expiry of a long poll, two pumps on one image element | viewer keeps the stream, camera is relieved of it, view moves |
| Console: CAN reader, sender, codec (`canutil.py`) | status, history, counter; a socket per reader and per request | read, reconnect, stop; send; pack and unpack a frame | an interface that comes and goes under open sockets, full queues, loopback, ranges of identifiers | history in the order of the bus; frames shown as asked for; an error means unsent; the reader recovers and ends |
| Measured rates: `report_rate`, `record_timing`, the console's `publisher_hz` | a count, a time, the last rate | count a frame, report, show | a clock that is stepped, restarts of either side | a report is off by the clock steps of its own interval at most; the shown rate converges |
| Console: status, snapshot, telemetry | none of its own | read `/proc`, `/sys`, write a file | stale frame | not modelled, but for the rate |
| Launch and supervision (`camera.launch.py`, systemd) | lives of the driver | respawn after 15 s, stop, relaunch | sessions left in the daemon by a killed driver | never outruns the daemon's cleanup; the camera comes back once the daemon is up and in sight |
| Containers, CI, on-target tests | none, but for the mount of the daemon's socket | recreate | a mount that outlives the socket it was made from | read as evidence |

They interact through ROS topics with best-effort, newest-first quality of
service (a frame may always be lost and none is repeated), through HTTP, through
signals to child processes, and through exit codes to supervisors.

The hazards, each at its line and with the properties that would catch it, are
in `PROJECT.json`.

## 2. Modules

| Module | Models |
|---|---|
| `ArgusCamera` | one process life of the driver, with daemon, sensor and signals as environment |
| `CameraClock` | `ArgusCamera` with a clock beside it: the seconds without a sample |
| `MCArgusCamera` | the sets of faults its runs inject |
| `ArgusCameraProofs` | the invariants, the refinement of `CameraLife` and the limit on the clock, proved |
| `CameraLife` | abstract: what one life of the driver promises to the daemon and to the supervisor |
| `CameraStack` | lives of the driver one after the other, launch, the daemon and its sessions, the operator |
| `CameraStackProofs` | its invariants, proved |
| `RateReport` | the rates driver and detector measure and the console shows |
| `MCRateReport` | how far the clock is stepped in its run |
| `RateReportProofs` | `NeverOverstates`, proved |
| `FrameSampler` | abstract: a stage emits a subsequence, in order, of what arrives |
| `Detector` | loading, callback, worker, GPU stream and shutdown; implements `FrameSampler` twice |
| `MCDetector` | which frames have a foreign encoding |
| `DetectorProofs` | its invariants and the refinement, proved |
| `RecordControl` | recording requests, console exit, recorder processes, disk |
| `RecordControlProofs` | its invariants, proved |
| `LiveView` | the on-demand subscription, the long poll and the page's pumps; implements `FrameSampler` for an unhurried user |
| `LiveViewProofs` | its safety properties and the refinement, proved |
| `Postprocess` | letterbox, decoding and non-maximum suppression of one network output |
| `MCPostprocess` | the boxes and image sizes its run enumerates |
| `PostprocessProofs` | suppression and the letterbox's paddings, proved |
| `CanFrame` | the codec of `canutil.py` |
| `CanBus` | the CAN reader and the requests that send, over an interface that fails; implements `FrameSampler` |
| `MCCanBus` | the requests and frames its run uses |
| `CanBusProofs` | the codec's round trip, the invariants and the refinement, proved |

Definitions named as a "seeded fault" are not part of any specification. Each is
a plausible bug in the definition after it, and `PROJECT.json` "mutants" says
which property catches it.

### 2.1 ArgusCamera

Steps are the stretches between two blocking calls of a thread, because between
them nothing that another thread reads can be seen half done: the exceptions,
where flags are written one after the other (lines 228-237), are separate steps
(`FinalCheck`, `Declare`, `ShutsDown`). `main` follows lines 408-429, `cap` lines
157-238, `fin` the lambda of `stop()` (358-365).

- `PullSample`, `PullStalls`, `PullWedged` and `PullInterrupted` are one turn of the
  capture loop for each outcome of `try_pull_sample` and of the tests after it.
  `CapTearsDown`, `BackoffWakes`, `Rebuilt` and `RebuildThrows` are
  `rebuild_pipeline` at each place where it can block or be interrupted.
- `SpinReturns` is the way from `rclcpp::spin` into the destructor; `StopReturns`
  and `StopForced` are the two outcomes of the wait with a deadline (367-376).
- Time is in seconds, one `Tick` each, and cannot pass over a step that is due.
  The code counts in seconds throughout: a pull waits one, the watchdog counts
  empty pulls, the backoff sleeps one at a time, `stop()` waits five.
- `feed` is what the pipeline yields. A pipeline opened while the daemon is not
  within reach is accepted and stays silent, which is what lines 214-216 and 60-62
  describe, or is refused ("refuse"), for which `start_pipeline` throws (129-148), as
  it may with a healthy daemon. A session that was lost is silent until, if ever, it
  reports its end (`StreamEnds`), for which the loop does not wait out its stall
  limit (192-198).
- A restart of the daemon is a new socket. A container's mount of the old one
  (`docker/run.sh:92`) still leads to it (`orphaned`), until an operator recreates the
  container: `docs/runbook.md:119-123`. On the host it does not happen.
  `LibraryCrashes` is a client library that takes the process down with the daemon
  (`PROGRESS.md:686-687`).
- `Publish` is `publish`: it gives a sample whose buffer is absent or cannot be
  mapped ("unreadable") up without a word to the loop. `fresh` is set if a frame
  was published in the current second, for `PublishesOrExit`.
- `exitCode` is what `main` returns, or the 1 of `std::_Exit` (`how = "forced"`).

`CameraClock` adds `silent`, which no part of the program reads: the seconds since
the last sample. It turns "the node never idles" into a number. `Patience` is what
the stall limit, two calls and the backoff of every rebuild add up to, with the last
session's stall and one more teardown. No run has this module, because the theorem
about it says all; TLC agrees for `ClockSpec` with the constants of `CameraSafety`, and
finds that one second less is violated.

### 2.2 CameraLife and CameraStack

`CameraLife` is what the outside sees of a process: a session is opened at the
start or after a rest of two seconds, an exit code of 0 means that it was asked to
end and left no session, and a process that failed to start or was cut off may
leave one. `ImplementsLife` at the end of `ArgusCamera` is the mapping: the life is
"serving" while a pipeline is open and "resting" during the backoff, whose seconds
`LifeRested` counts.

`CameraStack` takes such lives, one after the other, as the parts of a system.
`launch` is the launch process (`SeesExit`, `Starts`, `StopsStack`), `dirty` the
seconds the daemon still needs to reclaim what was closed or left in it, and `link`
what it made of the present session: one that is opened while `dirty` is not 0 is
"half" created, which `camera.launch.py:34-37` and `argus_camera_node.cpp:242-244`
describe and try to avoid. `FailsToStart` leaves what the half-built pipeline had of a
session behind, also when it was a healthy daemon that refused. `Relaunches` and
`RestartsDaemon` are the operator, who keeps two rules of `docs/runbook.md`: not to
relaunch after an unclean exit before the daemon was restarted (`owed`), and to create
containers anew after a restart (`Relaunches` resets `orphaned`; respawn does not).
A relaunch takes `LaunchSeconds`; without them it could outrun the daemon's cleanup
after a clean exit, to which the rule does not apply.
The guards that `CameraStack` adds to a life's steps are what
`ArgusCamera` does: the watchdog closes no session that yields frames, and only a
wedged daemon forces an exit (`ForcedOnlyIfWedged`).

### 2.3 Detector

The main thread loads the engine, executes the callback while it spins, and then
the destructor. `owned` is what `load_engine` has acquired: it throws with a prefix
of its resources (`ConstructThrows`), or returns with all of them, except that the
execution context, the one whose pointer nobody tests (159), may be null; the
first frame then ends the process (`CrashesOnNull`).
Steps of the worker are those between which the other thread or the GPU can act:
it holds `frame_mutex_` from "lock" to the wait (`EvaluatesPredicate`, then
`FallsAsleep`, in which the mutex is released and the thread starts waiting in
one step, as a condition variable does) or to the end of the block (`TakesFrame`).
A buffer holds the number of the frame its contents come from, so that the
asynchronous batch (240-245) moves numbers, and a failed operation, whose code
nobody reads, moves none. `out` is the last detections published, `overlay` the last
picture they were drawn into (if somebody subscribed): the frame that the header
names, the frame the contents come from, and whether an operation had failed.

### 2.4 RecordControl

`Threads` are the requests of the browsers, each of which has one in flight, and
the main thread with `destroy_node`. Each critical section of `state.lock` is one
step and what happens between two of them is others': in `start_recording`
`ChecksRunning` (354-356), `ChecksDisk`, `Spawns` or `SpawnFails`, and
`PublishesRecorder` (368-371); in `stop_recording` `TakesRecorder` (375-377),
`Terminates`, and `SeesExit` or `Kills`. `overlapped` records that two requests
were ever in progress at once. Recorders end by themselves at any time, on
SIGTERM in their own time or never.

### 2.5 LiveView

Time is in half seconds, of which all of the code's periods are multiples: the
long poll holds 3, a viewer is forgotten after 10, the timer fires every 2, the
page retries after 1. Requests are the page's pumps, each with one in flight:
asking, held, answered, body, loading. A response's headers and body are
separate awaits, and so separate steps; the image element has one pair of
handlers, those of the pump in `onload`. `ShowsInOrder` is the mapping to
`FrameSampler`: what arrives is counted by `seq`, what is emitted is on the screen.

### 2.6 Postprocess

One frame's way from the tensor to the detections. A detection is the number of
its anchor, so `dets` is a sequence of numbers, and `removed` and `kept` are sets
of positions in it, as the code's `removed` is and its `kept` copies.
`Letterboxes` is process() up to line 225, `Sorts` decodes and sorts, `Visits` is
one turn of the outer loop of nms with its inner loop, `Returns` its end. The
sort may leave equal scores in any order: `std::sort` promises no more. Image
coordinates count 1/1280 of a pixel (1/(2 * InputSize)), in which every value the
code computes is whole, except that the two products it truncates to int may have
been rounded below a whole number first (`Scaled`).

### 2.7 CanFrame and CanBus

An identifier is the integer that a caller asks for, cut where the code's masks
cut it: the three flags, the bits only an extended identifier has, and the eleven
bits every identifier has. `build_can_frame` ors the flag in and masks nothing;
`parse_can_frame` masks by the flag it finds. An identifier that is negative or
needs more than 32 bits is "wide", and packing it raises `struct.error`.

`reader` is where `can_reader` stands: before its test of the event and `bind`
("open"), in its pause, in `recv`, or in a `recv` that will raise ("failing").
Each of `OpensSocket`, `PauseEnds`, `ReaderStops`, `ReceivesFrame`,
`ReceiveTimesOut` and `ReceiveFails` is one way around its two loops, up to the
next call that can block. A request (`pc`) is received, bound, and answered or
dropped; between `bind` and `send` the interface may go down under it.

The environment is SocketCAN as this code uses it (external in the map): `bind`
fails without an interface, succeeds on one that is down and then raises at the
next call; an interface that goes down flushes its transmit queue and leaves an
error pending in every bound socket; a frame that was transmitted is echoed to the
other sockets, once more if the controller is in loopback mode; a socket whose
queue is full loses what arrives. Frames are numbered as they arrive at the
interface, and an entry of the history keeps its number and sender beside the
row that is displayed, so that the properties can speak of both.

### 2.8 RateReport

A `Tick` is a frame period of the sensor, so that the true rate is one. `camera` and
`detector` are the counter and the interval of `report_rate` and of `record_timing`:
`Measured` is both, because they differ in their clocks only (`now()`, which is
system time and can be stepped by `ClockSteps`, and `steady_clock`), and in the
medians the detector logs beside its rate. The time of the last report is kept as
the time since it (`since`) and what the clock was stepped since then (`stepped`).
`Captures` is a sample past the warm-up, which is counted although `publish` may give
it up (182-183), `Processes` the end of the detector's `process`, `shown` what the
console's `_on_rate` has stored.
`Restarts` is a restart of any of the three, which forgets its part and no other.

## 3. Runs

All are exhaustive. A run that must find a violation has no properties beside
the one it refutes.

| Run | Bounds | Shows |
|---|---|---|
| `CameraSafety` | stall limit 2, 2 rebuilds, 2 warm-up frames, calls of at most 2 s, outage at most 3 s, 2 crashes, every fault | `OneThreadOnPipeline`, `NoWarmupPublished`, `ForcedOnlyIfWedged`, `GivesUpUnlessRefused`, `ImplementsLife`, `ShutdownTerminates`, `SamplesOrExitUnlessWedged` |
| `CameraOutage` | the code's defaults (5 s, 10 rebuilds), one outage of up to 79 s, every fault but stalls, ends of a live stream and wedges | `RidesOutOutage` |
| `CameraWarmupCycle` | stalls only, no crash | violates `PublishesOrExit` |
| `CameraStack` | 2 s to reclaim a closed session, 15 s to reclaim one whose process is gone, 2 s for a relaunch, 3 faults, any number of stops, wedges and lost sockets | `NeverOutruns`, `Recovers` |
| `RateReport` | interval of 2 frames, gaps of 1, 2 restarts or steps of the clock (2 back, 3 forth), counts up to 8 | `NeverOverstates`, `RateConverges` |
| `Detector` | 4 frames, the second of a foreign encoding | `NoLostWakeup`, `ResultsMatchHeader`, `NoUseUnowned`, `SamplesStream`, `FrameIsTaken` |
| `DetectorShutdown` | 1 frame | violates `ShutdownCompletes` |
| `RecordControl` | 2 browsers, 2 recorders, disk of one unit | `OneOwner`, `SerialRequestsAreSafe`, `StopIsAnswered` |
| `LiveView` | 2 frames, 2 pumps, 1 failure, transfers of at most half a second | `CameraIsRelieved`, `FreshWhileStreaming`, `ViewerKeepsStream`, `ShowsInOrder`, `ViewMoves` |
| `LiveViewHasty` | the same, no failure, Go live at any time | violates `ViewMoves` |
| `Postprocess` | input of 6 pixels, 3 anchors, 4 boxes, 2 classes, 3 scores, a square and a wide image | `NoDuplicates`, `NothingLost`, `NothingInBorder` |
| `CanBus` | 1 request of 9 kinds, history of 2, transmit and receive queue of 1, 3 arrivals, frames of 1 byte | `NewestFirst`, `SamplesBus`, `EchoMatches`, `ErrorMeansUnsent`, `ReaderRecovers`, `ReaderEnds`, `SendIsAnswered` |

Why the bounds are enough. In the camera two crashes are one outage and one more
while the first rebuild is in progress; two rebuilds are the first, whose backoff
is 2 s, and one that finds the counter at its cap; two warm-up frames are one that
is dropped and one that is dropped last. The bounds on a call (2 s) leave two
consecutive calls within the five seconds of `StopDeadline`, and that is the claim
of `ForcedOnlyIfWedged`; with 3 s it fails, as the theorem's assumption says. In
the detector four frames are one in process, one superseded, one in the slot and
one arriving. Two browsers and the exit of the console are three ways to overlap;
two recorders are what one `state.recording` cannot hold. In the live view two
pumps are the stopped and the started one.

The outage of `CameraOutage` is as long as can be: the rebuilds of sessions that end
at once are their backoffs apart (2, 4, 6, 8, then 10 s), 80 s in all, and for an outage
of 80 s TLC finds the run that gives up. The source says "roughly a minute" (62), and
8 s for what was observed (61-62). Three kinds of fault are left out. A wedge ends no
outage. Stalls and ends of stream of a live sensor use up rebuilds of their own, before
the outage or after it, so that no length of an outage is short enough; how long
they may keep the node without a sample is the question of `InTimeTheorem`.

In `CameraStack` the times of the daemon are the longest that the code's waits
cover: `NeverOutrunsTheorem` assumes no more, and says the same for any number of
faults. Three faults are one that interrupts what follows another, twice: a death
during the recovery from a crash, a refusal under a healthy daemon, a crash of the
daemon under the next life. In
`RateReport` a step forth is longer than the interval and a step back as long as
it, and two mishaps are a step and its correction, or a step and a restart; eight
is four intervals, and more than an interval and all steps together, so that no
count is cut off before it is reported.

In the postprocessing three anchors are a chain of boxes whose outer two do not
suppress each other, which is the case in which greedy suppression is not the
obvious one; the fourth box lies in the border of the wide image.

On the CAN bus three arrivals overflow a history of two, and a queue of one
overflows with the second. The nine requests are a frame of each kind, each way
of being out of range (too large for a standard frame, carrying the flag itself,
wider than 32 bits), each way of being refused before it reaches a socket, and a
body that is no object.
Requests meet each other in the transmit queue only, where frames of another
program on the board stand for those of a second one.

Deadlock checking is off for `RecordControl`, where the console and its recorders
may all have ended, and for `Postprocess`, a function that returns. The camera's and the
detector's ends are states with an explicit stuttering step (`Exited`).

### Fairness

Weak fairness of every thread says that the operating system runs it, of `Tick`
that time passes, of `DaemonRestarts` that systemd restarts the daemon
(`Restart=` is the premise of lines 60-62), of `ManageImageSub` that the executor
fires its timer, of launch that it respawns, of `Captures \/ Misses` that every
frame period ends with or without a frame, of a pump's steps that transfers end, and of `Gpu` that the
stream drains, of `Reader` and `Handler` that the console's threads run: the pause
and the timeout of a socket end. Nothing in the environment is fair that could
save the code: no frame has to arrive, no fault or signal has to come, a wedged daemon never comes
back, a recorder need not die of SIGTERM, no spurious wakeup has to come, the CAN
interface need not come up and nothing on it has to be transmitted, nobody has to
restart a wedged daemon, stop the stack, start it again or recreate a container, no
clock has to be stepped back. The steps of a life in `CameraStack` are fair together, as long as its
session has no frames: that a life does not idle over such a session is what
`SamplesOrExitUnlessWedged` and `ShutdownTerminates` check of `ArgusCamera`.

## 4. Findings

- **Rebuilds that yield warm-up frames only go on for ever** (`CameraWarmupCycle`).
  The counter that caps fruitless rebuilds (214-216) is reset by any sample, also by
  one that the warm-up drops (173-176): a sensor that stalls within the warm-up of
  every session keeps the node up and publishing nothing, the zombie of 228-232.
- **A refused rebuild ends the node.** `max_rebuilds` is documented as
  the number of consecutive fruitless rebuilds (59-62). A rebuild whose
  `start_pipeline` throws leaves the loop at once (217-221, 253-262).
  `GivesUpUnlessRefused`, which `CameraSafety` checks, is what holds; TLC violates
  `GivesUpAfterMaxRebuilds` in the same model.
- **A wedge inside the watchdog's teardown leaves a zombie.** Only
  `stop()` has a deadline; the capture thread's own teardown (246, 268) has none, and
  nothing then shuts the node down (228-232 say why it should).
  `SamplesOrExitUnlessWedged`, which `CameraSafety` checks, is what holds; TLC
  violates `SamplesOrExit` there.
- **In a container no retry outlives a restart of the daemon.**
  Lines 59-62 and 209-211 and `docs/runbook.md:126-127` say that the rebuilds cover one;
  `docs/runbook.md:119-123` and `PROGRESS.md:682-685` that a container talks to an
  orphaned socket until it is recreated. There neither the rebuilds nor launch's
  respawn (`camera.launch.py:31-32`), which starts the next life in the same container,
  bring the camera back: an operator has to. On the host they do. `RidesOutOutage` and
  `Recovers` say what holds for a driver that sees the daemon; without their exceptions
  (`orphaned`) TLC violates both, the first after an outage of 8 s.
- **The detector's destructor can hang** (`DetectorShutdown`). `running_` is
  cleared and the worker notified without `frame_mutex_` (128-129), between the
  worker's test (189) and its sleep.
- **Two overlapping starts run two recorders.** The check and the
  store are two critical sections (354-356, 368-371). `SerialRequestsAreSafe`, which
  `RecordControl` checks, is what holds; TLC violates `OneRecorderRuns` alone.
- **Stop live and Go live in one round trip can freeze the view**
  (`LiveViewHasty`). A pump tests its id only at the head of its loop
  (`index.html:209`), and the old one sets `img.onload` over the new one's. Nor is
  the order of frames safe then: with `Hasty = TRUE` TLC also violates
  `ShowsInOrder`, when the old pump displays the frame it had fetched before.
- **Equal scores make the order of the input matter** to nms (`postprocess.cpp:46-48`
  against `postprocess.hpp:35-36`). No run is needed to see it; the properties of
  `Postprocess` are those that hold in every order.
- **An identifier that does not fit is not answered** (`console_node.py:219-223`).
  `can_send` says that it returns an error string, and catches `ValueError` only:
  `struct.error` ends the handler (`HandlerDies`).
- **A snapshot may be old** (`console_node.py:388`). README.md:137 speaks of the
  current frame; what is written is the newest one stored, and it survives the end
  of the subscription.
- **SIGTERM may leave an empty bag** (`console_node.py:379`). The comment says that
  rosbag2 then closes the file cleanly, `PROGRESS.md:641-645` that it finalises its
  database only on SIGINT. `RecordControl` has processes and no files.

Beside these: "every response is a fresh frame" (`console_node.py:566-568`,
`index.html:204-206`) holds while frames arrive (`FreshWhileStreaming`); a long
poll that expires is answered with the frame the page has, which the page counts
in its displayed rate. While the CAN interface exists but is down, `can_reader`
binds, fails and binds again without its pause (`console_node.py:200-203`), as the
cycle of `OpensSocket` and `ReceiveFails` in `CanBus` shows; nothing in the
repository says that it should wait there. An identifier beyond eleven bits in a
standard frame is sent masked, not refused; `EchoMatches` is stated for those
in range. A request whose body is JSON but no object is not answered either
(`AttributeError` at line 535, outside of what the `try` catches), and
`SendIsAnswered` is stated for objects. A step back of the system clock makes the one
report of its interval promise too many frames, because `report_rate` divides by what
the clock shows (297-307): `NeverOverstates` says that it is by no more than the step and
never in a later interval.

## 5. Proofs

Type correctness and the safety properties below are proved for all values of
the constants that satisfy the named assumption of the module (`CameraConstants`,
`StackConstants`, `RateConstants`, `DetectorConstants`, `RecordConstants`,
`LiveViewConstants`, `PostprocessConstants`, `CanFrameConstants`, `CanBusConstants`): the constants are natural numbers or
sets of the right kind, and some are not 0.

| Theorem | Says |
|---|---|
| `ArgusCameraProofs`: `TypeCorrect`, `WarmupTheorem`, `OneThreadTheorem` | the runs' properties, for every set of faults |
| `PullsOpenPipelineTheorem`, `ExitZeroTheorem` | the loop never pulls from a null appsink; exit code 0 means a signal and a released camera |
| `LifeTheorem` | `ArgusCamera` implements `CameraLife` |
| `RefusalTheorem` | `GivesUpUnlessRefused`, for every set of faults |
| `PatienceTheorem` | `GivesUpAfterMaxRebuilds`, if the environment does not refuse (`"refuse" \notin Faults`), which is needed |
| `DeadlineTheorem` | `ForcedOnlyIfWedged`, if two daemon calls fit into the deadline |
| `OutageTheorem` | `RidesOutOutage`, for one outage shorter than all backoffs together (`Outlived`), which is needed |
| `InTimeTheorem` | `SamplesOrExitsInTime`: while the daemon's calls return, no more than `Patience` seconds without a sample, for every set of faults |
| `CameraStackProofs`: `TypeCorrect`, `NeverOutrunsTheorem` | no session is ever half created, if the daemon reclaims a closed session within the rest of `rebuild_pipeline` and the time of a relaunch, and that of a dead process within the delay of launch (`WaitsSuffice`) |
| `RateReportProofs`: `NeverOverstatesTheorem` | `NeverOverstates`, for any interval, steps of the clock, gaps and number of restarts |
| `DetectorProofs`: `TypeCorrect`, `NoLostWakeupTheorem`, `NoUseUnownedTheorem`, `ResultsMatchTheorem` | the runs' properties, for any number of frames |
| `SamplerTheorem` | `Detector` implements `FrameSampler`, with its detections and with its overlay |
| `RecordControlProofs`: `TypeCorrect`, `OneOwnerTheorem`, `SerialTheorem` | the run's safety properties, for any number of browsers and recorders |
| `LiveViewProofs`: `TypeCorrect`, `CameraIsRelievedTheorem` | the run's invariants, for any number of pumps and frames |
| `FreshWhileStreamingTheorem` | `FreshWhileStreaming`, however hasty the user |
| `ShowsInOrderTheorem` | `LiveView` implements `FrameSampler`, if Go live waits for the last pump to end (`~Hasty`) |
| `ViewerKeepsStreamTheorem` | `ViewerKeepsStream`, if a long poll, four transfers and the failures fit into the idle limit (`Patient`) |
| `PostprocessProofs`: `TypeCorrect`, `NoDuplicatesTheorem`, `NothingLostTheorem` | greedy suppression is correct for any number of anchors, boxes and scores; paddings are never negative, for any image |
| `NothingInBorderTheorem` | `NothingInBorder`, for any image, input size and boxes |
| `CanBusProofs`: `RoundTrip` | `parse_can_frame` undoes `build_can_frame`, for every identifier in range and every payload that fits |
| `CanBusProofs`: `TypeCorrect`, `NewestFirstTheorem`, `ErrorMeansUnsentTheorem`, `EchoMatchesTheorem` | the run's safety properties, for any number of senders, queues and lengths of the history |
| `CanBusProofs`: `SamplerTheorem` | `CanBus` implements `FrameSampler` |

The argument is the same for each: an invariant that every step preserves, with
one step of the proof per action of the model.

- **Camera, `IInv`.** None of the properties is inductive alone. `Phases` ties the
  three program counters together (no finisher before `stop()`, `running_` cleared
  by it), `Counters` bounds the counters by the phase the loop is in (`rebuilds`
  can still be incremented in "start" because the cap was tested before the
  teardown), `Released` says that the capture thread is done before the finisher
  tears down, and `Reasons` why `rosOk` is false: a signal or `unrecoverable_`.
  `WarmupCounted` relates the loop's counter to the pipeline's own, so that a
  rebuild cannot separate them. `Patient`, for `RefusalTheorem` and
  `PatienceTheorem`, says that the loop is only given up when every rebuild was
  tried or one was refused. `OnTime`, for `DeadlineTheorem`, says that
  the time already waited and the time the current call may still take stay within
  their sum. `Settled`, for `LifeTheorem`, says which pipeline the locations of a
  rebuild imply, and that a backoff is at least two seconds and slept in full.
- **An outage.** `OutageTheorem` is about one outage, with sessions that fall silent or
  end, refusals, a client library that crashes, a container and a signal.
  `BackoffSum(n)` is what the first n rebuilds sleep: in no outage can rebuild n open its
  session sooner, however fast sessions end. `Paced` follows it through the locations of
  a rebuild: the loop is never ahead of the outage, and a lost session was opened
  before its end. `Calm` says that there is nothing to rebuild before the crash, `Wanted`
  that the loop is left on request, on a refusal, or with the daemon out of sight.
- **Time without a sample.** `OnClock` bounds the clock at each location of the
  capture thread by `OpenedBy`, what the rebuilds so far may have taken, and what
  the current call has used of its limit; and while the finisher tears down, by what
  it has left. A sample sets the counter of rebuilds and the clock back together,
  so nothing is assumed of the faults, and rebuilds that were refused only end it
  sooner. A wedged daemon is excluded, as section 4 says it has to be.
- **Stack.** `Covered` says at each place of a life, and while launch waits, that
  what the daemon has still to reclaim fits into what is left of the wait;
  `Served` that a session a live daemon serves was opened in a clean one. `owed`, which
  the operator's rule resets, separates the exits that leave more than a relaunch waits
  for. Nothing is assumed of when faults occur.
- **Rates, `Counts`.** The frame that is due, and the one that waits for the detector,
  count as if they were counted already; then no count exceeds its time by more than
  one, and two for the detector.
- **Detector, `DInv`.** `Handoff` says where the mutex is held and who has a
  notification coming; `Unpublished` that the frame in hand is newer than the last published header;
  `Lifetime` that the stream is idle unless the worker synchronises, and that all is
  owned while the worker runs; `Backward` that no buffer holds a later frame.
  `InTransit` follows the frame's number through the four buffers, as long as nothing
  failed in its batch.
- **Recording, `RInv`.** `Roles` says which thread may be at which step and what
  it then holds; `OneOwner` is needed together with it; `OneBusy` and
  `OneRecorder`, for behaviours without overlap, say that at most one thread is
  not idle and that a live recorder is owned.
- **Live view.** `Attentive` bounds the idle time and the timer of a subscription
  together. `OnSchedule` gives every pump a budget (`Fits`): the time since its last
  request, and what it may still take until the next one, stay below the idle limit
  whatever fails; the budget grows with each failure and `Patient` bounds its total.
  `HoldsOut` says of a hold whose frame is the newest that its time left and the time
  the stream has been quiet make up the whole hold; with `Delivered` (nobody knows a
  frame that has not arrived) a frame that arrives ends that case. `Forward`,
  for the refinement, says that one pump acts at a time (`Alone`), that its answer
  is not older than `lastSeq`, and that what it is about to display is `lastSeq`.
- **Postprocessing, `PInv`.** `Listed` says that `dets` is the sorted list of what
  was decoded, `Greedy` that of the positions before `next` each is kept or
  removed, and that exactly those are removed which a kept one before them
  suppresses. The sort's order gives `NothingLost` its scores, the symmetry of
  overlap (`SuppressesSymmetric`) gives `NoDuplicates` its second half. For
  `NothingInBorder`, `Framed` says that the paddings are those of the image, `PadFits`
  how much of the input the scaled image and its paddings leave, whichever way a
  product was rounded, and `DecodedInside` that a box which the inverse of the
  letterbox leaves a part of the image reaches into it, up to one pixel.

- **CAN bus.** `Fitting` (a request that was packed had a payload that fits) makes
  the types inductive. `InOrder` strengthens `NewestFirst` by the receive queue,
  whose frames are newer than all that is stored and in order; the lemma `Moves`
  reduces all actions to the four things one can do to queue and history.
  `TxGenuine`, `RcvGenuine` and `StoreGenuine` follow a request's frame through both
  queues into the history; `SentStays` says that a request that was answered stays
  what it was, and `RoundTrip` turns the frame back into what was asked for.

What only TLC checks: everything under fairness (`ShutdownTerminates`,
`SamplesOrExitUnlessWedged`, `Recovers`, `RateConverges`, `FrameIsTaken`,
`StopIsAnswered`, `ViewMoves`, `ReaderRecovers`, `ReaderEnds`, `SendIsAnswered`),
since the installed provers decide neither liveness nor ENABLED. `InTimeTheorem`
is the part of `SamplesOrExitUnlessWedged` that is safety: what remains of it is that
time passes and the threads run. Every other property of the passing runs is a
theorem.
Nor can induction over data be proved with this prover: the library's induction
theorems take an operator as a parameter.

## 6. Not modelled

- Contents of images, logging (with the medians of `record_timing`), parameters
  other than those above.
- Exceptions in the detector's worker (a `cv::Mat` that cannot be allocated), which
  end the process.
- In the daemon, the state of the sensor itself, which `docs/runbook.md` says a
  restart does not clear: it shows as a stall.
- In the daemon, the lasting damage of half-created sessions, of which `PROGRESS.md`
  (Issue 13) says that only a restart ended it: here they are reclaimed. `NeverOutruns`
  says that there are none, if the waits suffice.
- In launch, the arguments and scopes of `bringup.launch.py`, the nodes without
  respawn and the oneshot service of `can0`.
- Status and telemetry of the console but for the rate: read-only; `snapshot`, which
  writes the stored frame to a file.
- The page's polling of `/api/status`; a console restarted under an open page;
  GET /api/can and the page's table of frames.
- Shell, Docker and CI files: no state machine of their own.
- The memory model. Flags shared between threads are `std::atomic`, and the
  model's steps are interleaved.

## 7. Plan

1. Done: all modules of section 2, with proofs for each.
2. The video path as one system: `ArgusCamera`'s publication, `Detector` and
   `LiveView` composed through `FrameSampler`, up to the page.
3. The console's lock and its holders over all handlers, and a console restarted
   under an open page.
4. Proofs: the safety part of other liveness properties, with a clock as in
   `CameraClock` (`Recovers`, `ViewMoves`); a chain of two samplers is a sampler,
   for point 2.
