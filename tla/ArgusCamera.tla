---------------------------- MODULE ArgusCamera ----------------------------
(***************************************************************************)
(* One process life of the camera driver, argus_camera_node.cpp: the main  *)
(* thread (constructor, spin, destructor), the capture thread with its     *)
(* stall watchdog and rebuild loop, and the finisher thread that stop()    *)
(* starts to bound the teardown.  The camera pipeline, the nvargus-daemon  *)
(* behind it and the signals the process receives are the environment.     *)
(*                                                                         *)
(* Time is discrete, one Tick a second, because the driver counts seconds: *)
(* a pull waits at most one, the watchdog counts empty ones, the backoff   *)
(* sleeps whole ones and stop() waits StopDeadline of them.  Everything    *)
(* the threads do between two blocking calls takes no time.                *)
(***************************************************************************)
EXTENDS Integers

CONSTANTS
  StallRestartSec,  \* parameter stall_restart_sec
  MaxRebuilds,      \* parameter max_rebuilds
  WarmupFrames,     \* parameter warmup_frames
  CallSeconds,      \* bound on a state-change call a healthy daemon serves
  OutageSeconds,    \* bound on how long systemd leaves a crashed daemon down
  MaxCrashes,       \* bound on the daemon crashes of a behaviour
  Faults            \* the faults the environment may inject, from FaultKinds

FaultKinds ==
  {"crash", "segfault", "orphan", "refuse", "wedge", "stall", "eos",
   "unreadable", "signal"}

ASSUME CameraConstants ==
  /\ StallRestartSec \in Nat \ {0}
  /\ MaxRebuilds \in Nat
  /\ WarmupFrames \in Nat
  /\ CallSeconds \in Nat \ {0}
  /\ OutageSeconds \in Nat \ {0}
  /\ MaxCrashes \in Nat
  /\ Faults \subseteq FaultKinds

VARIABLES
  main,           \* main thread: "construct", "spin", "stop", "exit"
  cap,            \* capture thread: the call or decision it is at
  fin,            \* finisher of stop(): "none", "join", "teardown", "done"
  running,        \* running_
  rosOk,          \* rclcpp::ok()
  unrecoverable,  \* unrecoverable_
  pipe,           \* pipeline_ and appsink_: "none", "broken", "playing"
  framesSeen,     \* frames_seen, saturating at WarmupFrames
  stalled,        \* stalled_seconds
  rebuilds,       \* rebuilds_without_frame
  backoff,        \* seconds rebuild_pipeline has still to sleep
  exitCode,       \* what main returns
  how,            \* how it ended: "alive", "ctor", "clean", "forced", "killed"
  capLeft,        \* seconds the capture thread's blocking call may still take
  finLeft,        \* the same for the finisher
  waited,         \* seconds stop() has waited for the finisher
  feed,           \* the pipeline yields "none", "live", "mute", "dead", "eos"
  delivered,      \* samples this pipeline gave, saturating at WarmupFrames
  fresh,          \* a frame was published in the current second
  daemon,         \* nvargus-daemon: "up", "down", "wedged"
  outage,         \* seconds the daemon has been down
  orphaned,       \* the process sees only a socket that no daemon serves
  crashes,        \* daemon crashes so far
  signalled       \* SIGINT or SIGTERM was delivered

flags == <<running, rosOk, unrecoverable>>
counters == <<framesSeen, stalled, rebuilds, backoff>>
ending == <<exitCode, how>>
session == <<pipe, feed, delivered>>
time == <<capLeft, finLeft, waited>>
world == <<daemon, outage, orphaned, crashes, signalled>>
vars ==
  <<main, cap, fin, fresh, flags, counters, ending, session, time, world>>

CapStates == {"none", "pull", "teardown", "backoff", "start", "final",
              "declare", "shutdown", "done"}

Flags ==
  /\ running \in BOOLEAN /\ rosOk \in BOOLEAN /\ unrecoverable \in BOOLEAN
  /\ fresh \in BOOLEAN /\ orphaned \in BOOLEAN /\ signalled \in BOOLEAN

\* The types of the variables; the bounds of the counters are those the code
\* compares them with.
TypeOK ==
  /\ Flags
  /\ main \in {"construct", "spin", "stop", "exit"}
  /\ cap \in CapStates
  /\ fin \in {"none", "join", "teardown", "done"}
  /\ pipe \in {"none", "broken", "playing"}
  /\ framesSeen \in 0..WarmupFrames
  /\ stalled \in 0..StallRestartSec
  /\ rebuilds \in 0..MaxRebuilds
  /\ backoff \in 0..10
  /\ exitCode \in {0, 1}
  /\ how \in {"alive", "ctor", "clean", "forced", "killed"}
  /\ capLeft \in Nat /\ finLeft \in Nat /\ waited \in Nat
  /\ feed \in {"none", "live", "mute", "dead", "eos"}
  /\ delivered \in 0..WarmupFrames
  /\ daemon \in {"up", "down", "wedged"}
  /\ outage \in 0..OutageSeconds
  /\ crashes \in 0..MaxCrashes

StopDeadline == 5

\* One more, saturating at the bound the code compares with; one less.
UpTo(bound, n) == IF n < bound THEN n + 1 ELSE n
Less(n) == IF n > 0 THEN n - 1 ELSE 0

(***************************************************************************)
(* The loop conditions of the capture thread.                              *)
(***************************************************************************)
KeepGoing == running /\ rosOk

\* Seeded fault: the fixed short retry.
FixedDelay(n) == 2

\* Backoff before rebuild attempt n: 2, 4, 6 ... seconds, capped at 10.
BackoffDelay(n) == IF 2 + 2 * n < 10 THEN 2 + 2 * n ELSE 10

\* Back at the head of the capture loop: pull again, or leave the loop.
LoopHead == IF KeepGoing THEN cap' = "pull" /\ capLeft' = 1
                        ELSE cap' = "final" /\ capLeft' = 0

(***************************************************************************)
(* Main thread.                                                            *)
(***************************************************************************)
Init ==
  /\ main = "construct" /\ cap = "none" /\ fin = "none"
  /\ running = TRUE /\ rosOk = TRUE /\ unrecoverable = FALSE
  /\ pipe = "none" /\ framesSeen = 0 /\ stalled = 0 /\ rebuilds = 0
  /\ backoff = 0 /\ exitCode = 0 /\ how = "alive"
  /\ capLeft = 0 /\ finLeft = 0 /\ waited = 0
  /\ feed = "none" /\ delivered = 0 /\ fresh = FALSE
  /\ \/ daemon = "up" /\ crashes = 0
     \/ daemon = "down" /\ crashes = 1 /\ "crash" \in Faults /\ MaxCrashes >= 1
  /\ outage = 0
  /\ orphaned \in BOOLEAN /\ (orphaned => "orphan" \in Faults)
  /\ signalled = FALSE

\* A container's mount of /tmp/argus_socket pins the file it was created with:
\* once the daemon has restarted nobody serves it, until an operator recreates
\* the container.  The host's processes see the socket of the new daemon.
ReachesDaemon == daemon = "up" /\ ~orphaned

\* start_pipeline returns: PLAYING was accepted, which proves nothing about
\* frames; they come only from a session the daemon is there to serve.
PipelineStarts ==
  /\ pipe' = "playing"
  /\ feed' = IF ReachesDaemon THEN "live" ELSE "dead"
  /\ delivered' = 0

\* start_pipeline throws: no pipeline could be built, or the built one was
\* refused PLAYING and stays in pipeline_.  A daemon that is up refuses, too:
\* another process may hold the sensor.
PipelineThrows ==
  /\ "refuse" \in Faults
  /\ pipe' \in {"none", "broken"}
  /\ feed' = "none"
  /\ delivered' = 0

MainSteps(loc) ==
  /\ main = loc
  /\ UNCHANGED <<fresh, counters, world, finLeft, rosOk, unrecoverable>>

\* The constructor starts the pipeline, then the capture thread.
Construct ==
  /\ MainSteps("construct")
  /\ PipelineStarts
  /\ main' = "spin"
  /\ LoopHead
  /\ UNCHANGED <<fin, running, ending, waited>>

\* The constructor throws: the destructor of an object that was never
\* constructed does not run, and main returns 1.
ConstructThrows ==
  /\ MainSteps("construct")
  /\ PipelineThrows
  /\ main' = "exit" /\ exitCode' = 1 /\ how' = "ctor"
  /\ UNCHANGED <<cap, fin, running, capLeft, waited>>

\* Seeded fault: main does not ask why spin returned.
ExitStatusIgnored == 0

ExitStatus == IF unrecoverable THEN 1 ELSE 0

\* spin returns once the context is shut down; main reads unrecoverable_ and
\* leaves the scope of the node, whose destructor enters stop().
SpinReturns ==
  /\ MainSteps("spin") /\ ~rosOk
  /\ main' = "stop"
  /\ exitCode' = ExitStatus
  /\ running' = FALSE
  /\ fin' = "join"
  /\ waited' = 0
  /\ UNCHANGED <<cap, session, how, capLeft>>

\* The finisher kept the deadline: stop() returns and main returns its code.
StopReturns ==
  /\ MainSteps("stop") /\ fin = "done"
  /\ main' = "exit" /\ how' = "clean"
  /\ UNCHANGED <<cap, fin, running, session, exitCode, capLeft, waited>>

\* Seeded fault: an unbounded wait for the finisher.
NoDeadline == FALSE

DeadlinePassed == waited >= StopDeadline

\* The deadline passed: std::_Exit(1) takes every thread with it.
StopForced ==
  /\ MainSteps("stop") /\ DeadlinePassed /\ fin # "done"
  /\ main' = "exit" /\ how' = "forced" /\ exitCode' = 1
  /\ UNCHANGED <<cap, fin, running, session, capLeft, waited>>

(***************************************************************************)
(* Capture thread.                                                         *)
(***************************************************************************)
CapSteps(loc) ==
  /\ main \in {"spin", "stop"} /\ cap = loc
  /\ UNCHANGED <<main, fin, running, ending, finLeft, waited, world>>

\* A call into the daemon cannot return while the daemon is wedged.
Stuck == daemon = "wedged" /\ pipe # "none"

\* publish: a sample without a buffer, or whose buffer cannot be mapped, is
\* given up without a word to the loop.
Publish ==
  \/ fresh' = TRUE
  \/ "unreadable" \in Faults /\ UNCHANGED fresh

\* try_pull_sample returned a sample: it is dropped while the exposure still
\* converges and published otherwise.
PullSample ==
  /\ CapSteps("pull") /\ feed = "live"
  /\ stalled' = 0 /\ rebuilds' = 0
  /\ framesSeen' = UpTo(WarmupFrames, framesSeen)
  /\ delivered' = UpTo(WarmupFrames, delivered)
  /\ IF framesSeen >= WarmupFrames THEN Publish ELSE UNCHANGED fresh
  /\ LoopHead
  /\ UNCHANGED <<rosOk, unrecoverable, pipe, feed, backoff>>

\* try_pull_sample returned nothing: at once at the end of the stream, after a
\* second otherwise.
PullIsEmpty ==
  /\ CapSteps("pull")
  /\ \/ feed = "eos"
     \/ feed \in {"mute", "dead"} /\ capLeft = 0
  /\ UNCHANGED <<rosOk, unrecoverable, session, fresh, framesSeen, rebuilds,
                 backoff>>

PullInterrupted ==
  /\ PullIsEmpty /\ ~KeepGoing
  /\ cap' = "final" /\ capLeft' = 0
  /\ UNCHANGED stalled

\* The empty seconds the watchdog sees; EOS needs no waiting.
StallExpired == feed = "eos" \/ stalled + 1 >= StallRestartSec

PullStalls ==
  /\ PullIsEmpty /\ KeepGoing /\ ~StallExpired
  /\ stalled' = stalled + 1
  /\ LoopHead

\* Seeded fault: one attempt short.
OneRebuildShort == rebuilds + 1 >= MaxRebuilds

RebuildsExhausted == rebuilds >= MaxRebuilds

\* The watchdog fires: give up, or enter rebuild_pipeline, which starts with
\* the teardown.
PullWedged ==
  /\ PullIsEmpty /\ KeepGoing /\ StallExpired
  /\ stalled' = IF feed = "eos" THEN stalled ELSE stalled + 1
  /\ IF RebuildsExhausted THEN cap' = "final" /\ capLeft' = 0
                         ELSE cap' = "teardown" /\ capLeft' = CallSeconds

\* teardown_pipeline returns and the backoff begins.
CapTearsDown ==
  /\ CapSteps("teardown") /\ ~Stuck
  /\ pipe' = "none" /\ feed' = "none"
  /\ IF KeepGoing
       THEN /\ cap' = "backoff" /\ capLeft' = 1
            /\ backoff' = BackoffDelay(rebuilds)
       ELSE cap' = "final" /\ capLeft' = 0 /\ UNCHANGED backoff
  /\ UNCHANGED <<rosOk, unrecoverable, fresh, framesSeen, stalled, rebuilds,
                 delivered>>

\* Seeded fault: a backoff that a shutdown does not end.
SleepsThroughShutdown == backoff > 1

SleepsOn == backoff > 1 /\ KeepGoing

\* One second of the backoff is over: sleep another, rebuild, or give in to a
\* shutdown.
BackoffWakes ==
  /\ CapSteps("backoff") /\ capLeft = 0
  /\ \/ /\ SleepsOn
        /\ backoff' = backoff - 1 /\ capLeft' = 1 /\ UNCHANGED cap
     \/ /\ ~SleepsOn /\ KeepGoing
        /\ backoff' = 0 /\ cap' = "start" /\ capLeft' = CallSeconds
     \/ /\ ~SleepsOn /\ ~KeepGoing
        /\ backoff' = 0 /\ cap' = "final" /\ UNCHANGED capLeft
  /\ UNCHANGED <<rosOk, unrecoverable, session, fresh, framesSeen, stalled,
                 rebuilds>>

\* Seeded faults: a rebuild that keeps the old stall count, keeps the old
\* warm-up count, or takes an accepted PLAYING for a working camera.
StallKept == rebuilds' = rebuilds + 1 /\ framesSeen' = 0 /\ UNCHANGED stalled
WarmupKept == rebuilds' = rebuilds + 1 /\ stalled' = 0 /\ UNCHANGED framesSeen
PlayingIsSuccess == rebuilds' = 0 /\ stalled' = 0 /\ framesSeen' = 0

CountersRestart == rebuilds' = rebuilds + 1 /\ stalled' = 0 /\ framesSeen' = 0

\* start_pipeline succeeded: the loop starts over with a new pipeline.
Rebuilt ==
  /\ CapSteps("start")
  /\ PipelineStarts
  /\ CountersRestart
  /\ LoopHead
  /\ UNCHANGED <<rosOk, unrecoverable, fresh, backoff>>

\* Seeded fault: the result of rebuild_pipeline is ignored.
LoopsOn == LoopHead

LeavesLoop == cap' = "final" /\ capLeft' = 0

\* start_pipeline threw: rebuild_pipeline returns false and the loop ends.
RebuildThrows ==
  /\ CapSteps("start")
  /\ PipelineThrows
  /\ LeavesLoop
  /\ UNCHANGED <<rosOk, unrecoverable, fresh, counters>>

\* The check after the loop, and what follows it: three steps, between which a
\* signal may arrive or main may run.
FinalCheck ==
  /\ CapSteps("final")
  /\ cap' = IF KeepGoing THEN "declare" ELSE "done"
  /\ UNCHANGED <<rosOk, unrecoverable, session, fresh, counters, capLeft>>

Declare ==
  /\ CapSteps("declare")
  /\ unrecoverable' = TRUE /\ UNCHANGED rosOk
  /\ cap' = "shutdown"
  /\ UNCHANGED <<session, fresh, counters, capLeft>>

ShutsDown ==
  /\ CapSteps("shutdown")
  /\ rosOk' = FALSE /\ UNCHANGED unrecoverable
  /\ cap' = "done"
  /\ UNCHANGED <<session, fresh, counters, capLeft>>

(***************************************************************************)
(* Finisher thread: join the capture thread, then tear the pipeline down.  *)
(***************************************************************************)
FinSteps(loc) ==
  /\ main = "stop" /\ fin = loc
  /\ UNCHANGED <<main, cap, fresh, flags, counters, ending, world, capLeft,
                 waited>>

\* Seeded fault: the capture thread is detached, not joined.
Detached == TRUE

CaptureEnded == cap = "done"

FinJoins ==
  /\ FinSteps("join") /\ CaptureEnded
  /\ fin' = "teardown" /\ finLeft' = CallSeconds
  /\ UNCHANGED session

FinTearsDown ==
  /\ FinSteps("teardown") /\ ~Stuck
  /\ pipe' = "none" /\ feed' = "none"
  /\ fin' = "done" /\ finLeft' = 0
  /\ UNCHANGED delivered

(***************************************************************************)
(* Environment.                                                            *)
(***************************************************************************)
EnvChanges(fault) ==
  /\ fault \in Faults /\ main # "exit"
  /\ UNCHANGED <<main, cap, fin, fresh, flags, counters, ending, time, pipe,
                 delivered>>

Signal ==
  /\ "signal" \in Faults /\ main # "exit" /\ ~signalled
  /\ signalled' = TRUE /\ rosOk' = FALSE
  /\ UNCHANGED <<main, cap, fin, fresh, counters, ending, session, time,
                 running, unrecoverable, daemon, outage, orphaned, crashes>>

\* The sensor stops delivering, and may resume, under an open session.
CsiStalls ==
  /\ EnvChanges("stall") /\ feed = "live" /\ feed' = "mute" /\ UNCHANGED world

CsiResumes ==
  /\ EnvChanges("stall") /\ feed = "mute" /\ feed' = "live" /\ UNCHANGED world

\* The appsink reports the end of the stream: of a lost session, whenever the
\* pipeline notices, and as a fault of its own.
StreamEnds ==
  /\ main # "exit"
  /\ \/ feed = "dead"
     \/ "eos" \in Faults /\ feed \in {"live", "mute"}
  /\ feed' = "eos"
  /\ UNCHANGED <<main, cap, fin, fresh, flags, counters, ending, time, pipe,
                 delivered, world>>

\* Losing the daemon silences every session it served; an end of the stream
\* that was reported stays reported.
SessionLost == IF feed \in {"none", "eos"} THEN feed ELSE "dead"

DaemonCrashes ==
  /\ EnvChanges("crash") /\ daemon = "up" /\ crashes < MaxCrashes
  /\ daemon' = "down" /\ outage' = 0 /\ crashes' = crashes + 1
  /\ feed' = SessionLost
  /\ UNCHANGED <<orphaned, signalled>>

\* The client library may take the process with it when the daemon dies under
\* a session: killed by SIGSEGV, which any supervisor sees as a failure.
LibraryCrashes ==
  /\ "segfault" \in Faults /\ main # "exit"
  /\ daemon = "down" /\ pipe # "none"
  /\ main' = "exit" /\ how' = "killed" /\ exitCode' = 1
  /\ UNCHANGED <<cap, fin, fresh, flags, counters, session, time, world>>

\* systemd brings the daemon back, with a new socket; old sessions stay dead,
\* and a process in a container may not see the new socket.
DaemonRestarts ==
  /\ daemon = "down" /\ main # "exit"
  /\ daemon' = "up" /\ outage' = 0
  /\ \/ UNCHANGED orphaned
     \/ "orphan" \in Faults /\ orphaned' = TRUE
  /\ UNCHANGED <<main, cap, fin, fresh, flags, counters, ending, session, time,
                 crashes, signalled>>

DaemonWedges ==
  /\ EnvChanges("wedge") /\ daemon = "up"
  /\ daemon' = "wedged" /\ feed' = SessionLost
  /\ UNCHANGED <<outage, orphaned, crashes, signalled>>

(***************************************************************************)
(* A second passes, if no thread has a step to take before it does.        *)
(***************************************************************************)
CapWaits ==
  \/ cap = "done"
  \/ cap \in {"pull", "backoff", "start"} /\ capLeft > 0
  \/ cap = "teardown" /\ (capLeft > 0 \/ Stuck)

FinWaits ==
  \/ fin = "none"
  \/ fin = "join" /\ ~CaptureEnded
  \/ fin = "teardown" /\ (finLeft > 0 \/ Stuck)

MainWaits ==
  \/ main = "spin" /\ rosOk
  \/ main = "stop" /\ fin # "done" /\ ~DeadlinePassed

Tick ==
  /\ MainWaits /\ CapWaits /\ FinWaits
  /\ daemon = "down" => outage < OutageSeconds
  /\ capLeft' = Less(capLeft) /\ finLeft' = Less(finLeft)
  /\ waited' = IF main = "stop" THEN UpTo(StopDeadline, waited) ELSE waited
  /\ outage' = IF daemon = "down" THEN outage + 1 ELSE outage
  /\ fresh' = FALSE
  /\ UNCHANGED <<main, cap, fin, flags, counters, ending, session, daemon,
                 orphaned, crashes, signalled>>

MainThread == \/ Construct \/ ConstructThrows
              \/ SpinReturns \/ StopReturns \/ StopForced
CaptureThread == \/ PullSample \/ PullInterrupted \/ PullStalls \/ PullWedged
                 \/ CapTearsDown \/ BackoffWakes \/ Rebuilt \/ RebuildThrows
                 \/ FinalCheck \/ Declare \/ ShutsDown
FinisherThread == FinJoins \/ FinTearsDown
Environment == \/ Signal \/ CsiStalls \/ CsiResumes \/ StreamEnds
               \/ DaemonCrashes \/ LibraryCrashes \/ DaemonRestarts
               \/ DaemonWedges

\* The process is gone; the model stays in its last state.
Exited == main = "exit" /\ UNCHANGED vars

Next == \/ MainThread \/ CaptureThread \/ FinisherThread \/ Environment
        \/ Tick \/ Exited

Spec == Init /\ [][Next]_vars

\* The operating system runs every thread, time passes and systemd restarts
\* the daemon.  No fault, and no signal, ever has to happen.
Fairness == /\ WF_vars(MainThread) /\ WF_vars(CaptureThread)
            /\ WF_vars(FinisherThread) /\ WF_vars(Tick)
            /\ WF_vars(DaemonRestarts)

FairSpec == Spec /\ Fairness

(***************************************************************************)
(* Properties.                                                             *)
(***************************************************************************)

\* The capture loop pulls only from an open pipeline: appsink_ is null after
\* every teardown (lines 265-278) and a null sink crashes the pull (line 169).
PullsOpenPipeline == cap = "pull" => pipe = "playing"

\* No frame of the exposure's warm-up is published: each pipeline's first
\* WarmupFrames samples are dropped, after a rebuild too (lines 54-56, 174,
\* 224).
NoWarmupPublished ==
  [][PullSample /\ delivered < WarmupFrames => UNCHANGED fresh]_vars

\* The finisher touches the pipeline only when the capture thread is past its
\* last use of it: two unsynchronised threads never share it (lines 358-365).
OneThreadOnPipeline == fin \in {"teardown", "done"} => cap = "done"

\* Exit code 0 means somebody asked the node to stop and the camera was
\* released, so a supervisor restarting on failure is never denied a restart
\* by a capture that died (lines 417-421).
ExitZeroIsARequest ==
  main = "exit" /\ exitCode = 0 => signalled /\ pipe = "none"

\* Leaving without cleanup is for a wedged daemon only: while daemon calls
\* take CallSeconds at most, every stop meets the deadline, whatever the
\* capture thread was doing (lines 347-376).
ForcedOnlyIfWedged == how = "forced" => daemon = "wedged"

\* The node gives up only after MaxRebuilds consecutive rebuilds produced no
\* frame: "How many consecutive rebuilds may fail to produce a frame before
\* giving up" (lines 59-63, 217).
GivesUpAfterMaxRebuilds == unrecoverable => rebuilds = MaxRebuilds

\* The same while the last pipeline is still open: all attempts were made,
\* unless it was PLAYING that was refused (lines 217, 253-262).
GivesUpUnlessRefused ==
  unrecoverable /\ pipe = "playing" => rebuilds = MaxRebuilds

\* The rebuild schedule outlives the daemon's outage, whether the lost sessions
\* fall silent or end at once: the driver gives up after it only if PLAYING was
\* refused to a rebuild, or if it cannot see the daemon that came back (lines
\* 59-63, 192-198, 214-221, 242-249).
RidesOutOutage == unrecoverable /\ pipe = "playing" => orphaned

\* A shutdown request is never ignored: whatever hangs, the process exits
\* (lines 347-376).
ShutdownTerminates == ~rosOk ~> main = "exit"

\* If samples stop coming for good, the node does not idle: the process exits,
\* for a supervisor to act (lines 214-216, 228-237).
SamplesOrExit == []<><<PullSample>>_vars \/ <>(main = "exit")

\* The same for a daemon whose calls return: whatever else fails, and however
\* often, nothing but a wedge leaves the node up without samples.
SamplesOrExitUnlessWedged == SamplesOrExit \/ <>(daemon = "wedged")

\* The node publishes or dies: "publishing nothing -- a zombie that looks
\* healthy from outside" is what lines 228-232 say it no longer is, and the cap
\* on rebuilds that "yield nothing" is there so that it does not "cycle
\* forever" (214-216).
PublishesOrExit == []<>fresh \/ <>(main = "exit")

(***************************************************************************)
(* Seen from outside, this is a CameraLife.                                *)
(***************************************************************************)
LifePhase == CASE main = "exit" -> "gone"
               [] main = "construct" -> "starting"
               [] main \in {"spin", "stop"} ->
                    IF cap \in {"backoff", "start"} THEN "resting"
                    ELSE IF pipe = "none" THEN "over" ELSE "serving"

Slept == BackoffDelay(rebuilds) - backoff + 1 - capLeft

LifeRested ==
  IF LifePhase # "resting" THEN 0
  ELSE IF cap = "backoff" /\ Slept < 2 THEN Slept ELSE 2

LifeCode == IF main = "exit" THEN exitCode ELSE 0

Life == INSTANCE CameraLife
          WITH phase <- LifePhase, open <- (pipe # "none"),
               rested <- LifeRested, asked <- signalled, code <- LifeCode

\* Whatever fails, and however the three threads interleave: a session is not
\* opened before the driver has rested from the one before, none is left open
\* by a process that exits with 0, and 0 means that the process was asked to
\* stop ("the two" of lines 417-418; 242-249, 358-376).
ImplementsLife == Life!Spec
=============================================================================
