----------------------------- MODULE RateReport -----------------------------
(***************************************************************************)
(* The rates that camera driver and detector measure, report_rate in       *)
(* argus_camera_node.cpp and record_timing in trt_detector_node.cpp, and   *)
(* the one the console shows.  Both count frames until an interval is over *)
(* and publish count / elapsed; the driver's clock is ROS time, which NTP  *)
(* may step, the detector's is steady.                                     *)
(*                                                                         *)
(* Time is discrete, a Tick is one frame period of the sensor, so that the *)
(* true rate is one frame a Tick.                                          *)
(***************************************************************************)
EXTENDS Integers

CONSTANTS
  Interval,   \* parameter rate_report_interval, in frame periods
  MaxDark,    \* bound on consecutive periods without a frame
  StepSizes,  \* by how much the system clock may be stepped
  MaxMishaps, \* bound on clock steps and restarts
  Horizon     \* counts and times are cut off here

ASSUME RateConstants ==
  /\ Interval \in Nat \ {0} /\ MaxDark \in Nat /\ MaxMishaps \in Nat
  /\ StepSizes \subseteq Int
  /\ Horizon \in Nat

VARIABLES
  camera,    \* of the driver: frames_since_report_, last_report_ and whether
             \* it is set; last_report_ is kept as the time since then and
             \* what the clock was stepped since then
  detector,  \* of the detector: frames_ and last_report_
  pending,   \* a frame waits for the detector
  due,       \* the sensor's next frame is due
  dark,      \* periods since the last frame
  shown,     \* publisher_hz, as frames and time
  mishaps    \* steps of the clock and restarts of a node so far

vars == <<camera, detector, pending, due, dark, shown, mishaps>>

UpTo(n) == IF n < Horizon THEN n + 1 ELSE n

NotStarted == [count |-> 0, since |-> 0, stepped |-> 0, set |-> FALSE]
NoRate == [frames |-> 0, time |-> 0]

Init ==
  /\ camera = NotStarted /\ detector = NotStarted
  /\ pending = FALSE /\ due = TRUE /\ dark = 0
  /\ shown = NoRate
  /\ mishaps = 0

\* Seeded faults: the next interval starts where this one did, or with its
\* count.
IntervalKept(node) == [node EXCEPT !.count = 0]
CountKept(node) == [node EXCEPT !.since = 0, !.stepped = 0]

\* The next interval.
Restarted(node) == [count |-> 0, since |-> 0, stepped |-> 0, set |-> node.set]

\* report_rate, and record_timing: the first call only starts the interval, but
\* its frame is counted; the others report if the interval is over.
FirstCall(node) ==
  [count |-> UpTo(node.count), since |-> 0, stepped |-> 0, set |-> TRUE]

Counted(node) == [node EXCEPT !.count = UpTo(node.count)]

\* What the clock shows since last_report_: negative after a step back.
Elapsed(node) == node.since + node.stepped

Rate(node) == [frames |-> node.count, time |-> Elapsed(node)]

IntervalOver(node) == node.set /\ Elapsed(node) >= Interval

Measured(node) ==
  IF ~node.set THEN FirstCall(node)
  ELSE IF IntervalOver(node) THEN Restarted(Counted(node)) ELSE Counted(node)

\* A sample past the warm-up is published, or given up, and counted in either
\* case; the console's _on_rate stores what is reported.
Captures ==
  /\ due /\ due' = FALSE /\ dark' = 0
  /\ pending' \in {pending, TRUE}
  /\ camera' = Measured(camera)
  /\ shown' = IF IntervalOver(camera) THEN Rate(Counted(camera)) ELSE shown
  /\ UNCHANGED <<detector, mishaps>>

\* No frame in this period.
Misses ==
  /\ due /\ due' = FALSE
  /\ dark < MaxDark /\ dark' = dark + 1
  /\ UNCHANGED <<camera, detector, pending, shown, mishaps>>

\* process() of a frame ends with record_timing.
Processes ==
  /\ pending /\ pending' = FALSE
  /\ detector' = Measured(detector)
  /\ UNCHANGED <<camera, due, dark, shown, mishaps>>

Later(node) ==
  [node EXCEPT !.since = IF node.set THEN UpTo(node.since) ELSE 0]

Tick ==
  /\ ~due /\ due' = TRUE
  /\ camera' = Later(camera) /\ detector' = Later(detector)
  /\ UNCHANGED <<pending, dark, shown, mishaps>>

\* NTP steps the clock, back or forth.
ClockSteps ==
  /\ mishaps < MaxMishaps /\ mishaps' = mishaps + 1
  /\ camera.set
  /\ \E size \in StepSizes :
       camera' = [camera EXCEPT !.stepped = camera.stepped + size]
  /\ UNCHANGED <<detector, pending, due, dark, shown>>

\* A new driver, detector or console knows nothing of the one before; a console
\* keeps showing the rate of a driver that is gone.
Restarts ==
  /\ mishaps < MaxMishaps /\ mishaps' = mishaps + 1
  /\ \/ camera' = NotStarted /\ UNCHANGED <<detector, shown, pending>>
     \/ detector' = NotStarted /\ pending' = FALSE /\ UNCHANGED <<camera, shown>>
     \/ shown' = NoRate /\ UNCHANGED <<camera, detector, pending>>
  /\ UNCHANGED <<due, dark>>

Next == Captures \/ Misses \/ Processes \/ Tick \/ ClockSteps \/ Restarts

Spec == Init /\ [][Next]_vars

\* Periods pass, and each brings a frame or does not.  The detector may be slow,
\* nothing has to restart and no clock has to be stepped.
FairSpec == Spec /\ WF_vars(Captures \/ Misses) /\ WF_vars(Tick)

(***************************************************************************)
(* Properties.                                                             *)
(***************************************************************************)

\* A report counts no more samples than the stream had in the time its clock
\* showed, less what the clock was stepped within that very interval, but for the
\* one that starts the first interval and, for the detector, one it took late.
\* So a step back of n periods lets one report promise n samples too many, since
\* it divides by a time that is too short; no report after it, and none after a
\* restart or a dark period, does.  Samples that publish() gave up are counted
\* too (argus_camera_node.cpp:182-183, 289-309, trt_detector_node.cpp:334-368).
NeverOverstates ==
  [][/\ Captures /\ IntervalOver(camera) =>
          Counted(camera).count <= Elapsed(camera) - camera.stepped + 1
     /\ Processes /\ IntervalOver(detector) =>
          Counted(detector).count <= Elapsed(detector) + 2]_vars

\* Whatever was stepped, restarted or dark before: when frames come steadily
\* again, the console comes to show their true rate and keeps to it.  A step
\* back silences report_rate only until the clock has caught up.
RateConverges ==
  <>[](dark = 0) => <>[](shown.time >= Interval /\ shown.frames = shown.time)
=============================================================================
