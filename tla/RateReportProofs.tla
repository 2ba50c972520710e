-------------------------- MODULE RateReportProofs --------------------------
(***************************************************************************)
(* Proofs about RateReport: a report counts at most one sample more, or    *)
(* two for the detector, than there were since the last report, whatever   *)
(* was stepped, restarted or dark before.  What its clock shows of that    *)
(* time is off by the steps that fell into it, and by nothing else.        *)
(***************************************************************************)
EXTENDS RateReport, TLAPS

\* A clock that was stepped back makes the driver's elapsed time negative.
SteppedNodes ==
  [count : 0..Horizon, since : 0..Horizon, stepped : Int, set : BOOLEAN]

\* The detector's clock is steady.
Nodes == [count : 0..Horizon, since : 0..Horizon, stepped : {0}, set : BOOLEAN]

One(bool) == IF bool THEN 1 ELSE 0

\* The types of the variables.
Typed == camera \in SteppedNodes /\ detector \in Nodes

\* The frame that is due and the one that waits are as good as counted.
CameraCounts ==
  /\ ~camera.set => camera.count = 0
  /\ camera.set => camera.count + One(due) <= camera.since + 1

DetectorCounts ==
  /\ ~detector.set => detector.count = 0
  /\ detector.set =>
       detector.count + One(pending) + One(due) <= detector.since + 2

Counts == Typed /\ CameraCounts /\ DetectorCounts

\* What a measurement does to a node.
LEMMA Measuring ==
  ASSUME NEW node \in SteppedNodes
  PROVE  /\ Measured(node) \in SteppedNodes
         /\ node \in Nodes => Measured(node) \in Nodes
         /\ Measured(node).set
         /\ ~node.set => /\ Measured(node).count = UpTo(node.count)
                         /\ Measured(node).since = 0
         /\ node.set =>
              \/ Measured(node).count = 0 /\ Measured(node).since = 0
              \/ /\ Measured(node).count = UpTo(node.count)
                 /\ Measured(node).since = node.since
<1> USE RateConstants DEF RateConstants, Nodes, SteppedNodes, UpTo
<1>1. CASE ~node.set
  BY <1>1 DEF Measured, FirstCall
<1>2. CASE node.set /\ IntervalOver(node)
  <2>1. Measured(node) = Restarted(Counted(node))
    BY <1>2, Zenon DEF Measured
  <2>2. Counted(node) \in SteppedNodes /\ Counted(node).set
    BY <1>2 DEF Counted
  <2>3. ASSUME NEW other \in SteppedNodes, other.set
        PROVE  /\ Restarted(other) \in Nodes /\ Restarted(other).set
               /\ Restarted(other).count = 0 /\ Restarted(other).since = 0
    BY <2>3 DEF Restarted
  <2>4. Nodes \subseteq SteppedNodes /\ 0 \in 0..Horizon
    OBVIOUS
  <2> HIDE DEF RateConstants, Nodes, SteppedNodes, UpTo
  <2> QED
    BY <1>2, <2>1, <2>2, <2>3, <2>4
<1>3. CASE node.set /\ ~IntervalOver(node)
  BY <1>3 DEF Measured, Counted
<1> HIDE DEF RateConstants, Nodes, SteppedNodes, UpTo
<1> QED
  BY <1>1, <1>2, <1>3

LEMMA TypedStep ==
  ASSUME Typed, [Next]_vars
  PROVE  Typed'
<1> USE DEF Typed
<1>1. NotStarted \in Nodes /\ NotStarted \in SteppedNodes
  BY RateConstants
     DEF RateConstants, NotStarted, Nodes, SteppedNodes
<1>2. CASE Captures
  <2>1. camera' = Measured(camera) /\ UNCHANGED detector
    BY <1>2, Zenon DEF Captures
  <2> QED
    BY <2>1, Measuring
<1>3. CASE Processes
  <2>1. detector' = Measured(detector) /\ UNCHANGED camera
    BY <1>3, Zenon DEF Processes
  <2>2. detector \in SteppedNodes
    BY RateConstants DEF RateConstants, Nodes, SteppedNodes
  <2> QED
    BY <2>1, <2>2, Measuring
<1>4. CASE Tick
  <2>1. camera' = Later(camera) /\ detector' = Later(detector)
    BY <1>4, Zenon DEF Tick
  <2> QED
    BY <2>1, RateConstants
       DEF RateConstants, Later, Nodes, SteppedNodes, UpTo
<1>5. CASE ClockSteps
  <2>1. /\ UNCHANGED detector
        /\ \E size \in StepSizes :
             camera' = [camera EXCEPT !.stepped = camera.stepped + size]
    BY <1>5, Zenon DEF ClockSteps
  <2> QED
    BY <2>1, RateConstants DEF RateConstants, Nodes, SteppedNodes
<1>6. CASE Restarts
  <2>1. camera' \in {camera, NotStarted} /\ detector' \in {detector, NotStarted}
    BY <1>6, Zenon DEF Restarts
  <2> QED
    BY <1>1, <2>1
<1>7. CASE UNCHANGED <<camera, detector>>
  BY <1>7
<1>8. CASE Misses
  BY <1>7, <1>8, Zenon DEF Misses
<1> QED
  BY <1>2, <1>3, <1>4, <1>5, <1>6, <1>7, <1>8, Zenon DEF Next, vars

LEMMA CameraStep ==
  ASSUME Typed, CameraCounts, [Next]_vars
  PROVE  CameraCounts'
<1>1. /\ camera \in SteppedNodes /\ Horizon \in Nat
      /\ camera.count \in 0..Horizon /\ camera.since \in 0..Horizon
  BY RateConstants DEF RateConstants, Typed, SteppedNodes
<1> DEFINE d == One(due)
<1>2. d \in 0..1 /\ (due => d = 1) /\ (~due => d = 0)
  BY DEF One
<1>3. One(due)' \in 0..1 /\ (due' => One(due)' = 1) /\ (~due' => One(due)' = 0)
  BY DEF One
<1>4. CASE Captures
  <2>1. camera' = Measured(camera) /\ due /\ ~due'
    BY <1>4, Zenon DEF Captures
  <2>2. CASE camera.set
    <3>1. camera.count + 1 <= camera.since + 1
      BY <1>2, <2>1, <2>2 DEF CameraCounts
    <3> QED
      BY <1>1, <1>3, <2>1, <2>2, <3>1, Measuring DEF CameraCounts, UpTo
  <2>3. CASE ~camera.set
    <3>1. camera.count = 0
      BY <2>3, Zenon DEF CameraCounts
    <3> QED
      BY <1>1, <1>3, <2>1, <2>3, <3>1, Measuring DEF CameraCounts, UpTo
  <2> QED
    BY <2>2, <2>3
<1>5. CASE Tick
  <2>1. camera' = Later(camera) /\ ~due
    BY <1>5, Zenon DEF Tick
  <2>2. CASE camera.set
    <3>1. camera' = [camera EXCEPT !.since = UpTo(camera.since)]
      BY <2>1, <2>2 DEF Later
    <3>2. camera'.count = camera.count /\ camera'.since = UpTo(camera.since)
          /\ camera'.set
      BY <1>1, <2>2, <3>1 DEF SteppedNodes
    <3>3. camera.count <= camera.since + 1
      BY <1>2, <2>1, <2>2, <1>1 DEF CameraCounts
    <3> QED
      BY <1>1, <1>3, <2>1, <3>2, <3>3 DEF CameraCounts, UpTo
  <2>3. CASE ~camera.set
    <3>1. camera' = [camera EXCEPT !.since = 0]
      BY <2>1, <2>3 DEF Later
    <3>2. camera'.count = camera.count /\ ~camera'.set
      BY <1>1, <2>3, <3>1 DEF SteppedNodes
    <3>3. camera.count = 0
      BY <2>3, Zenon DEF CameraCounts
    <3> QED
      BY <3>2, <3>3 DEF CameraCounts
  <2> QED
    BY <2>2, <2>3
<1>6. CASE ClockSteps
  <2>1. /\ UNCHANGED due
        /\ \E size \in StepSizes :
             camera' = [camera EXCEPT !.stepped = camera.stepped + size]
    BY <1>6, Zenon DEF ClockSteps
  <2>2. /\ camera'.set = camera.set /\ camera'.count = camera.count
        /\ camera'.since = camera.since
    BY <1>1, <2>1 DEF SteppedNodes
  <2> QED
    BY <2>1, <2>2, Zenon DEF CameraCounts
<1>7. CASE Misses
  <2>1. UNCHANGED camera /\ due /\ ~due'
    BY <1>7, Zenon DEF Misses
  <2>2. CASE camera.set
    <3>1. camera.count + 1 <= camera.since + 1
      BY <1>2, <2>1, <2>2 DEF CameraCounts
    <3> QED
      BY <1>1, <1>3, <2>1, <2>2, <3>1 DEF CameraCounts
  <2>3. CASE ~camera.set
    BY <2>1, <2>3, Zenon DEF CameraCounts
  <2> QED
    BY <2>2, <2>3
<1>8. CASE UNCHANGED <<camera, due>>
  BY <1>8, Zenon DEF CameraCounts
<1>9. CASE camera' = NotStarted
  BY <1>9 DEF NotStarted, CameraCounts
<1> QED
  BY <1>4, <1>5, <1>6, <1>7, <1>8, <1>9, Zenon
     DEF Next, Processes, Restarts, vars

LEMMA DetectorStep ==
  ASSUME Typed, DetectorCounts, [Next]_vars
  PROVE  DetectorCounts'
<1>1. /\ detector \in SteppedNodes /\ Horizon \in Nat
      /\ detector.count \in 0..Horizon /\ detector.since \in 0..Horizon
  BY RateConstants DEF RateConstants, Typed, Nodes, SteppedNodes
<1>2. ASSUME NEW bool
      PROVE  One(bool) \in 0..1 /\ (bool => One(bool) = 1)
             /\ (~bool => One(bool) = 0)
  BY DEF One
<1>3. /\ One(due) \in 0..1 /\ (due => One(due) = 1) /\ (~due => One(due) = 0)
      /\ One(pending) \in 0..1
      /\ (pending => One(pending) = 1) /\ (~pending => One(pending) = 0)
  BY <1>2
<1>4. /\ One(due)' \in 0..1 /\ (due' => One(due)' = 1)
      /\ (~due' => One(due)' = 0) /\ One(pending)' \in 0..1
      /\ (pending' => One(pending)' = 1) /\ (~pending' => One(pending)' = 0)
  BY DEF One
<1>5. CASE Processes
  <2>1. /\ detector' = Measured(detector) /\ pending /\ ~pending'
        /\ UNCHANGED due
    BY <1>5, Zenon DEF Processes
  <2>2. One(due)' = One(due)
    BY <2>1, Zenon DEF One
  <2>3. CASE detector.set
    <3>1. detector.count + 1 + One(due) <= detector.since + 2
      BY <1>3, <2>1, <2>3 DEF DetectorCounts
    <3> QED
      BY <1>1, <1>3, <1>4, <2>1, <2>2, <2>3, <3>1, Measuring
         DEF DetectorCounts, UpTo
  <2>4. CASE ~detector.set
    <3>1. detector.count = 0
      BY <2>4, Zenon DEF DetectorCounts
    <3> QED
      BY <1>1, <1>3, <1>4, <2>1, <2>2, <2>4, <3>1, Measuring
         DEF DetectorCounts, UpTo
  <2> QED
    BY <2>3, <2>4
<1>6. CASE Captures \/ Misses
  <2>1. UNCHANGED detector /\ due /\ ~due'
    BY <1>6, Zenon DEF Captures, Misses
  <2>2. pending' = pending \/ pending' = TRUE
    BY <1>6 DEF Captures, Misses
  <2>3. CASE detector.set
    <3>1. detector.count + One(pending) + 1 <= detector.since + 2
      BY <1>3, <2>1, <2>3 DEF DetectorCounts
    <3> QED
      BY <1>1, <1>3, <1>4, <2>1, <2>3, <3>1 DEF DetectorCounts
  <2>4. CASE ~detector.set
    BY <2>1, <2>4, Zenon DEF DetectorCounts
  <2> QED
    BY <2>3, <2>4
<1>7. CASE Tick
  <2>1. detector' = Later(detector) /\ ~due /\ UNCHANGED pending
    BY <1>7, Zenon DEF Tick
  <2>2. One(pending)' = One(pending)
    BY <2>1, Zenon DEF One
  <2>3. CASE detector.set
    <3>1. detector' = [detector EXCEPT !.since = UpTo(detector.since)]
      BY <2>1, <2>3 DEF Later
    <3>2. /\ detector'.count = detector.count
          /\ detector'.since = UpTo(detector.since)
      BY <1>1, <3>1 DEF SteppedNodes
    <3>3. detector'.set
      BY <1>1, <2>3, <3>1 DEF SteppedNodes
    <3>4. detector.count + One(pending) <= detector.since + 2
      BY <1>1, <1>3, <2>1, <2>3 DEF DetectorCounts
    <3> QED
      BY <1>1, <1>3, <1>4, <2>2, <3>2, <3>3, <3>4 DEF DetectorCounts, UpTo
  <2>4. CASE ~detector.set
    <3>1. detector' = [detector EXCEPT !.since = 0]
      BY <2>1, <2>4 DEF Later
    <3>2. detector'.count = detector.count /\ ~detector'.set
      BY <1>1, <2>4, <3>1 DEF SteppedNodes
    <3>3. detector.count = 0
      BY <2>4, Zenon DEF DetectorCounts
    <3> QED
      BY <3>2, <3>3 DEF DetectorCounts
  <2> QED
    BY <2>3, <2>4
<1>8. CASE UNCHANGED <<detector, pending, due>>
  BY <1>8, Zenon DEF DetectorCounts
<1>9. CASE detector' = NotStarted
  BY <1>9 DEF NotStarted, DetectorCounts
<1> QED
  BY <1>5, <1>6, <1>7, <1>8, <1>9, Zenon
     DEF Next, ClockSteps, Restarts, vars

LEMMA Honest ==
  ASSUME Counts
  PROVE  /\ Captures /\ IntervalOver(camera) =>
              Counted(camera).count <= Elapsed(camera) - camera.stepped + 1
         /\ Processes /\ IntervalOver(detector) =>
              Counted(detector).count <= Elapsed(detector) + 2
<1> USE DEF Counts
<1>1. ASSUME NEW node \in SteppedNodes
      PROVE  /\ Counted(node).count = UpTo(node.count)
             /\ node.count \in 0..Horizon /\ Horizon \in Nat
  BY RateConstants DEF RateConstants, Counted, SteppedNodes
<1>2. camera \in SteppedNodes /\ detector \in SteppedNodes
      /\ detector.since \in Nat /\ camera.since \in Nat /\ camera.stepped \in Int
      /\ Elapsed(detector) = detector.since
      /\ Elapsed(camera) - camera.stepped = camera.since
  BY RateConstants DEF RateConstants, Typed, Nodes, SteppedNodes, Elapsed
<1>3. ASSUME Captures, IntervalOver(camera)
      PROVE  Counted(camera).count <= camera.since + 1
  <2>1. due /\ camera.set
    BY <1>3, Zenon DEF Captures, IntervalOver
  <2>2. camera.count + 1 <= camera.since + 1
    BY <2>1, RateConstants
       DEF RateConstants, CameraCounts, One, Typed, SteppedNodes
  <2> QED
    BY <1>1, <1>2, <2>2 DEF UpTo
<1>4. ASSUME Processes, IntervalOver(detector)
      PROVE  Counted(detector).count <= detector.since + 2
  <2>1. pending /\ detector.set
    BY <1>4, Zenon DEF Processes, IntervalOver
  <2>2. detector.count + 1 <= detector.since + 2
    <3>1. One(pending) = 1 /\ One(due) \in 0..1
      BY <2>1 DEF One
    <3>2. detector.count + One(pending) + One(due) <= detector.since + 2
      BY <2>1, Zenon DEF DetectorCounts
    <3>3. detector.count \in 0..Horizon /\ Horizon \in Nat
      BY <1>1, <1>2
    <3> QED
      BY <1>2, <3>1, <3>2, <3>3
  <2> QED
    BY <1>1, <1>2, <2>2 DEF UpTo
<1> QED
  BY <1>2, <1>3, <1>4

\* A report overstates the stream by the steps back of the clock within its own
\* interval and by the samples at its edges, and by no more: whatever was
\* stepped, restarted or dark before, for any interval and sizes of the steps
\* (argus_camera_node.cpp:289-309, trt_detector_node.cpp:334-368).
THEOREM NeverOverstatesTheorem == Spec => NeverOverstates
<1>1. Init => Counts
  BY RateConstants DEF RateConstants, Init, Counts, Typed, CameraCounts,
     DetectorCounts, Nodes, SteppedNodes, NotStarted
<1>2. Counts /\ [Next]_vars => Counts'
  BY TypedStep, CameraStep, DetectorStep DEF Counts
<1>3. Counts =>
        /\ Captures /\ IntervalOver(camera) =>
             Counted(camera).count <= Elapsed(camera) - camera.stepped + 1
        /\ Processes /\ IntervalOver(detector) =>
             Counted(detector).count <= Elapsed(detector) + 2
  BY Honest
<1> QED
  BY <1>1, <1>2, <1>3, PTL DEF Spec, NeverOverstates
=============================================================================
