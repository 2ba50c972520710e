---------------------------- MODULE FrameSampler ----------------------------
(***************************************************************************)
(* What every stage between the camera and a viewer promises: what it      *)
(* emits is a subsequence, in order and without repetition, of the frames  *)
(* that arrive.  Frames are numbered in the order of arrival; a stage may  *)
(* skip any of them ("stale frames are dropped, never queued",             *)
(* trt_detector_node.cpp:10-13) and emits none before it arrives.          *)
(***************************************************************************)
EXTENDS Integers

VARIABLES
  arrived,  \* the last frame that arrived
  emitted   \* the last frame emitted

Init == arrived = 0 /\ emitted = 0

Arrive == arrived' = arrived + 1 /\ UNCHANGED emitted

Emit == emitted' \in (emitted + 1)..arrived /\ UNCHANGED arrived

Next == Arrive \/ Emit

Spec == Init /\ [][Next]_<<arrived, emitted>>
=============================================================================
