----------------------------- MODULE MCDetector -----------------------------
(***************************************************************************)
(* Instances of Detector: which of the frames have a foreign encoding.     *)
(***************************************************************************)
EXTENDS Detector

SecondIsForeign == {2}
NoneForeign == {}
=============================================================================
