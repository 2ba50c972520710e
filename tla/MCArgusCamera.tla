--------------------------- MODULE MCArgusCamera ---------------------------
(***************************************************************************)
(* Instances of ArgusCamera: the sets of faults the runs inject.           *)
(***************************************************************************)
EXTENDS ArgusCamera

AllFaults == FaultKinds
StallOnly == {"stall"}
OutageFaults == FaultKinds \ {"stall", "eos", "wedge"}
=============================================================================
