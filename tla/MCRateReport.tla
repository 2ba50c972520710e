---------------------------- MODULE MCRateReport ----------------------------
(***************************************************************************)
(* Instance of RateReport: how far the system clock is stepped.            *)
(***************************************************************************)
EXTENDS RateReport

BothWays == {-2, 3}
=============================================================================
