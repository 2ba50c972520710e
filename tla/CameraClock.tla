---------------------------- MODULE CameraClock ----------------------------
(***************************************************************************)
(* ArgusCamera with a clock that no part of the program reads: the seconds *)
(* since the last sample, or since the start.  It turns "the node never    *)
(* idles" into a number of seconds: what the watchdog, the teardowns, the  *)
(* backoffs and the restarts of all rebuilds can add up to.                *)
(***************************************************************************)
EXTENDS ArgusCamera

VARIABLE silent  \* seconds without a sample, saturating past Patience

\* What the first n backoffs add up to.
BackoffSum(n) == IF n <= 4 THEN n * (n + 1) ELSE 10 * n - 20

\* The seconds from the last sample to the opening of the session of rebuild n,
\* at most.
OpenedBy(n) == n * (StallRestartSec + 2 * CallSeconds) + BackoffSum(n)

\* The last session is given up, too, and what is left is one teardown.
GivenUpBy == OpenedBy(MaxRebuilds) + StallRestartSec
Patience == GivenUpBy + CallSeconds

ClockInit == Init /\ silent = 0

ClockNext ==
  /\ Next
  /\ silent' = IF PullSample THEN 0
               ELSE IF Tick THEN UpTo(Patience + 1, silent)
               ELSE silent

ClockSpec == ClockInit /\ [][ClockNext]_<<vars, silent>>

\* Whatever fails, however often, and whenever a signal comes: while the
\* daemon's calls return, the node is not without a sample for longer than all
\* its rebuilds and one more teardown take, unless it has exited for its
\* supervisor to act (lines 59-63, 214-216, 228-237, 242-249).
SamplesOrExitsInTime == silent <= Patience \/ daemon = "wedged"
=============================================================================
