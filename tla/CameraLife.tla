----------------------------- MODULE CameraLife -----------------------------
(***************************************************************************)
(* What one process life of the camera driver promises to those around it: *)
(* to nvargus-daemon, when it opens and closes sessions, and to whoever    *)
(* started it, how it ends.  ArgusCamera implements it; CameraStack        *)
(* strings such lives together.                                            *)
(***************************************************************************)
EXTENDS Integers

VARIABLES
  phase,   \* "starting", "serving", "resting", "over", "gone"
  open,    \* the life has a session with the daemon, or left one behind
  rested,  \* seconds of rest since a session was closed, up to LeastRest
  asked,   \* the process was asked to stop
  code     \* exit code, once it is gone

LeastRest == 2

TypeOK ==
  /\ phase \in {"starting", "serving", "resting", "over", "gone"}
  /\ open \in BOOLEAN /\ asked \in BOOLEAN
  /\ rested \in 0..LeastRest
  /\ code \in {0, 1}

Init ==
  /\ phase = "starting" /\ open = FALSE /\ rested = 0
  /\ asked = FALSE /\ code = 0

\* A session is opened at the start, and after a rest.
Opens ==
  /\ \/ phase = "starting"
     \/ phase = "resting" /\ rested = LeastRest
  /\ phase' = "serving" /\ open' = TRUE /\ rested' = 0
  /\ UNCHANGED <<asked, code>>

\* The watchdog closes a session, to open another one.
Rests ==
  /\ phase = "serving"
  /\ phase' = "resting" /\ open' = FALSE
  /\ UNCHANGED <<rested, asked, code>>

RestsOn ==
  /\ phase = "resting" /\ rested < LeastRest
  /\ rested' = rested + 1
  /\ UNCHANGED <<phase, open, asked, code>>

\* No session will be opened any more.
Closes ==
  /\ phase \in {"serving", "resting"}
  /\ phase' = "over" /\ open' = FALSE /\ rested' = 0
  /\ UNCHANGED <<asked, code>>

\* The process ends without a session, and with 0 only if it was asked to.
EndsCleanly ==
  /\ phase = "over" /\ phase' = "gone"
  /\ code' \in {0, 1} /\ (code' = 0 => asked)
  /\ UNCHANGED <<open, rested, asked>>

\* It cannot start, or is cut off at the deadline, and may leave a session.
FailsToStart ==
  /\ phase = "starting" /\ phase' = "gone"
  /\ open' \in BOOLEAN /\ code' = 1
  /\ UNCHANGED <<rested, asked>>

EndsForced ==
  /\ phase \in {"serving", "resting", "over"} /\ phase' = "gone"
  /\ rested' = 0 /\ code' = 1
  /\ UNCHANGED <<open, asked>>

Asked ==
  /\ phase # "gone" /\ ~asked
  /\ asked' = TRUE
  /\ UNCHANGED <<phase, open, rested, code>>

Next == \/ Opens \/ Rests \/ RestsOn \/ Closes
        \/ EndsCleanly \/ FailsToStart \/ EndsForced \/ Asked

Spec == Init /\ [][Next]_<<phase, open, rested, asked, code>>
=============================================================================
