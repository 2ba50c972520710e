---------------------------- MODULE CameraStack ----------------------------
(***************************************************************************)
(* The camera driver under supervision: life after life of the process     *)
(* (CameraLife, which ArgusCamera implements), the launch process that     *)
(* starts the next one, the daemon whose sessions they use, and the        *)
(* operator, who keeps the rules of docs/runbook.md.                       *)
(*                                                                         *)
(* The daemon reclaims a session some time after it was closed, and longer *)
(* after its process died.  A session that is opened before that is only   *)
(* half created: it yields no frames, and has to be reclaimed as well.     *)
(*                                                                         *)
(* On the host a restarted daemon is found again.  A container may keep    *)
(* the socket of the daemon that was there when it was created, until the  *)
(* operator creates it anew.                                               *)
(***************************************************************************)
EXTENDS Integers

CONSTANTS
  CloseReclaim,  \* seconds the daemon takes to reclaim a closed session
  DeadReclaim,   \* seconds it takes to reclaim one whose process is gone
  LaunchSeconds, \* seconds from the operator's command to the driver's start
  MaxFaults      \* bound on stalls, daemon crashes and deaths of the driver

ASSUME StackConstants ==
  /\ CloseReclaim \in Nat /\ DeadReclaim \in Nat /\ LaunchSeconds \in Nat
  /\ MaxFaults \in Nat

VARIABLES
  phase, open, rested, asked, code,  \* the present life of the driver
  launch,  \* launch: "watching" a life, "waiting" to respawn, "stopped"
  delay,   \* seconds until it starts the next life
  daemon,  \* nvargus-daemon: "up", "down", "wedged"
  dirty,   \* seconds until it has reclaimed all that was left in it
  orphaned, \* the container's socket is no longer the daemon's
  owed,    \* the last life ended uncleanly, and the daemon not since
  link,    \* its session: "none", "good", "mute", "half" created, or "lost"
  faults   \* stalls, crashes of the daemon and deaths of the driver so far

life == <<phase, open, rested, asked, code>>
world == <<launch, delay, daemon, dirty, orphaned, owed, link, faults>>
vars == <<life, world>>

Life == INSTANCE CameraLife

\* Seeded fault: the delay that launch had first.
ShortDelay == 2

RespawnDelay == 15

\* The types of the variables; the seconds of work of the daemon may add up.
TypeOK ==
  /\ Life!TypeOK
  /\ launch \in {"watching", "waiting", "stopped"}
  /\ delay \in Nat
  /\ daemon \in {"up", "down", "wedged"}
  /\ dirty \in Nat
  /\ orphaned \in BOOLEAN /\ owed \in BOOLEAN
  /\ link \in {"none", "good", "mute", "half", "lost"}
  /\ faults \in 0..MaxFaults

Init ==
  /\ Life!Init
  /\ launch = "watching" /\ delay = 0
  /\ daemon \in {"up", "down"} /\ dirty = 0 /\ link = "none" /\ faults = 0
  /\ orphaned = FALSE /\ owed = FALSE

(***************************************************************************)
(* The driver.  It sees nothing of the daemon but whether frames arrive.   *)
(***************************************************************************)
LifeStep == UNCHANGED <<launch, delay, daemon, orphaned>>

\* What the daemon makes of a session that is opened now.
NewLink == CASE daemon # "up" \/ orphaned -> "lost"
             [] daemon = "up" /\ ~orphaned /\ dirty > 0 -> "half"
             [] daemon = "up" /\ ~orphaned /\ dirty = 0 -> "good"

\* A session the daemon still knows has to be reclaimed.
Leaves(session, seconds) ==
  dirty' = IF session \in {"good", "mute", "half"} THEN dirty + seconds ELSE dirty

Opens ==
  /\ LifeStep /\ Life!Opens
  /\ link' = NewLink
  /\ UNCHANGED <<dirty, owed, faults>>

\* No frame comes, and the watchdog closes the session; closing it is a call
\* that a wedged daemon does not return from.
Rests ==
  /\ LifeStep /\ Life!Rests
  /\ link # "good" /\ daemon # "wedged"
  /\ Leaves(link, CloseReclaim) /\ link' = "none"
  /\ UNCHANGED <<owed, faults>>

\* No session follows: after a signal, the last rebuild, or one that is refused.
Closes ==
  /\ LifeStep /\ Life!Closes
  /\ link # "good" \/ asked
  /\ daemon # "wedged" \/ link = "none"
  /\ Leaves(link, CloseReclaim) /\ link' = "none"
  /\ UNCHANGED <<owed, faults>>

EndsCleanly ==
  /\ LifeStep /\ Life!EndsCleanly
  /\ UNCHANGED <<dirty, link, owed, faults>>

\* PLAYING is refused: the constructor throws, and what its half-built
\* pipeline has of a session is left behind.  That a healthy daemon refuses is
\* one of the faults.
FailsToStart ==
  /\ LifeStep /\ Life!FailsToStart
  /\ Leaves(IF open' THEN NewLink ELSE "none", DeadReclaim)
  /\ IF NewLink = "good" THEN faults < MaxFaults /\ faults' = faults + 1
                          ELSE UNCHANGED faults
  /\ owed' = TRUE
  /\ UNCHANGED link

\* Only a wedged daemon makes stop() miss its deadline (ForcedOnlyIfWedged).
EndsForced ==
  /\ LifeStep /\ Life!EndsForced
  /\ daemon = "wedged"
  /\ Leaves(link, DeadReclaim) /\ link' = "none"
  /\ owed' = TRUE
  /\ UNCHANGED faults

\* SIGKILL, or a client library that goes down with the daemon
\* (LibraryCrashes of ArgusCamera).
Dies ==
  /\ phase # "gone" /\ phase' = "gone" /\ code' = 1
  /\ faults < MaxFaults /\ faults' = faults + 1
  /\ Leaves(link, DeadReclaim) /\ link' = "none"
  /\ owed' = TRUE
  /\ UNCHANGED <<open, rested, asked, launch, delay, daemon, orphaned>>

(***************************************************************************)
(* Launch.                                                                 *)
(***************************************************************************)
LaunchStep == UNCHANGED <<daemon, dirty, link, faults>>

\* Seeded fault: a life that ended is the last.
NoRespawn == UNCHANGED <<launch, delay>>

\* respawn=True: whatever the exit code was.
Respawn == launch' = "waiting" /\ delay' = RespawnDelay

SeesExit ==
  /\ LaunchStep /\ launch = "watching" /\ phase = "gone"
  /\ Respawn
  /\ UNCHANGED <<life, orphaned, owed>>

\* A new life begins, of this launch or after a relaunch.
Starts ==
  /\ LaunchStep /\ launch = "waiting" /\ delay = 0
  /\ phase' = "starting" /\ open' = FALSE /\ rested' = 0
  /\ asked' = FALSE /\ code' = 0
  /\ launch' = "watching" /\ owed' = FALSE
  /\ UNCHANGED <<delay, orphaned>>

\* Ctrl-C, or docker stop: no respawn, and the signal is passed on.
StopsStack ==
  /\ LaunchStep /\ launch # "stopped"
  /\ launch' = "stopped" /\ delay' = 0
  /\ IF phase = "gone" THEN UNCHANGED life
     ELSE asked' = TRUE /\ UNCHANGED <<phase, open, rested, code>>
  /\ UNCHANGED <<orphaned, owed>>

(***************************************************************************)
(* Daemon and operator.                                                    *)
(***************************************************************************)
DaemonStep == UNCHANGED <<life, launch, delay>>

\* The sensor stalls under a session the daemon still serves.
SensorStalls ==
  /\ DaemonStep /\ link = "good"
  /\ faults < MaxFaults /\ faults' = faults + 1
  /\ link' = "mute" /\ UNCHANGED <<daemon, dirty, orphaned, owed>>

LinkLost == link' = IF link = "none" THEN "none" ELSE "lost"

DaemonCrashes ==
  /\ DaemonStep /\ daemon = "up"
  /\ faults < MaxFaults /\ faults' = faults + 1
  /\ daemon' = "down" /\ dirty' = 0 /\ LinkLost
  /\ UNCHANGED <<orphaned, owed>>

DaemonWedges ==
  /\ DaemonStep /\ daemon = "up"
  /\ daemon' = "wedged" /\ UNCHANGED <<dirty, orphaned, owed, link, faults>>

\* A new daemon serves a new socket, which the host's processes see and those
\* of a container may not; it knows no old session.
NewSocket == orphaned' \in {orphaned, TRUE} /\ owed' = FALSE

\* By systemd after a crash,
DaemonReturns ==
  /\ DaemonStep /\ daemon = "down"
  /\ daemon' = "up" /\ NewSocket
  /\ UNCHANGED <<dirty, link, faults>>

\* by the operator otherwise.
RestartsDaemon ==
  /\ DaemonStep
  /\ \/ daemon = "wedged"
     \/ launch = "stopped" /\ phase = "gone"
  /\ daemon' = "up" /\ dirty' = 0 /\ LinkLost /\ NewSocket
  /\ UNCHANGED faults

\* "After any unclean camera exit, restart the daemon before relaunching", and
\* "after any daemon restart, RECREATE camera containers".
Relaunches ==
  /\ LaunchStep /\ launch = "stopped" /\ phase = "gone"
  /\ ~owed
  /\ launch' = "waiting" /\ delay' = LaunchSeconds
  /\ orphaned' = FALSE
  /\ UNCHANGED <<life, owed>>

Less(n) == IF n > 0 THEN n - 1 ELSE 0

\* A second passes for all of them; a wedged daemon reclaims nothing.
Second ==
  /\ IF phase = "resting" /\ rested < Life!LeastRest
       THEN Life!RestsOn ELSE UNCHANGED life
  /\ delay' = Less(delay)
  /\ dirty' = IF daemon = "up" THEN Less(dirty) ELSE dirty
  /\ UNCHANGED <<launch, daemon, orphaned, owed, link, faults>>

LifeSteps == \/ Opens \/ Rests \/ Closes
             \/ EndsCleanly \/ FailsToStart \/ EndsForced
LaunchSteps == SeesExit \/ Starts

Next == \/ LifeSteps \/ LaunchSteps \/ Dies \/ StopsStack \/ Relaunches
        \/ SensorStalls \/ DaemonCrashes \/ DaemonWedges
        \/ DaemonReturns \/ RestartsDaemon \/ Second

Spec == Init /\ [][Next]_vars

\* A life does not idle over a session without frames, unless the daemon is
\* wedged (ArgusCamera: SamplesOrExitUnlessWedged, ShutdownTerminates); launch
\* runs, time passes and systemd restarts the daemon.  Nobody has to restart a
\* wedged one, stop the stack, start it again or recreate a container.
FairSpec == /\ Spec
            /\ WF_vars(LifeSteps) /\ WF_vars(LaunchSteps)
            /\ WF_vars(Second) /\ WF_vars(DaemonReturns)

(***************************************************************************)
(* Properties.                                                             *)
(***************************************************************************)

\* The driver does not outrun the daemon's cleanup, neither from one session
\* of a life to the next nor from one life to the next: "every doomed attempt
\* left another half-created session behind" (camera.launch.py:34-37,
\* argus_camera_node.cpp:242-244).
NeverOutruns == link # "half"

\* After any of the faults, and whoever died of them: once the daemon stays up
\* and the driver can see it, the camera comes back and stays, as long as the
\* stack is wanted ("respawn turns that exit into a recovery attempt",
\* camera.launch.py:31-32).  On the host it takes nobody's help to see the
\* daemon; a container has to be recreated after each restart of the daemon,
\* which respawn does not do (docs/runbook.md:119-123).
Recovers ==
  <>[](daemon = "up" /\ ~orphaned /\ launch # "stopped") => <>[](link = "good")
=============================================================================
