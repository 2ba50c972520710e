------------------------- MODULE CameraStackProofs -------------------------
(***************************************************************************)
(* Why the waits of the camera stack are long enough, for every number of  *)
(* faults and every order of them: LeastRest between the sessions of a     *)
(* life, RespawnDelay between lives and LaunchSeconds before a relaunch,   *)
(* if the daemon reclaims a closed session within the shortest of them and *)
(* a dead process's within the second, and the operator restarts the       *)
(* daemon after an unclean exit.                                           *)
(***************************************************************************)
EXTENDS CameraStack, TLAPS

\* Locations: what the phases of a life and of launch exclude.
Phases ==
  /\ phase = "serving" <=> link # "none"
  /\ phase \in {"starting", "serving", "over"} => rested = 0
  /\ launch = "waiting" => phase = "gone"

\* A session of a live daemon was opened in a clean one; a daemon that is down
\* holds nothing.
Served ==
  /\ daemon = "up" /\ link # "none" => dirty = 0
  /\ daemon = "down" => dirty = 0 /\ link \in {"none", "lost"}
  /\ NeverOutruns

\* What is left in a live daemon is gone before anybody opens the next session.
Covered ==
  daemon = "up" =>
    /\ phase = "starting" => dirty = 0
    /\ phase = "resting" => dirty = 0 \/ dirty + rested <= CloseReclaim
    /\ phase = "over" => dirty <= CloseReclaim
    /\ phase = "gone" /\ launch = "watching" => dirty <= RespawnDelay
    /\ phase = "gone" /\ ~owed => dirty <= CloseReclaim
    /\ launch = "waiting" => dirty <= delay

WaitsSuffice ==
  /\ CloseReclaim <= Life!LeastRest /\ CloseReclaim <= LaunchSeconds
  /\ DeadReclaim <= RespawnDelay

\* The Boolean variables, apart.
Flags == /\ open \in BOOLEAN /\ asked \in BOOLEAN
         /\ orphaned \in BOOLEAN /\ owed \in BOOLEAN

LEMMA FlagsStep ==
  ASSUME Flags, [Next]_vars
  PROVE  Flags'
<1> USE DEF Flags, life, LifeStep, LaunchStep, DaemonStep
<1>1. CASE LifeSteps
  BY <1>1, Zenon
     DEF LifeSteps, Opens, Rests, Closes, EndsCleanly, FailsToStart, EndsForced,
         Life!Opens, Life!Rests, Life!Closes, Life!EndsCleanly,
         Life!FailsToStart, Life!EndsForced
<1>2. CASE LaunchSteps \/ Relaunches
  BY <1>2, Zenon DEF LaunchSteps, Relaunches, SeesExit, Starts
<1>3. CASE Dies \/ StopsStack
  BY <1>3, Zenon DEF Dies, StopsStack
<1>4. CASE SensorStalls \/ DaemonCrashes \/ DaemonWedges \/ DaemonReturns
           \/ RestartsDaemon
  BY <1>4, Zenon DEF SensorStalls, DaemonCrashes, DaemonWedges, DaemonReturns,
     RestartsDaemon, NewSocket
<1>5. CASE Second
  BY <1>5, Zenon DEF Second, Life!RestsOn
<1>6. CASE UNCHANGED vars
  BY <1>6, Zenon DEF vars, world
<1> QED
  BY <1>1, <1>2, <1>3, <1>4, <1>5, <1>6 DEF Next

LEMMA TypeStep ==
  ASSUME TypeOK, [Next]_vars
  PROVE  TypeOK'
<1>0. Flags'
  <2>1. Flags
    BY Zenon DEF TypeOK, Life!TypeOK, Flags
  <2> QED
    BY <2>1, FlagsStep
<1> USE <1>0, StackConstants
    DEF Flags, StackConstants, TypeOK, Life!TypeOK, Life!LeastRest, RespawnDelay,
        LifeStep, LaunchStep, DaemonStep, life, world
<1>1. CASE Opens
  BY <1>1 DEF Opens, Life!Opens, NewLink
<1>2. CASE Rests
  BY <1>2 DEF Rests, Life!Rests, Leaves
<1>3. CASE Closes
  BY <1>3 DEF Closes, Life!Closes, Leaves
<1>4. CASE EndsCleanly
  BY <1>4 DEF EndsCleanly, Life!EndsCleanly
<1>5. CASE FailsToStart
  BY <1>5 DEF FailsToStart, Life!FailsToStart, Leaves, NewLink
<1>6. CASE EndsForced
  BY <1>6 DEF EndsForced, Life!EndsForced, Leaves
<1>7. CASE SeesExit
  BY <1>7 DEF SeesExit, Respawn
<1>8. CASE Starts
  BY <1>8 DEF Starts
<1>9. CASE Dies
  BY <1>9 DEF Dies, Leaves
<1>10. CASE StopsStack
  BY <1>10 DEF StopsStack
<1>11. CASE Relaunches
  BY <1>11 DEF Relaunches
<1>12. CASE SensorStalls
  BY <1>12 DEF SensorStalls
<1>13. CASE DaemonCrashes
  BY <1>13 DEF DaemonCrashes, LinkLost
<1>14. CASE DaemonWedges
  BY <1>14 DEF DaemonWedges
<1>15. CASE DaemonReturns
  BY <1>15 DEF DaemonReturns, NewSocket
<1>16. CASE RestartsDaemon
  BY <1>16 DEF RestartsDaemon, LinkLost, NewSocket
<1>17. CASE Second
  BY <1>17 DEF Second, Life!RestsOn, Less
<1>18. CASE UNCHANGED vars
  BY <1>18 DEF vars
<1> QED
  BY <1>1, <1>2, <1>3, <1>4, <1>5, <1>6, <1>7, <1>8, <1>9, <1>10, <1>11,
     <1>12, <1>13, <1>14, <1>15, <1>16, <1>17, <1>18
     DEF Next, LifeSteps, LaunchSteps

\* The variables keep their types.
THEOREM TypeCorrect == Spec => []TypeOK
<1>1. Init => TypeOK
  <2>1. Init => Flags
    BY Zenon DEF Init, Life!Init, Flags
  <2> QED
    BY <2>1, StackConstants
       DEF StackConstants, Init, Life!Init, TypeOK, Life!TypeOK, Flags,
           Life!LeastRest, RespawnDelay
<1>2. TypeOK /\ [Next]_vars => TypeOK'
  BY TypeStep
<1> QED
  BY <1>1, <1>2, PTL DEF Spec

LEMMA ReclaimStep ==
  ASSUME WaitsSuffice, TypeOK, Phases, Served, Covered, [Next]_vars
  PROVE  Phases' /\ Served' /\ Covered'
<1>0. /\ dirty \in Nat /\ delay \in Nat /\ rested \in 0..2
      /\ phase \in {"starting", "serving", "resting", "over", "gone"}
      /\ launch \in {"watching", "waiting", "stopped"}
      /\ CloseReclaim \in Nat /\ DeadReclaim \in Nat /\ LaunchSeconds \in Nat
  BY StackConstants DEF StackConstants, TypeOK, Life!TypeOK, Life!LeastRest,
     RespawnDelay
<1> USE <1>0
    DEF WaitsSuffice, Life!LeastRest, RespawnDelay, Phases, Served, Covered, NeverOutruns,
        LifeStep, LaunchStep, DaemonStep, life, world
<1>1. CASE Opens
  BY <1>1 DEF Opens, Life!Opens, NewLink
<1>2. CASE Rests
  BY <1>2 DEF Rests, Life!Rests, Leaves
<1>3. CASE Closes
  BY <1>3 DEF Closes, Life!Closes, Leaves
<1>4. CASE EndsCleanly
  BY <1>4 DEF EndsCleanly, Life!EndsCleanly
<1>5. CASE FailsToStart
  BY <1>5 DEF FailsToStart, Life!FailsToStart, Leaves, NewLink
<1>6. CASE EndsForced
  BY <1>6 DEF EndsForced, Life!EndsForced, Leaves
<1>7. CASE SeesExit
  BY <1>7 DEF SeesExit, Respawn
<1>8. CASE Starts
  BY <1>8 DEF Starts
<1>9. CASE Dies
  BY <1>9 DEF Dies, Leaves
<1>10. CASE StopsStack
  BY <1>10 DEF StopsStack
<1>11. CASE Relaunches
  BY <1>11 DEF Relaunches
<1>12. CASE SensorStalls
  BY <1>12 DEF SensorStalls
<1>13. CASE DaemonCrashes
  BY <1>13 DEF DaemonCrashes, LinkLost
<1>14. CASE DaemonWedges
  BY <1>14 DEF DaemonWedges
<1>15. CASE DaemonReturns
  BY <1>15 DEF DaemonReturns, NewSocket
<1>16. CASE RestartsDaemon
  BY <1>16 DEF RestartsDaemon, LinkLost, NewSocket
<1>17. CASE Second
  <2>1. /\ dirty' = IF daemon = "up" THEN Less(dirty) ELSE dirty
        /\ delay' = Less(delay)
        /\ UNCHANGED <<launch, daemon, owed, link, phase>>
        /\ rested' = IF phase = "resting" /\ rested < 2
                       THEN rested + 1 ELSE rested
    BY <1>17 DEF Second, Life!RestsOn
  <2>2. Phases' /\ Served'
    BY <2>1 DEF Less
  <2>3. Covered'
    BY <2>1 DEF Less
  <2> QED
    BY <2>2, <2>3
<1>18. CASE UNCHANGED vars
  BY <1>18 DEF vars
<1> QED
  BY <1>1, <1>2, <1>3, <1>4, <1>5, <1>6, <1>7, <1>8, <1>9, <1>10, <1>11,
     <1>12, <1>13, <1>14, <1>15, <1>16, <1>17, <1>18
     DEF Next, LifeSteps, LaunchSteps

\* No session is ever half created: the rest of rebuild_pipeline, the delay of
\* launch and the operator's rule cover what the daemon has to reclaim, whoever
\* dies or fails to start, and whenever.
THEOREM NeverOutrunsTheorem ==
  ASSUME WaitsSuffice
  PROVE  Spec => []NeverOutruns
<1>1. Init => Phases /\ Served /\ Covered
  BY DEF Init, Life!Init, Phases, Served, Covered, NeverOutruns,
         Life!LeastRest
<1>2. TypeOK /\ Phases /\ Served /\ Covered /\ [Next]_vars
        => Phases' /\ Served' /\ Covered'
  BY ReclaimStep
<1>3. Served => NeverOutruns
  BY DEF Served
<1> QED
  BY TypeCorrect, <1>1, <1>2, <1>3, PTL DEF Spec
=============================================================================
