------------------------- MODULE ArgusCameraProofs -------------------------
(***************************************************************************)
(* Proofs about ArgusCamera and, at the end, CameraClock, for every value  *)
(* of their constants.  The inductive invariant IInv adds to the           *)
(* properties of ArgusCamera what each thread's location says of the       *)
(* counters, of the pipeline, of the reason for the shutdown and of the    *)
(* time stop() has spent waiting.                                          *)
(***************************************************************************)
EXTENDS CameraClock, TLAPS

\* Which thread exists in which phase of main.
Phases ==
  /\ main = "construct" => cap = "none" /\ framesSeen = 0 /\ stalled = 0
  /\ main \in {"construct", "spin"} => fin = "none" /\ running
  /\ cap = "none" => main \in {"construct", "exit"}
  /\ main = "stop" => fin # "none" /\ ~running /\ ~rosOk
  /\ main = "exit" => how # "alive"
  /\ main # "exit" => how = "alive"

\* The counters of the watchdog, at the locations that will change them.
Counters ==
  /\ cap = "pull" => stalled < StallRestartSec
  /\ cap \in {"teardown", "backoff", "start"} => rebuilds < MaxRebuilds

\* frames_seen agrees with the samples this pipeline has delivered.
WarmupCounted == cap = "pull" => framesSeen = delivered

\* What has been released, and by whom.
Released ==
  /\ OneThreadOnPipeline
  /\ fin = "done" => pipe = "none"
  /\ how = "clean" => fin = "done"

\* Only a signal or a declared failure shuts the context down.
Reasons ==
  /\ cap = "shutdown" => unrecoverable
  /\ ~rosOk => signalled \/ unrecoverable
  /\ main \in {"stop", "exit"} /\ exitCode = 0 => signalled
  /\ main = "exit" /\ exitCode = 0 => how = "clean"

IInv ==
  /\ TypeOK /\ Phases /\ Counters /\ Released /\ Reasons
  /\ PullsOpenPipeline /\ WarmupCounted

\* The initial states satisfy the invariant.
THEOREM InitInv == Init => IInv
<1> SUFFICES ASSUME Init PROVE IInv
  OBVIOUS
<1> USE CameraConstants DEF CameraConstants, Init
<1>0. Flags
  BY Zenon DEF Flags
<1>1. TypeOK
  BY <1>0 DEF Flags, TypeOK, CapStates
<1>2. Phases
  BY DEF Phases
<1>3. Counters /\ Released /\ PullsOpenPipeline /\ WarmupCounted
  BY DEF Counters, Released, PullsOpenPipeline, WarmupCounted,
         OneThreadOnPipeline
<1>4. Reasons
  BY DEF Reasons
<1> QED
  BY <1>1, <1>2, <1>3, <1>4 DEF IInv

LEMMA MainThreadInv == ASSUME IInv, MainThread PROVE IInv'
<1> USE CameraConstants
    DEF CameraConstants, IInv, TypeOK, CapStates, Phases, Counters, Released,
        Reasons, PullsOpenPipeline, WarmupCounted, OneThreadOnPipeline,
        KeepGoing, MainSteps, CapSteps, FinSteps, EnvChanges,
        flags, counters, ending, session, time, world
<1>1. CASE Construct
  BY <1>1 DEF Flags, Construct, PipelineStarts, LoopHead
<1>2. CASE ConstructThrows
  BY <1>2 DEF Flags, ConstructThrows, PipelineThrows
<1>3. CASE SpinReturns
  <2>1. Flags'
    BY <1>3, Zenon DEF Flags, SpinReturns, ExitStatus
  <2> QED
    BY <1>3, <2>1 DEF SpinReturns, ExitStatus
<1>4. CASE StopReturns
  BY <1>4 DEF Flags, StopReturns
<1>5. CASE StopForced
  BY <1>5 DEF Flags, StopForced
<1> QED
  BY <1>1, <1>2, <1>3, <1>4, <1>5 DEF MainThread

LEMMA CaptureThreadInv == ASSUME IInv, CaptureThread PROVE IInv'
<1> USE CameraConstants
    DEF CameraConstants, IInv, TypeOK, CapStates, Phases, Counters, Released,
        Reasons, PullsOpenPipeline, WarmupCounted, OneThreadOnPipeline,
        KeepGoing, MainSteps, CapSteps, FinSteps, EnvChanges,
        flags, counters, ending, session, time, world
<1>1. CASE PullSample
  <2>1. Flags'
    BY <1>1, Zenon DEF Flags, PullSample, Publish
  <2> QED
    BY <1>1, <2>1 DEF PullSample, LoopHead, UpTo
<1>2. CASE PullInterrupted
  BY <1>2 DEF Flags, PullInterrupted, PullIsEmpty
<1>3. CASE PullStalls
  BY <1>3 DEF Flags, PullStalls, PullIsEmpty, StallExpired, LoopHead
<1>4. CASE PullWedged
  BY <1>4 DEF Flags, PullWedged, PullIsEmpty, RebuildsExhausted
<1>5. CASE CapTearsDown
  BY <1>5 DEF Flags, CapTearsDown, BackoffDelay
<1>6. CASE BackoffWakes
  BY <1>6 DEF Flags, BackoffWakes, SleepsOn
<1>7. CASE Rebuilt
  BY <1>7 DEF Flags, Rebuilt, PipelineStarts, CountersRestart, LoopHead
<1>8. CASE RebuildThrows
  BY <1>8 DEF Flags, RebuildThrows, PipelineThrows, LeavesLoop
<1>9. CASE FinalCheck
  BY <1>9 DEF Flags, FinalCheck
<1>10. CASE Declare
  <2>1. Flags'
    BY <1>10, Zenon DEF Flags, Declare
  <2> QED
    BY <1>10, <2>1 DEF Declare
<1>11. CASE ShutsDown
  <2>1. Flags'
    BY <1>11, Zenon DEF Flags, ShutsDown
  <2> QED
    BY <1>11, <2>1 DEF ShutsDown
<1> QED
  BY <1>1, <1>2, <1>3, <1>4, <1>5, <1>6, <1>7, <1>8, <1>9, <1>10, <1>11
     DEF CaptureThread

LEMMA FinisherThreadInv == ASSUME IInv, FinisherThread PROVE IInv'
<1> USE CameraConstants
    DEF CameraConstants, IInv, TypeOK, CapStates, Phases, Counters, Released,
        Reasons, PullsOpenPipeline, WarmupCounted, OneThreadOnPipeline,
        KeepGoing, MainSteps, CapSteps, FinSteps, EnvChanges,
        flags, counters, ending, session, time, world
<1>1. CASE FinJoins
  BY <1>1 DEF Flags, FinJoins, CaptureEnded
<1>2. CASE FinTearsDown
  BY <1>2 DEF Flags, FinTearsDown
<1> QED
  BY <1>1, <1>2 DEF FinisherThread

LEMMA EnvironmentInv == ASSUME IInv, Environment PROVE IInv'
<1> USE CameraConstants
    DEF CameraConstants, IInv, TypeOK, CapStates, Phases, Counters, Released,
        Reasons, PullsOpenPipeline, WarmupCounted, OneThreadOnPipeline,
        KeepGoing, MainSteps, CapSteps, FinSteps, EnvChanges,
        flags, counters, ending, session, time, world
<1>1. CASE Signal
  <2>1. Flags'
    BY <1>1, Zenon DEF Flags, Signal
  <2> QED
    BY <1>1, <2>1 DEF Signal
<1>2. CASE CsiStalls
  BY <1>2 DEF Flags, CsiStalls
<1>3. CASE CsiResumes
  BY <1>3 DEF Flags, CsiResumes
<1>4. CASE StreamEnds
  BY <1>4 DEF Flags, StreamEnds
<1>5. CASE DaemonCrashes
  BY <1>5 DEF Flags, DaemonCrashes, SessionLost
<1>6. CASE LibraryCrashes
  <2>1. Flags'
    BY <1>6, Zenon DEF Flags, LibraryCrashes
  <2> QED
    BY <1>6, <2>1 DEF LibraryCrashes
<1>7. CASE DaemonRestarts
  <2>1. Flags'
    BY <1>7, Zenon DEF Flags, DaemonRestarts
  <2> QED
    BY <1>7, <2>1 DEF DaemonRestarts
<1>8. CASE DaemonWedges
  BY <1>8 DEF Flags, DaemonWedges, SessionLost
<1> QED
  BY <1>1, <1>2, <1>3, <1>4, <1>5, <1>6, <1>7, <1>8 DEF Environment

LEMMA TickInv == ASSUME IInv, Tick PROVE IInv'
<1>1. Flags'
  BY Zenon DEF IInv, TypeOK, Flags, Tick, flags, world
<1> QED
  BY CameraConstants, <1>1
     DEF CameraConstants, IInv, TypeOK, CapStates, Phases, Counters, Released,
         Reasons, PullsOpenPipeline, WarmupCounted, OneThreadOnPipeline, Tick,
         Less, UpTo, StopDeadline, flags, counters, ending, session
LEMMA StutterInv == ASSUME IInv, UNCHANGED vars PROVE IInv'
BY DEF IInv, TypeOK, Flags, Phases, Counters, Released, Reasons,
       PullsOpenPipeline, WarmupCounted, OneThreadOnPipeline, vars,
       flags, counters, ending, session, time, world

LEMMA StepInv == IInv /\ [Next]_vars => IInv'
BY MainThreadInv, CaptureThreadInv, FinisherThreadInv, EnvironmentInv, TickInv,
   StutterInv DEF Next, Exited

\* Every state of every behaviour satisfies the invariant.
THEOREM Invariance == Spec => []IInv
BY InitInv, StepInv, PTL DEF Spec

\* Every state has the declared types: in particular the counters keep the
\* bounds the code compares them with (lines 192-225).
THEOREM TypeCorrect == Spec => []TypeOK
BY Invariance, PTL DEF IInv

\* The capture loop never pulls from a null appsink_ (lines 164-169, 265-278).
THEOREM PullsOpenPipelineTheorem == Spec => []PullsOpenPipeline
BY Invariance, PTL DEF IInv

\* No rebuild lets a warm-up frame through (lines 174, 224).
THEOREM WarmupTheorem == Spec => NoWarmupPublished
<1>1. IInv /\ [Next]_vars =>
        [PullSample /\ delivered < WarmupFrames => UNCHANGED fresh]_vars
  <2> SUFFICES ASSUME IInv, PullSample, delivered < WarmupFrames
               PROVE  UNCHANGED fresh
    OBVIOUS
  <2>1. fresh \in BOOLEAN /\ ~(framesSeen >= WarmupFrames)
    BY CameraConstants DEF CameraConstants, IInv, TypeOK, Flags,
       WarmupCounted, PullSample, CapSteps
  <2> QED
    BY <2>1, Zenon DEF PullSample
<1> QED
  BY Invariance, <1>1, PTL DEF Spec, NoWarmupPublished

\* The finisher and the capture thread never share the pipeline (358-365).
THEOREM OneThreadTheorem == Spec => []OneThreadOnPipeline
BY Invariance, PTL DEF IInv, Released

\* A process that exits with 0 was asked to and released the camera
\* (lines 411-421), whatever fails and whenever.
THEOREM ExitZeroTheorem == Spec => []ExitZeroIsARequest
<1>1. IInv => ExitZeroIsARequest
  BY DEF IInv, Reasons, Released, ExitZeroIsARequest
<1> QED
  BY Invariance, <1>1, PTL

(***************************************************************************)
(* Giving up takes MaxRebuilds rebuilds, if the last is not refused.       *)
(***************************************************************************)

\* Every rebuild was tried, or one may have been refused.
Tried == \/ rebuilds = MaxRebuilds
         \/ "refuse" \in Faults /\ pipe # "playing"

\* The loop was left, with the node still wanted, at the last rebuild only.
Patient ==
  /\ cap = "final" /\ KeepGoing => Tried
  /\ cap \in {"declare", "shutdown"} => Tried
  /\ unrecoverable => cap \in {"shutdown", "done"} /\ Tried

LEMMA PatientStep ==
  ASSUME IInv, Patient, [Next]_vars
  PROVE  Patient'
<1> USE CameraConstants
    DEF CameraConstants, IInv, TypeOK, Phases, Patient, Tried, KeepGoing,
        MainSteps, CapSteps, FinSteps, EnvChanges,
        flags, counters, ending, session, time, world
<1>1. CASE Construct
  BY <1>1 DEF Construct, PipelineStarts, LoopHead
<1>2. CASE ConstructThrows
  BY <1>2 DEF ConstructThrows, PipelineThrows
<1>3. CASE SpinReturns
  BY <1>3 DEF SpinReturns, ExitStatus
<1>4. CASE StopReturns
  BY <1>4 DEF StopReturns
<1>5. CASE StopForced
  BY <1>5 DEF StopForced, DeadlinePassed, StopDeadline
<1>6. CASE PullSample
  BY <1>6 DEF PullSample, Publish, LoopHead, UpTo
<1>7. CASE PullInterrupted
  BY <1>7 DEF PullInterrupted, PullIsEmpty
<1>8. CASE PullStalls
  BY <1>8 DEF PullStalls, PullIsEmpty, StallExpired, LoopHead
<1>9. CASE PullWedged
  BY <1>9 DEF PullWedged, PullIsEmpty, RebuildsExhausted
<1>10. CASE CapTearsDown
  BY <1>10 DEF CapTearsDown, BackoffDelay
<1>11. CASE BackoffWakes
  BY <1>11 DEF BackoffWakes, SleepsOn
<1>12. CASE Rebuilt
  BY <1>12 DEF Rebuilt, PipelineStarts, CountersRestart, LoopHead
<1>13. CASE RebuildThrows
  BY <1>13 DEF RebuildThrows, PipelineThrows, LeavesLoop
<1>14. CASE FinalCheck
  BY <1>14 DEF FinalCheck
<1>15. CASE Declare
  BY <1>15 DEF Declare
<1>16. CASE ShutsDown
  BY <1>16 DEF ShutsDown
<1>17. CASE FinJoins
  BY <1>17 DEF FinJoins, CaptureEnded
<1>18. CASE FinTearsDown
  BY <1>18 DEF FinTearsDown, Stuck
<1>19. CASE Signal
  BY <1>19 DEF Signal
<1>20. CASE CsiStalls
  BY <1>20 DEF CsiStalls
<1>21. CASE CsiResumes
  BY <1>21 DEF CsiResumes
<1>22. CASE StreamEnds
  BY <1>22 DEF StreamEnds
<1>23. CASE DaemonCrashes
  BY <1>23 DEF DaemonCrashes, SessionLost
<1>24. CASE DaemonRestarts
  BY <1>24 DEF DaemonRestarts
<1>25. CASE DaemonWedges
  BY <1>25 DEF DaemonWedges, SessionLost
<1>26. CASE Tick
  BY <1>26 DEF Tick, MainWaits, CapWaits, FinWaits, DeadlinePassed,
               CaptureEnded, Stuck, StopDeadline, UpTo, Less
<1>27. CASE LibraryCrashes
  BY <1>27 DEF LibraryCrashes
<1>28. CASE UNCHANGED vars
  BY <1>28 DEF vars
<1> QED
  BY <1>1, <1>2, <1>3, <1>4, <1>5, <1>6, <1>7, <1>8, <1>9, <1>10, <1>11,
     <1>12, <1>13, <1>14, <1>15, <1>16, <1>17, <1>18, <1>19, <1>20, <1>21,
     <1>22, <1>23, <1>24, <1>25, <1>26, <1>27, <1>28 DEF Next, MainThread,
     CaptureThread, FinisherThread, Environment, Exited

LEMMA PatientAlways == Spec => []Patient
<1>1. Init => Patient
  BY DEF Init, Patient
<1>2. IInv /\ Patient /\ [Next]_vars => Patient'
  BY PatientStep
<1> QED
  BY Invariance, <1>1, <1>2, PTL DEF Spec

\* With accepted rebuilds the node never gives up early, whatever the order of
\* crashes, stalls and end-of-stream events (lines 59-63, 214-221).
THEOREM PatienceTheorem ==
  ASSUME "refuse" \notin Faults
  PROVE  Spec => []GivesUpAfterMaxRebuilds
<1>1. Patient => GivesUpAfterMaxRebuilds
  BY DEF Patient, Tried, GivesUpAfterMaxRebuilds
<1> QED
  BY PatientAlways, <1>1, PTL

\* With refusals too, a node that gives up on an open pipeline has made every
\* attempt (lines 217, 253-262).
THEOREM RefusalTheorem == Spec => []GivesUpUnlessRefused
<1>1. Patient => GivesUpUnlessRefused
  BY DEF Patient, Tried, GivesUpUnlessRefused
<1> QED
  BY PatientAlways, <1>1, PTL

(***************************************************************************)
(* The deadline of stop() covers one call of each thread.                  *)
(***************************************************************************)

\* Time spent and time still needed, while the daemon answers.
OnTime ==
  /\ capLeft <= CallSeconds
  /\ cap \in {"none", "final", "declare", "shutdown", "done"} => capLeft = 0
  /\ main = "stop" /\ daemon # "wedged" =>
       /\ fin = "join" => waited + capLeft <= CallSeconds
       /\ fin = "teardown" => waited + finLeft <= CallSeconds + CallSeconds
  /\ ForcedOnlyIfWedged

LEMMA OnTimeStep ==
  ASSUME CallSeconds + CallSeconds < StopDeadline, IInv, OnTime, [Next]_vars
  PROVE  OnTime'
<1> USE CameraConstants
    DEF CameraConstants, IInv, TypeOK, Phases, OneThreadOnPipeline, Released,
        OnTime, ForcedOnlyIfWedged, KeepGoing, StopDeadline,
        MainSteps, CapSteps, FinSteps, EnvChanges,
        flags, counters, ending, session, time, world
<1>1. CASE Construct
  BY <1>1 DEF Construct, PipelineStarts, LoopHead
<1>2. CASE ConstructThrows
  BY <1>2 DEF ConstructThrows, PipelineThrows
<1>3. CASE SpinReturns
  BY <1>3 DEF SpinReturns, ExitStatus
<1>4. CASE StopReturns
  BY <1>4 DEF StopReturns
<1>5. CASE StopForced
  BY <1>5 DEF StopForced, DeadlinePassed, StopDeadline
<1>6. CASE PullSample
  BY <1>6 DEF PullSample, Publish, LoopHead, UpTo
<1>7. CASE PullInterrupted
  BY <1>7 DEF PullInterrupted, PullIsEmpty
<1>8. CASE PullStalls
  BY <1>8 DEF PullStalls, PullIsEmpty, StallExpired, LoopHead
<1>9. CASE PullWedged
  BY <1>9 DEF PullWedged, PullIsEmpty, RebuildsExhausted
<1>10. CASE CapTearsDown
  BY <1>10 DEF CapTearsDown, BackoffDelay
<1>11. CASE BackoffWakes
  BY <1>11 DEF BackoffWakes, SleepsOn
<1>12. CASE Rebuilt
  BY <1>12 DEF Rebuilt, PipelineStarts, CountersRestart, LoopHead
<1>13. CASE RebuildThrows
  BY <1>13 DEF RebuildThrows, PipelineThrows, LeavesLoop
<1>14. CASE FinalCheck
  BY <1>14 DEF FinalCheck
<1>15. CASE Declare
  BY <1>15 DEF Declare
<1>16. CASE ShutsDown
  BY <1>16 DEF ShutsDown
<1>17. CASE FinJoins
  BY <1>17 DEF FinJoins, CaptureEnded
<1>18. CASE FinTearsDown
  BY <1>18 DEF FinTearsDown, Stuck
<1>19. CASE Signal
  BY <1>19 DEF Signal
<1>20. CASE CsiStalls
  BY <1>20 DEF CsiStalls
<1>21. CASE CsiResumes
  BY <1>21 DEF CsiResumes
<1>22. CASE StreamEnds
  BY <1>22 DEF StreamEnds
<1>23. CASE DaemonCrashes
  BY <1>23 DEF DaemonCrashes, SessionLost
<1>24. CASE DaemonRestarts
  BY <1>24 DEF DaemonRestarts
<1>25. CASE DaemonWedges
  BY <1>25 DEF DaemonWedges, SessionLost
<1>26. CASE Tick
  BY <1>26 DEF Tick, MainWaits, CapWaits, FinWaits, DeadlinePassed,
               CaptureEnded, Stuck, StopDeadline, UpTo, Less
<1>27. CASE LibraryCrashes
  BY <1>27 DEF LibraryCrashes
<1>28. CASE UNCHANGED vars
  BY <1>28 DEF vars
<1> QED
  BY <1>1, <1>2, <1>3, <1>4, <1>5, <1>6, <1>7, <1>8, <1>9, <1>10, <1>11,
     <1>12, <1>13, <1>14, <1>15, <1>16, <1>17, <1>18, <1>19, <1>20, <1>21,
     <1>22, <1>23, <1>24, <1>25, <1>26, <1>27, <1>28 DEF Next, MainThread,
     CaptureThread, FinisherThread, Environment, Exited

\* While every daemon call returns in less than half the deadline, no stop ends
\* in _Exit, whichever call it interrupts (lines 343-376).
THEOREM DeadlineTheorem ==
  ASSUME CallSeconds + CallSeconds < StopDeadline
  PROVE  Spec => []ForcedOnlyIfWedged
<1>1. Init => OnTime
  BY CameraConstants DEF CameraConstants, Init, OnTime, ForcedOnlyIfWedged
<1>2. IInv /\ OnTime /\ [Next]_vars => OnTime'
  BY OnTimeStep
<1>3. OnTime => ForcedOnlyIfWedged
  BY DEF OnTime
<1> QED
  BY Invariance, <1>1, <1>2, <1>3, PTL DEF Spec

(***************************************************************************)
(* The process is a CameraLife.                                            *)
(***************************************************************************)

\* What each location of the capture thread says of the session and the rest.
Settled ==
  /\ main = "construct" => pipe = "none"
  /\ cap = "teardown" => pipe = "playing"
  /\ cap \in {"backoff", "start"} => pipe = "none"
  /\ cap = "backoff" => /\ 1 <= backoff /\ backoff <= BackoffDelay(rebuilds)
                        /\ capLeft <= 1

LEMMA DelayRests ==
  ASSUME NEW n \in Nat
  PROVE  BackoffDelay(n) \in Nat /\ BackoffDelay(n) >= 2
BY DEF BackoffDelay

LEMMA SettledStep ==
  ASSUME IInv, Settled, [Next]_vars
  PROVE  Settled'
<1>0. rebuilds \in Nat /\ backoff \in Nat /\ capLeft \in Nat
  BY CameraConstants DEF CameraConstants, IInv, TypeOK
<1>d. BackoffDelay(rebuilds) \in Nat /\ BackoffDelay(rebuilds) >= 2
  BY <1>0, DelayRests
<1> USE <1>0, <1>d
    DEF Phases, Settled, KeepGoing,
        MainSteps, CapSteps, FinSteps, EnvChanges,
        flags, counters, ending, session, time, world
<1>i. Phases /\ PullsOpenPipeline /\ OneThreadOnPipeline
  BY DEF IInv, Released
<1>1. CASE MainThread
  BY <1>1, <1>i DEF MainThread, Construct, ConstructThrows, SpinReturns,
     StopReturns, StopForced, PipelineStarts, PipelineThrows, LoopHead
<1>2. CASE PullSample \/ PullInterrupted \/ PullStalls
  BY <1>2, <1>i DEF PullSample, PullInterrupted, PullStalls, PullIsEmpty,
     LoopHead
<1>3. CASE PullWedged
  BY <1>3, <1>i DEF PullWedged, PullIsEmpty, PullsOpenPipeline
<1>4. CASE CapTearsDown
  BY <1>4, <1>i DEF CapTearsDown, BackoffDelay
<1>5. CASE BackoffWakes
  BY <1>5, <1>i DEF BackoffWakes, SleepsOn, BackoffDelay
<1>6. CASE Rebuilt \/ RebuildThrows
  BY <1>6, <1>i DEF Rebuilt, RebuildThrows, PipelineStarts, PipelineThrows,
     LoopHead, LeavesLoop
<1>7. CASE FinalCheck \/ Declare \/ ShutsDown
  BY <1>7, <1>i DEF FinalCheck, Declare, ShutsDown
<1>8. CASE FinisherThread
  BY <1>8, <1>i DEF FinisherThread, FinJoins, FinTearsDown, CaptureEnded,
     OneThreadOnPipeline
<1>9. CASE Environment
  BY <1>9, <1>i DEF Environment, Signal, CsiStalls, CsiResumes, StreamEnds,
     DaemonCrashes, LibraryCrashes, DaemonRestarts, DaemonWedges
<1>10. CASE Tick
  BY <1>10, <1>i DEF Tick, Less, BackoffDelay
<1>11. CASE UNCHANGED vars
  BY <1>11, <1>i DEF vars, BackoffDelay
<1> QED
  BY <1>1, <1>2, <1>3, <1>4, <1>5, <1>6, <1>7, <1>8, <1>9, <1>10, <1>11
     DEF Next, CaptureThread, Exited

LEMMA SettledAlways == Spec => []Settled
<1>1. Init => Settled
  BY DEF Init, Settled
<1>2. IInv /\ Settled /\ [Next]_vars => Settled'
  BY SettledStep
<1> QED
  BY Invariance, <1>1, <1>2, PTL DEF Spec

lifeVars == <<LifePhase, pipe # "none", LifeRested, signalled, LifeCode>>

\* What the locations and the pipeline say of the life.
Seen ==
  /\ main = "construct" => LifePhase = "starting"
  /\ main = "exit" => LifePhase = "gone"
  /\ main \in {"spin", "stop"} /\ cap \in {"backoff", "start"} =>
       LifePhase = "resting"
  /\ main \in {"spin", "stop"} /\ cap \notin {"backoff", "start"} =>
       LifePhase = IF pipe = "none" THEN "over" ELSE "serving"
  /\ main \in {"construct", "exit"} => LifeRested = 0
  /\ main \in {"spin", "stop"} /\ cap \notin {"backoff", "start"} =>
       LifeRested = 0
  /\ main \in {"spin", "stop"} /\ cap = "start" => LifeRested = 2
  /\ main \in {"spin", "stop"} /\ cap = "backoff" =>
       LifeRested = IF Slept < 2 THEN Slept ELSE 2
  /\ LifeCode = IF main = "exit" THEN exitCode ELSE 0

LEMMA SeenNow == Seen /\ Seen'
BY DEF Seen, LifePhase, LifeRested, LifeCode

LEMMA LifeStep ==
  ASSUME IInv, Settled, [Next]_vars, IInv'
  PROVE  [Life!Next]_lifeVars
<1>0. /\ rebuilds \in Nat /\ backoff \in Nat /\ capLeft \in Nat
      /\ rebuilds' \in Nat /\ backoff' \in Nat /\ capLeft' \in Nat
      /\ main \in {"construct", "spin", "stop", "exit"}
      /\ cap \in CapStates
      /\ pipe \in {"none", "broken", "playing"}
      /\ exitCode \in {0, 1} /\ exitCode' \in {0, 1}
  BY CameraConstants DEF CameraConstants, IInv, TypeOK
<1>d. BackoffDelay(rebuilds) \in Nat /\ BackoffDelay(rebuilds) >= 2
  BY <1>0, DelayRests
<1>i. Phases /\ PullsOpenPipeline /\ OneThreadOnPipeline /\ Released
  BY DEF IInv, Released
<1>s. Seen /\ Seen'
  BY SeenNow
<1> USE <1>0, <1>d, <1>s
    DEF Settled, Seen, KeepGoing, CapStates, lifeVars,
        MainSteps, CapSteps, FinSteps, EnvChanges,
        flags, counters, ending, session, time, world
<1>1. CASE Construct
  <2>1. Life!Opens
    BY <1>1, <1>i DEF Phases, Construct, PipelineStarts, LoopHead, Life!Opens
  <2> QED
    BY <2>1 DEF Life!Next
<1>2. CASE ConstructThrows
  <2>1. Life!FailsToStart
    BY <1>2, <1>i
       DEF Phases, ConstructThrows, PipelineThrows, Life!FailsToStart
  <2> QED
    BY <2>1 DEF Life!Next
<1>3. CASE SpinReturns
  BY <1>3 DEF SpinReturns, Slept
<1>4. CASE StopReturns
  <2>1. Life!EndsCleanly
    BY <1>4, <1>i
       DEF IInv, Reasons, Released, OneThreadOnPipeline, StopReturns,
           Life!EndsCleanly
  <2> QED
    BY <2>1 DEF Life!Next
<1>5. CASE StopForced
  <2>1. Life!EndsForced
    BY <1>5 DEF StopForced, Life!EndsForced
  <2> QED
    BY <2>1 DEF Life!Next
<1>6. CASE PullSample
  BY <1>6, <1>i DEF PullSample, LoopHead, Phases
<1>7. CASE PullInterrupted
  BY <1>7, <1>i DEF PullInterrupted, PullIsEmpty, Phases
<1>8. CASE PullStalls
  BY <1>8, <1>i DEF PullStalls, PullIsEmpty, LoopHead, Phases
<1>9. CASE PullWedged
  BY <1>9, <1>i DEF PullWedged, PullIsEmpty, Phases
<1>10. CASE CapTearsDown
  <2>1. CASE KeepGoing
    <3>1. LifePhase = "serving" /\ LifePhase' = "resting" /\ LifeRested = 0
      BY <1>10, <2>1 DEF CapTearsDown
    <3>2. backoff' = BackoffDelay(rebuilds') /\ capLeft' = 1
      BY <1>10, <2>1 DEF CapTearsDown, BackoffDelay
    <3>4. BackoffDelay(rebuilds') \in Nat
      BY DelayRests
    <3>5. Slept' = 0
      BY <3>2, <3>4 DEF Slept
    <3>6. LifeRested' = 0
      BY <1>10, <2>1, <3>5 DEF CapTearsDown
    <3>7. Life!Rests
      BY <1>10, <2>1, <3>1, <3>6 DEF CapTearsDown, Life!Rests
    <3> QED
      BY <3>7 DEF Life!Next
  <2>2. CASE ~KeepGoing
    <3>1. Life!Closes
      BY <1>10, <2>2 DEF CapTearsDown, Life!Closes
    <3> QED
      BY <3>1 DEF Life!Next
  <2> QED
    BY <2>1, <2>2
<1>11. CASE BackoffWakes
  <2>1. CASE cap' = "final"
    <3>1. Life!Closes
      BY <1>11, <2>1 DEF BackoffWakes, Life!Closes
    <3> QED
      BY <3>1 DEF Life!Next
  <2>2. CASE cap' = "start"
    <3>1. backoff = 1 /\ capLeft = 0
      BY <1>11, <2>2 DEF BackoffWakes, SleepsOn
    <3>2. LifeRested = 2
      BY <1>11, <3>1 DEF BackoffWakes, Slept
    <3> QED
      BY <1>11, <2>2, <3>2 DEF BackoffWakes
  <2>3. CASE cap' = "backoff"
    <3>1. Slept' = Slept
      BY <1>11, <2>3 DEF BackoffWakes, Slept, BackoffDelay
    <3> QED
      BY <1>11, <2>3, <3>1 DEF BackoffWakes
  <2> QED
    BY <1>11, <2>1, <2>2, <2>3 DEF BackoffWakes
<1>12. CASE Rebuilt
  <2>1. Life!Opens
    BY <1>12 DEF Rebuilt, PipelineStarts, LoopHead, Life!Opens, Life!LeastRest
  <2> QED
    BY <2>1 DEF Life!Next
<1>13. CASE RebuildThrows
  <2>1. Life!Opens \/ Life!Closes
    BY <1>13 DEF RebuildThrows, PipelineThrows, LeavesLoop, Life!Opens,
       Life!LeastRest, Life!Closes
  <2> QED
    BY <2>1 DEF Life!Next
<1>14. CASE FinalCheck \/ Declare \/ ShutsDown
  BY <1>14 DEF FinalCheck, Declare, ShutsDown
<1>15. CASE FinJoins
  BY <1>15 DEF FinJoins, Slept
<1>16. CASE FinTearsDown
  <2>1. CASE pipe = "none"
    BY <1>16, <1>i, <2>1 DEF FinTearsDown, OneThreadOnPipeline
  <2>2. CASE pipe # "none"
    <3>1. Life!Closes
      BY <1>16, <1>i, <2>2 DEF FinTearsDown, OneThreadOnPipeline, Life!Closes
    <3> QED
      BY <3>1 DEF Life!Next
  <2> QED
    BY <2>1, <2>2
<1>17. CASE Signal
  <2>1. Life!Asked
    BY <1>17 DEF Signal, Slept, BackoffDelay, Life!Asked
  <2> QED
    BY <2>1 DEF Life!Next
<1>18. CASE Environment /\ ~Signal /\ ~LibraryCrashes
  <2>1. /\ UNCHANGED <<main, cap, pipe, exitCode, signalled>>
        /\ UNCHANGED <<rebuilds, backoff, capLeft>>
    BY <1>18 DEF Environment, CsiStalls, CsiResumes, StreamEnds,
       DaemonCrashes, DaemonRestarts, DaemonWedges
  <2>2. Slept' = Slept
    BY <2>1 DEF Slept, BackoffDelay
  <2> QED
    BY <2>1, <2>2
<1>19. CASE Tick
  <2>1. CASE cap = "backoff" /\ capLeft = 1
    <3>1. Slept' = Slept + 1 /\ Slept >= 0 /\ Slept \in Int
      BY <1>19, <2>1 DEF Tick, Slept, BackoffDelay, Less
    <3>2. CASE Slept < 2
      <4>1. Life!RestsOn
        BY <1>19, <2>1, <3>1, <3>2
           DEF Tick, MainWaits, Life!RestsOn, Life!LeastRest
      <4> QED
        BY <4>1 DEF Life!Next
    <3>3. CASE ~(Slept < 2)
      BY <1>19, <2>1, <3>1, <3>3 DEF Tick
    <3> QED
      BY <3>2, <3>3
  <2>2. CASE ~(cap = "backoff" /\ capLeft = 1)
    <3>1. cap = "backoff" => capLeft' = capLeft
      BY <1>19, <2>2 DEF Tick, Less
    <3>2. cap = "backoff" => Slept' = Slept
      BY <1>19, <3>1 DEF Tick, Slept, BackoffDelay
    <3> QED
      BY <1>19, <3>2 DEF Tick
  <2> QED
    BY <2>1, <2>2
<1>20. CASE LibraryCrashes
  <2>1. main \in {"spin", "stop"}
    BY <1>20 DEF LibraryCrashes
  <2>2. Life!EndsForced
    BY <1>20, <2>1 DEF LibraryCrashes, Life!EndsForced
  <2> QED
    BY <2>2 DEF Life!Next
<1>21. CASE UNCHANGED vars
  BY <1>21 DEF vars, Slept, BackoffDelay
<1> QED
  BY <1>1, <1>2, <1>3, <1>4, <1>5, <1>6, <1>7, <1>8, <1>9, <1>10, <1>11,
     <1>12, <1>13, <1>14, <1>15, <1>16, <1>17, <1>18, <1>19, <1>20, <1>21
     DEF Next, MainThread, CaptureThread, FinisherThread, Exited

\* Every behaviour of the driver, whatever fails in it, is one of CameraLife:
\* the rest between two sessions, the session a process leaves behind and the
\* exit code are as the daemon and the supervisor are promised.
THEOREM LifeTheorem == Spec => ImplementsLife
<1>1. Init => Life!Init
  BY DEF Init, Life!Init, LifePhase, LifeRested, LifeCode
<1>2. IInv /\ Settled /\ [Next]_vars /\ IInv' => [Life!Next]_lifeVars
  BY LifeStep
<1> QED
  BY Invariance, SettledAlways, <1>1, <1>2, PTL
     DEF Spec, ImplementsLife, Life!Spec, lifeVars

(***************************************************************************)
(* An outage of the daemon against the schedule of the rebuilds.           *)
(***************************************************************************)

\* The first n backoffs together: 2, 6, 12, 20, 30, 40 ...
LEMMA BackoffSums ==
  /\ BackoffSum(0) = 0
  /\ \A n \in Nat : /\ BackoffSum(n) \in Nat
                    /\ BackoffSum(n + 1) = BackoffSum(n) + BackoffDelay(n)
  /\ \A m, n \in Nat : m <= n => BackoffSum(m) <= BackoffSum(n)
<1>1. ASSUME NEW n \in Nat
      PROVE  \/ n \in {0, 1, 2, 3, 4} /\ BackoffSum(n) = n * (n + 1)
             \/ n > 4 /\ BackoffSum(n) = 10 * n - 20
  BY DEF BackoffSum
<1>2. ASSUME NEW n \in Nat
      PROVE  BackoffSum(n) \in Nat
  BY <1>1
<1>3. ASSUME NEW n \in Nat
      PROVE  BackoffSum(n + 1) = BackoffSum(n) + BackoffDelay(n)
  <2>1. CASE n \in {0, 1, 2, 3, 4}
    BY <2>1 DEF BackoffSum, BackoffDelay
  <2>2. CASE n > 4
    BY <2>2 DEF BackoffSum, BackoffDelay
  <2> QED
    BY <1>1, <2>1, <2>2
<1>4. ASSUME NEW m \in Nat, NEW n \in Nat, m <= n
      PROVE  BackoffSum(m) <= BackoffSum(n)
  <2>1. CASE m \in {0, 1, 2, 3, 4} /\ n \in {0, 1, 2, 3, 4}
    BY <1>4, <2>1 DEF BackoffSum
  <2>2. CASE m \in {0, 1, 2, 3, 4} /\ n > 4
    BY <2>2 DEF BackoffSum
  <2>3. CASE m > 4 /\ n > 4
    BY <1>4, <2>3 DEF BackoffSum
  <2> QED
    BY <1>1, <1>4, <2>1, <2>2, <2>3
<1> QED
  BY <1>2, <1>3, <1>4 DEF BackoffSum

\* One outage of the daemon, over before the schedule reaches its last session
\* when every lost session ends at once.  A live sensor that fails by itself, or
\* a second outage, uses up rebuilds of its own; refusals, a socket left behind
\* by the restart and a client library that crashes are all allowed.
Outlived ==
  /\ "stall" \notin Faults /\ "eos" \notin Faults /\ "wedge" \notin Faults
  /\ MaxCrashes <= 1
  /\ OutageSeconds < BackoffSum(MaxRebuilds)

\* The loop is left on request, on a refusal, or with no daemon in sight.
Wanted ==
  /\ unrecoverable => cap \in {"shutdown", "done"}
  /\ \/ cap = "final" /\ KeepGoing
     \/ cap \in {"declare", "shutdown"}
     \/ unrecoverable
     => pipe # "playing" \/ orphaned

\* Before the outage there is nothing to rebuild.
Calm ==
  /\ feed # "mute" /\ daemon # "wedged"
  /\ daemon = "down" => crashes = 1
  /\ orphaned => "orphan" \in Faults
  /\ crashes = 0 /\ ~orphaned => /\ rebuilds = 0 /\ feed \in {"none", "live"}
                                 /\ cap \notin {"teardown", "backoff", "start"}
  /\ main = "construct" => rebuilds = 0

\* During the outage the loop does not get ahead of it, and a lost session was
\* opened before it was over.
Paced ==
  /\ cap = "pull" /\ feed \in {"dead", "eos"} =>
       BackoffSum(rebuilds) <= OutageSeconds
  /\ daemon = "down" =>
       /\ cap \in {"pull", "teardown"} => BackoffSum(rebuilds) <= outage
       /\ cap = "backoff" =>
            BackoffSum(rebuilds) + BackoffDelay(rebuilds) - backoff + 1
              - capLeft <= outage
       /\ cap = "start" => BackoffSum(rebuilds + 1) <= outage

OutlivedInv == Wanted /\ Calm /\ (Paced \/ orphaned)

LEMMA OutlivedStep ==
  ASSUME Outlived, IInv, Settled, OutlivedInv, [Next]_vars
  PROVE  OutlivedInv'
<1>1. /\ rebuilds \in Nat /\ backoff \in Nat /\ capLeft \in Nat
      /\ outage \in Nat /\ crashes \in Nat
      /\ outage <= OutageSeconds /\ rebuilds <= MaxRebuilds
      /\ crashes <= MaxCrashes
      /\ MaxRebuilds \in Nat /\ MaxCrashes \in Nat /\ OutageSeconds \in Nat
      /\ feed \in {"none", "live", "mute", "dead", "eos"}
      /\ daemon \in {"up", "down", "wedged"}
  BY CameraConstants DEF CameraConstants, IInv, TypeOK
<1>2. /\ BackoffSum(0) = 0 /\ BackoffSum(rebuilds) \in Nat
      /\ BackoffSum(rebuilds + 1) = BackoffSum(rebuilds) + BackoffDelay(rebuilds)
      /\ BackoffSum(MaxRebuilds) \in Nat
      /\ BackoffDelay(rebuilds) \in Nat
  BY <1>1, BackoffSums, DelayRests
<1>3. /\ OutageSeconds < BackoffSum(MaxRebuilds) /\ MaxCrashes <= 1
      /\ "stall" \notin Faults /\ "eos" \notin Faults /\ "wedge" \notin Faults
  BY DEF Outlived
<1>4. /\ main = "construct" => cap = "none"
      /\ fin = "teardown" => cap = "done"
      /\ cap = "none" => main \in {"construct", "exit"}
  BY DEF IInv, Phases, Released, OneThreadOnPipeline
<1> USE <1>1, <1>2, <1>3, <1>4
    DEF OutlivedInv, Wanted, Calm, Paced, KeepGoing, MainSteps, CapSteps,
        FinSteps, EnvChanges, flags, counters, ending, session, time, world
<1>5. CASE Construct
  BY <1>5 DEF Construct, PipelineStarts, ReachesDaemon, LoopHead
<1>6. CASE ConstructThrows
  BY <1>6 DEF ConstructThrows, PipelineThrows
<1>7. CASE SpinReturns
  BY <1>7 DEF SpinReturns
<1>8. CASE StopReturns \/ StopForced
  BY <1>8 DEF StopReturns, StopForced
<1>9. CASE PullSample
  BY <1>9 DEF PullSample, LoopHead
<1>10. CASE PullInterrupted
  BY <1>10 DEF PullInterrupted, PullIsEmpty
<1>11. CASE PullStalls
  BY <1>11 DEF PullStalls, PullIsEmpty, StallExpired, LoopHead
<1>12. CASE PullWedged
  <2>1. cap = "pull" /\ feed \in {"dead", "eos"}
    BY <1>12 DEF PullWedged, PullIsEmpty
  <2>2. (rebuilds # MaxRebuilds /\ ~RebuildsExhausted) \/ orphaned
    BY <2>1 DEF RebuildsExhausted
  <2> QED
    BY <1>12, <2>1, <2>2 DEF PullWedged, PullIsEmpty
<1>13. CASE CapTearsDown
  BY <1>13 DEF CapTearsDown
<1>14. CASE BackoffWakes
  BY <1>14 DEF BackoffWakes, SleepsOn, Settled
<1>15. CASE Rebuilt
  BY <1>15 DEF Rebuilt, PipelineStarts, ReachesDaemon, CountersRestart, LoopHead
<1>16. CASE RebuildThrows
  BY <1>16 DEF RebuildThrows, PipelineThrows, LeavesLoop
<1>17. CASE FinalCheck
  BY <1>17 DEF FinalCheck
<1>18. CASE Declare \/ ShutsDown
  BY <1>18 DEF Declare, ShutsDown
<1>19. CASE FinJoins
  BY <1>19 DEF FinJoins
<1>20. CASE FinTearsDown
  BY <1>20 DEF FinTearsDown
<1>21. CASE Signal
  BY <1>21 DEF Signal
<1>22. CASE CsiStalls \/ CsiResumes \/ DaemonWedges
  BY <1>22 DEF CsiStalls, CsiResumes, DaemonWedges
<1>23. CASE StreamEnds
  BY <1>23 DEF StreamEnds
<1>24. CASE DaemonCrashes
  BY <1>24 DEF DaemonCrashes, SessionLost
<1>25. CASE LibraryCrashes
  BY <1>25 DEF LibraryCrashes
<1>26. CASE DaemonRestarts
  BY <1>26 DEF DaemonRestarts
<1>27. CASE Tick
  BY <1>27 DEF Tick, CapWaits, Less
<1>28. CASE UNCHANGED vars
  BY <1>28 DEF vars
<1> QED
  BY <1>5, <1>6, <1>7, <1>8, <1>9, <1>10, <1>11, <1>12, <1>13, <1>14, <1>15,
     <1>16, <1>17, <1>18, <1>19, <1>20, <1>21, <1>22, <1>23, <1>24, <1>25,
     <1>26, <1>27, <1>28
     DEF Next, MainThread, CaptureThread, FinisherThread, Environment, Exited

\* One outage shorter than all backoffs together, 80 seconds by default, never
\* makes the driver give up on an open session that reaches the daemon: wherever
\* the crash finds the loop, whether the lost sessions fall silent or report
\* their end at once, and with refused rebuilds, a crashing client library or a
\* left-behind socket possible throughout (lines 59-63, 192-221, 242-249).
THEOREM OutageTheorem ==
  ASSUME Outlived
  PROVE  Spec => []RidesOutOutage
<1>1. Init => OutlivedInv
  BY BackoffSums DEF Init, Outlived, OutlivedInv, Wanted, Calm, Paced
<1>2. IInv /\ Settled /\ OutlivedInv /\ [Next]_vars => OutlivedInv'
  BY OutlivedStep
<1>3. OutlivedInv => RidesOutOutage
  BY DEF OutlivedInv, Wanted, RidesOutOutage
<1> QED
  BY Invariance, SettledAlways, <1>1, <1>2, <1>3, PTL DEF Spec

(***************************************************************************)
(* How long the node may be without a sample.                              *)
(***************************************************************************)
LEMMA OpenedInTime ==
  /\ \A n \in Nat :
       /\ OpenedBy(n) \in Nat
       /\ OpenedBy(n + 1)
            = OpenedBy(n) + StallRestartSec + 2 * CallSeconds + BackoffDelay(n)
  /\ \A m, n \in Nat : m <= n => OpenedBy(m) <= OpenedBy(n)
<1> DEFINE c == StallRestartSec + 2 * CallSeconds
<1>1. c \in Nat
  BY CameraConstants DEF CameraConstants
<1>2. \A n \in Nat : n * c \in Nat /\ (n + 1) * c = n * c + c
  <2> HIDE DEF c
  <2> QED
    BY <1>1
<1>3. \A m, n \in Nat : m <= n => m * c <= n * c
  <2> HIDE DEF c
  <2> QED
    BY <1>1
<1>4. \A n \in Nat : OpenedBy(n) = n * c + BackoffSum(n)
  BY DEF OpenedBy
<1> HIDE DEF c
<1>5. ASSUME NEW n \in Nat
      PROVE  /\ OpenedBy(n) \in Nat
             /\ OpenedBy(n + 1) = OpenedBy(n) + c + BackoffDelay(n)
  <2>1. /\ BackoffSum(n) \in Nat /\ BackoffDelay(n) \in Nat
        /\ BackoffSum(n + 1) = BackoffSum(n) + BackoffDelay(n)
    BY BackoffSums, DelayRests
  <2> QED
    BY <1>1, <1>2, <1>4, <2>1
<1>6. ASSUME NEW m \in Nat, NEW n \in Nat, m <= n
      PROVE  OpenedBy(m) <= OpenedBy(n)
  <2>1. /\ BackoffSum(m) <= BackoffSum(n)
        /\ BackoffSum(m) \in Nat /\ BackoffSum(n) \in Nat
    BY <1>6, BackoffSums
  <2>2. m * c <= n * c /\ m * c \in Nat /\ n * c \in Nat
    BY <1>2, <1>3, <1>6
  <2> QED
    BY <1>4, <2>1, <2>2
<1> QED
  BY <1>5, <1>6, CameraConstants DEF c, CameraConstants

\* By when the capture thread has reached each place, and the finisher its end.
OnClock ==
  /\ silent \in Nat
  /\ cap \in {"pull", "backoff"} => capLeft <= 1
  /\ cap \in {"teardown", "start"} => capLeft <= CallSeconds
  /\ fin = "teardown" => finLeft <= CallSeconds
  /\ cap = "done" => ~KeepGoing
  /\ daemon # "wedged" =>
       /\ silent <= Patience
       /\ main = "construct" => silent = 0
       /\ cap = "pull" =>
            silent <= OpenedBy(rebuilds) + stalled + 1 - capLeft
       /\ cap = "teardown" =>
            silent <= OpenedBy(rebuilds) + StallRestartSec + CallSeconds
                        - capLeft
       /\ cap = "backoff" =>
            silent <= OpenedBy(rebuilds) + StallRestartSec + CallSeconds
                        + BackoffDelay(rebuilds) - backoff + 1 - capLeft
       /\ cap = "start" => silent <= OpenedBy(rebuilds + 1) - capLeft
       /\ cap \in {"final", "declare", "shutdown"} => silent <= GivenUpBy
       /\ cap = "done" /\ fin \in {"none", "join"} => silent <= GivenUpBy
       /\ fin = "teardown" => silent <= Patience - finLeft

LEMMA OnClockStep ==
  ASSUME IInv, Settled, OnClock, ClockNext
  PROVE  OnClock'
<1>1. /\ rebuilds \in Nat /\ stalled \in Nat /\ backoff \in Nat
      /\ capLeft \in Nat /\ finLeft \in Nat
      /\ rebuilds <= MaxRebuilds /\ MaxRebuilds \in Nat
      /\ StallRestartSec \in Nat \ {0} /\ CallSeconds \in Nat \ {0}
  BY CameraConstants DEF CameraConstants, IInv, TypeOK
<1>2. /\ OpenedBy(0) \in Nat
      /\ OpenedBy(rebuilds) \in Nat /\ OpenedBy(rebuilds + 1) \in Nat
      /\ OpenedBy(rebuilds + 1) = OpenedBy(rebuilds) + StallRestartSec
                                    + 2 * CallSeconds + BackoffDelay(rebuilds)
      /\ OpenedBy(MaxRebuilds) \in Nat
      /\ OpenedBy(rebuilds) <= OpenedBy(MaxRebuilds)
      /\ rebuilds < MaxRebuilds
           => OpenedBy(rebuilds + 1) <= OpenedBy(MaxRebuilds)
      /\ BackoffDelay(rebuilds) \in Nat
  <2>1. /\ 0 \in Nat /\ rebuilds + 1 \in Nat
        /\ rebuilds < MaxRebuilds => rebuilds + 1 <= MaxRebuilds
    BY <1>1
  <2> QED
    BY <1>1, <2>1, OpenedInTime, DelayRests
<1>3. /\ GivenUpBy = OpenedBy(MaxRebuilds) + StallRestartSec
      /\ Patience = GivenUpBy + CallSeconds
  BY DEF GivenUpBy, Patience
<1>4. /\ cap = "pull" => stalled < StallRestartSec
      /\ cap \in {"teardown", "backoff", "start"} => rebuilds < MaxRebuilds
      /\ main = "construct" => cap = "none" /\ stalled = 0 /\ fin = "none"
      /\ fin \in {"teardown", "done"} => cap = "done"
      /\ main = "spin" => running /\ fin = "none"
      /\ main = "stop" => ~running /\ fin # "none"
      /\ fin \in {"none", "join", "teardown", "done"}
      /\ cap = "backoff" => 1 <= backoff
  BY DEF IInv, TypeOK, Phases, Counters, Released, OneThreadOnPipeline, Settled
<1>5. /\ PullSample => silent' = 0
      /\ Tick /\ ~PullSample => silent' \in Nat /\ silent' <= silent + 1
      /\ ~Tick /\ ~PullSample => silent' = silent
  <2>1. Patience \in Nat /\ silent \in Nat
    BY <1>1, <1>2, <1>3 DEF OnClock
  <2>2. UpTo(Patience + 1, silent) \in Nat
          /\ UpTo(Patience + 1, silent) <= silent + 1
    BY <2>1 DEF UpTo
  <2> QED
    BY <2>2 DEF ClockNext
<1>6. silent \in Nat /\ silent' \in Nat
  BY <1>5 DEF OnClock
<1> USE <1>1, <1>2, <1>3, <1>4, <1>6
    DEF OnClock, KeepGoing, MainSteps, CapSteps, FinSteps,
        EnvChanges, flags, counters, ending, session, time, world
<1>7. CASE PullSample
  BY <1>5, <1>7 DEF PullSample, LoopHead
<1>8. CASE Tick /\ ~PullSample
  <2>1. silent' <= silent + 1
    BY <1>5, <1>8
  <2>2. /\ UNCHANGED <<main, cap, fin, flags, counters, daemon>>
        /\ capLeft' = Less(capLeft) /\ finLeft' = Less(finLeft)
        /\ main \in {"spin", "stop"}
        /\ main = "spin" => rosOk
        /\ main = "stop" => fin # "done"
    BY <1>8 DEF Tick, MainWaits
  <2>3. /\ fin = "join" => cap # "done"
        /\ daemon # "wedged" /\ fin = "teardown" => finLeft > 0
    BY <1>8 DEF Tick, FinWaits, CaptureEnded, Stuck
  <2>4. daemon # "wedged" /\ cap # "done" =>
          cap \in {"pull", "backoff", "start", "teardown"} /\ capLeft > 0
    BY <1>8 DEF Tick, CapWaits, Stuck
  <2>5. /\ capLeft > 0 => capLeft' = capLeft - 1
        /\ finLeft > 0 => finLeft' = finLeft - 1
        /\ capLeft' \in Nat /\ capLeft' <= capLeft
        /\ finLeft' \in Nat /\ finLeft' <= finLeft
    BY <2>2 DEF Less
  <2>6. CASE daemon = "wedged"
    BY <2>2, <2>5, <2>6
  <2>7. CASE daemon # "wedged" /\ cap = "done"
    <3>0. ~KeepGoing
      BY <2>7, Zenon
    <3>1. main = "stop" /\ fin = "teardown"
      <4>1. main # "spin"
        BY <2>2, <3>0, Zenon
      <4> QED
        BY <2>2, <2>3, <2>7, <4>1
    <3>2. silent' <= Patience - finLeft'
      BY <2>1, <2>3, <2>5, <2>7, <3>1
    <3> QED
      BY <2>2, <2>5, <2>7, <3>1, <3>2
  <2>8. CASE daemon # "wedged" /\ cap # "done"
    <3>1. fin # "teardown"
      BY <2>8
    <3>2. cap = "pull" => silent + 1 <= OpenedBy(rebuilds) + stalled + 1 - capLeft'
      BY <2>4, <2>5, <2>8
    <3> QED
      BY <2>1, <2>2, <2>3, <2>4, <2>5, <2>8, <3>1, <3>2
  <2> QED
    BY <2>6, <2>7, <2>8
<1>9. CASE ~Tick /\ ~PullSample
  <2>0. silent' = silent
    BY <1>5, <1>9
  <2> USE <2>0
  <2>1. CASE Construct
    BY <2>1 DEF Construct, PipelineStarts, LoopHead
  <2>2. CASE ConstructThrows
    BY <2>2 DEF ConstructThrows, PipelineThrows
  <2>3. CASE SpinReturns
    BY <2>3 DEF SpinReturns
  <2>4. CASE StopReturns \/ StopForced
    BY <2>4 DEF StopReturns, StopForced
  <2>5. CASE PullInterrupted
    BY <2>5 DEF PullInterrupted, PullIsEmpty
  <2>6. CASE PullStalls
    BY <2>6 DEF PullStalls, PullIsEmpty, StallExpired, LoopHead
  <2>7. CASE PullWedged
    BY <2>7 DEF PullWedged, PullIsEmpty, RebuildsExhausted
  <2>8. CASE CapTearsDown
    BY <2>8 DEF CapTearsDown
  <2>9. CASE BackoffWakes
    BY <2>9 DEF BackoffWakes, SleepsOn
  <2>10. CASE Rebuilt
    BY <2>10 DEF Rebuilt, PipelineStarts, CountersRestart, LoopHead
  <2>11. CASE RebuildThrows
    BY <2>11 DEF RebuildThrows, PipelineThrows, LeavesLoop
  <2>12. CASE FinalCheck
    BY <2>12 DEF FinalCheck
  <2>13. CASE Declare \/ ShutsDown
    BY <2>13 DEF Declare, ShutsDown
  <2>14. CASE FinJoins
    BY <2>14 DEF FinJoins, CaptureEnded
  <2>15. CASE FinTearsDown
    BY <2>15 DEF FinTearsDown
  <2>16. CASE Signal
    BY <2>16 DEF Signal
  <2>17. CASE CsiStalls \/ CsiResumes \/ StreamEnds
    BY <2>17 DEF CsiStalls, CsiResumes, StreamEnds
  <2>18. CASE DaemonCrashes \/ LibraryCrashes
    BY <2>18 DEF DaemonCrashes, LibraryCrashes
  <2>19. CASE DaemonRestarts
    BY <2>19 DEF DaemonRestarts
  <2>20. CASE DaemonWedges
    BY <2>20 DEF DaemonWedges
  <2>21. CASE UNCHANGED vars
    BY <2>21 DEF vars
  <2> QED
    BY <1>9, <2>1, <2>2, <2>3, <2>4, <2>5, <2>6, <2>7, <2>8, <2>9, <2>10,
       <2>11, <2>12, <2>13, <2>14, <2>15, <2>16, <2>17, <2>18, <2>19, <2>20,
       <2>21
       DEF ClockNext, Next, MainThread, CaptureThread, FinisherThread,
           Environment, Exited
<1> QED
  BY <1>7, <1>8, <1>9

\* Whatever fails, however often, and whenever a signal comes: while the
\* daemon's calls return, the node is without a sample for at most as long as
\* all rebuilds and one more teardown take, 177 seconds with the parameters'
\* defaults and calls of two seconds, unless it has exited (lines 59-63,
\* 214-216, 228-237, 242-249).
THEOREM InTimeTheorem == ClockSpec => []SamplesOrExitsInTime
<1>1. ClockInit => Init /\ OnClock
  <2> SUFFICES ASSUME ClockInit PROVE Init /\ OnClock
    OBVIOUS
  <2>1. Patience \in Nat
    BY OpenedInTime, CameraConstants DEF Patience, GivenUpBy, CameraConstants
  <2> QED
    BY <2>1 DEF ClockInit, Init, OnClock
<1>2. ClockSpec => Spec
  <2>1. ClockInit => Init
    BY DEF ClockInit
  <2>2. [ClockNext]_<<vars, silent>> => [Next]_vars
    BY Zenon DEF ClockNext
  <2> QED
    BY <2>1, <2>2, PTL DEF ClockSpec, Spec
<1>3. IInv /\ Settled /\ OnClock
        /\ [ClockNext]_<<vars, silent>> => OnClock'
  <2> SUFFICES ASSUME IInv, Settled, OnClock,
                      [ClockNext]_<<vars, silent>>
               PROVE  OnClock'
    OBVIOUS
  <2>1. CASE ClockNext
    BY <2>1, OnClockStep
  <2>2. CASE UNCHANGED <<vars, silent>>
    BY <2>2, Zenon
       DEF vars, flags, counters, ending, session, time, world, OnClock,
           KeepGoing
  <2> QED
    BY <2>1, <2>2
<1>4. OnClock => SamplesOrExitsInTime
  BY DEF OnClock, SamplesOrExitsInTime
<1>5. ClockSpec => [](IInv /\ Settled)
  BY Invariance, SettledAlways, <1>2, PTL
<1> QED
  BY <1>1, <1>3, <1>4, <1>5, PTL DEF ClockSpec
=============================================================================
