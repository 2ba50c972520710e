--------------------------- MODULE DetectorProofs ---------------------------
(***************************************************************************)
(* Proofs about Detector, for any number of frames, any of them of a       *)
(* foreign encoding.                                                       *)
(***************************************************************************)
EXTENDS Detector, TLAPS

\* The slot holds the newest frame, newer than the one the worker has; the
\* worker goes to sleep, or takes the slot, on what it saw under the mutex.
Handoff ==
  /\ slot \in {0, arrived} /\ frame <= arrived
  /\ slot # 0 => slot > frame
  /\ worker = "sleep" => slot = 0
  /\ worker = "take" => slot # 0 \/ ~running
  /\ NoLostWakeup

\* The frame in hand has not been published.
Unpublished ==
  /\ out.header <= frame
  /\ worker \in {"preprocess", "submit", "sync", "publish"} =>
       out.header < frame

\* Operations are outstanding only while the worker waits for them; it starts
\* when everything is there, and main releases nothing before it has ended.
Lifetime ==
  /\ worker # "sync" => stream = <<>>
  /\ main = "load" => worker = "none"
  /\ main = "exit" => worker \in {"none", "done", "crashed"}
  /\ worker \notin {"none", "done", "crashed"} =>
       Resources \ {"context"} \subseteq owned

\* No result is that of a later frame.
Backward ==
  /\ \A b \in Buffers : buf[b] <= frame
  /\ out.detections <= out.header /\ overlay.detections <= overlay.header
  /\ overlay.header <= out.header
  /\ worker = "draw" => out.header = frame /\ overlay.header < frame

DInv == TypeOK /\ Handoff /\ Unpublished /\ Lifetime /\ Backward

LEMMA StreamFacts ==
  /\ Head(Batch) = "h2d" /\ Tail(Batch) = <<"exec", "d2h">>
  /\ Head(<<"exec", "d2h">>) = "exec" /\ Tail(<<"exec", "d2h">>) = <<"d2h">>
  /\ Head(<<"d2h">>) = "d2h" /\ Tail(<<"d2h">>) = <<>>
  /\ <<>> \o Batch = Batch
  /\ Batch # <<>> /\ <<"exec", "d2h">> # <<>> /\ <<"d2h">> # <<>>
BY DEF Batch

LEMMA OwnedFacts ==
  /\ "context" \in Resources
  /\ \A n \in 0..6 : {Acquired[i] : i \in 1..n} \subseteq Resources
BY DEF Resources, Acquired

LEMMA FlagsStep == ASSUME Flags, [Next]_vars PROVE Flags'
<1> USE DEF Flags, MainSteps, WorkerAt, host
<1>1. CASE MainThread
  BY <1>1, Zenon DEF MainThread, Constructs, ConstructThrows, Loading,
     CallbackNotifies, Stops, NotifiesAll, JoinsAndFrees
<1>2. CASE CallbackStores \/ Shutdown
  BY <1>2, Zenon DEF CallbackStores, Shutdown
<1>3. CASE WorkerThread \/ SpuriousWakeup
  BY <1>3, Zenon DEF WorkerThread, LoopCondition, EvaluatesPredicate,
     FallsAsleep, TakesFrame, Preprocesses, SubmitsBatch, CrashesOnNull,
     Synchronizes, Publishes, PublishesOverlay, SpuriousWakeup
<1>4. CASE Gpu
  BY <1>4, Zenon DEF Gpu, Executes, Fails
<1>5. CASE UNCHANGED vars
  BY <1>5, Zenon DEF vars
<1> QED
  BY <1>1, <1>2, <1>3, <1>4, <1>5 DEF Next, Exited

\* The initial states satisfy the invariant.
LEMMA InitInv == Init => DInv
<1> SUFFICES ASSUME Init PROVE DInv
  OBVIOUS
<1> USE DetectorConstants DEF DetectorConstants, Init
<1>1. Flags
  BY Zenon DEF Flags
<1>2. TypeOK
  BY <1>1 DEF TypeOK, WorkerSteps, Frames, Streams, Buffers, Results, NoResult
<1>3. Handoff /\ Unpublished /\ Lifetime /\ Backward
  BY DEF Handoff, NoLostWakeup, Unpublished, Lifetime, Backward, NoResult
<1> QED
  BY <1>2, <1>3 DEF DInv

LEMMA StepInv == ASSUME DInv, [Next]_vars PROVE DInv'
<1>f. Flags'
  BY FlagsStep DEF DInv, TypeOK
<1> USE <1>f, DetectorConstants
    DEF DetectorConstants, DInv, TypeOK, WorkerSteps, Busy, Frames, Streams,
        Buffers, Results, Handoff, NoLostWakeup, Unpublished, Lifetime,
        Backward, MainSteps, WorkerAt, shown
<1>0. CASE Constructs
  BY <1>0, OwnedFacts DEF Constructs, Loading
<1>00. CASE ConstructThrows
  BY <1>00, OwnedFacts DEF ConstructThrows, Loading
<1>1. CASE CallbackStores
  BY <1>1 DEF CallbackStores, MutexFree, WorkerHoldsMutex
<1>2. CASE CallbackNotifies
  BY <1>2 DEF CallbackNotifies, NotifiesWorker, Wakes
<1>3. CASE Stops
  BY <1>3 DEF Stops
<1>4. CASE NotifiesAll
  BY <1>4 DEF NotifiesAll, Wakes
<1>5. CASE JoinsAndFrees
  BY <1>5 DEF JoinsAndFrees, WorkerEnded
<1>6. CASE Shutdown
  BY <1>6 DEF Shutdown
<1>7. CASE LoopCondition
  BY <1>7 DEF LoopCondition
<1>8. CASE EvaluatesPredicate
  BY <1>8 DEF EvaluatesPredicate
<1>9. CASE FallsAsleep
  BY <1>9 DEF FallsAsleep
<1>10. CASE SpuriousWakeup
  BY <1>10 DEF SpuriousWakeup
<1>11. CASE TakesFrame
  BY <1>11 DEF TakesFrame, SlotEmptied
<1>12. CASE Preprocesses
  BY <1>12 DEF Preprocesses
<1>13. CASE SubmitsBatch
  BY <1>13, StreamFacts DEF SubmitsBatch
<1>14. CASE CrashesOnNull
  BY <1>14 DEF CrashesOnNull
<1>15. CASE Synchronizes
  BY <1>15 DEF Synchronizes, StreamIdle
<1>16. CASE Publishes
  BY <1>16 DEF Publishes, Flags
<1>17. CASE PublishesOverlay
  BY <1>17 DEF PublishesOverlay
<1>18. CASE Executes
  BY <1>18, StreamFacts DEF Executes, host
<1>19. CASE Fails
  BY <1>19, StreamFacts DEF Fails, host
<1>20. CASE UNCHANGED vars
  BY <1>20 DEF vars, host
<1> QED
  BY <1>0, <1>00, <1>1, <1>2, <1>3, <1>4, <1>5, <1>6, <1>7, <1>8, <1>9, <1>10,
     <1>11, <1>12, <1>13, <1>14, <1>15, <1>16, <1>17, <1>18, <1>19, <1>20
     DEF Next, MainThread, WorkerThread, Gpu, Exited

\* Every state of every behaviour satisfies the invariant.
THEOREM Invariance == Spec => []DInv
BY InitInv, StepInv, PTL DEF Spec

\* Every state has the declared types: in particular at most one batch is ever
\* queued on the stream, so no transfer overwrites a buffer in use.
THEOREM TypeCorrect == Spec => []TypeOK
BY Invariance, PTL DEF DInv

\* The worker never sleeps over a frame without a notification on its way
\* (lines 112-118, 187-193).
THEOREM NoLostWakeupTheorem == Spec => []NoLostWakeup
BY Invariance, PTL DEF DInv, Handoff

\* Nothing is used before it was acquired or after it was released (lines
\* 100-139).
THEOREM NoUseUnownedTheorem == Spec => []NoUseUnowned
<1>1. DInv => NoUseUnowned
  BY DEF DInv, Lifetime, NoUseUnowned, Busy
<1> QED
  BY Invariance, <1>1, PTL

\* Detections and overlay implement the sampler that every stage of the video
\* path is: no frame is published twice or after a newer one (lines 11-13,
\* 183-201, 257-258).
THEOREM SamplerTheorem == Spec => SamplesStream
<1>1. Init => Sampler!Init /\ OverlaySampler!Init
  BY DEF Init, NoResult, Sampler!Init, OverlaySampler!Init
<1>2. DInv /\ [Next]_vars => /\ [Sampler!Next]_<<arrived, out.header>>
                             /\ [OverlaySampler!Next]_<<arrived, overlay.header>>
  <2> SUFFICES ASSUME DInv, [Next]_vars
               PROVE  /\ [Sampler!Next]_<<arrived, out.header>>
                      /\ [OverlaySampler!Next]_<<arrived, overlay.header>>
    OBVIOUS
  <2>0. /\ arrived \in Nat /\ frame \in Nat
        /\ out \in Results /\ overlay \in Results
        /\ out.header \in Nat /\ overlay.header \in Nat
    BY DetectorConstants
       DEF DetectorConstants, DInv, TypeOK, Frames, Results
  <2> USE <2>0 DEF DInv, Handoff, Unpublished, Backward, MainSteps, WorkerAt,
                   shown, Results
  <2>1. CASE CallbackStores
    BY <2>1 DEF CallbackStores, Sampler!Next, Sampler!Arrive,
                OverlaySampler!Next, OverlaySampler!Arrive
  <2>2. CASE Publishes
    BY <2>2 DEF Publishes, Sampler!Next, Sampler!Emit
  <2>3. CASE PublishesOverlay
    BY <2>3 DEF PublishesOverlay, OverlaySampler!Next, OverlaySampler!Emit
  <2>4. CASE MainThread \/ Shutdown
    BY <2>4 DEF MainThread, Loading, Constructs, ConstructThrows,
                CallbackNotifies, Stops, NotifiesAll, JoinsAndFrees, Shutdown
  <2>5. CASE \/ LoopCondition \/ EvaluatesPredicate \/ FallsAsleep
             \/ TakesFrame \/ Preprocesses \/ SubmitsBatch \/ CrashesOnNull
             \/ Synchronizes \/ SpuriousWakeup
    BY <2>5 DEF LoopCondition, EvaluatesPredicate, FallsAsleep, TakesFrame,
                Preprocesses, SubmitsBatch, CrashesOnNull, Synchronizes,
                SpuriousWakeup
  <2>6. CASE Gpu \/ Exited \/ UNCHANGED vars
    BY <2>6 DEF Gpu, Executes, Fails, Exited, host, vars
  <2> QED
    BY <2>1, <2>2, <2>3, <2>4, <2>5, <2>6 DEF Next, WorkerThread
<1> QED
  BY Invariance, <1>1, <1>2, PTL
     DEF Spec, SamplesStream, Sampler!Spec, OverlaySampler!Spec

(***************************************************************************)
(* Detections belong to the frame whose header they carry, unless a CUDA   *)
(* operation of that very frame has failed.                                *)
(***************************************************************************)

\* Where the frame in hand is, on its way through the buffers.
InTransit ==
  /\ worker = "submit" => buf["hostIn"] = frame
  /\ worker = "sync" => \/ failed
                        \/ stream = Batch /\ buf["hostIn"] = frame
                        \/ stream = <<"exec", "d2h">> /\ buf["devIn"] = frame
                        \/ stream = <<"d2h">> /\ buf["devOut"] = frame
                        \/ stream = <<>> /\ buf["hostOut"] = frame
  /\ worker = "publish" => failed \/ buf["hostOut"] = frame

Sound ==
  /\ out.spoilt \/ out.detections = out.header
  /\ overlay.spoilt \/ overlay.detections = overlay.header

LEMMA InTransitStep ==
  ASSUME DInv, InTransit, [Next]_vars
  PROVE  InTransit'
<1> USE DEF DInv, TypeOK, Buffers, Lifetime, InTransit, MainSteps, WorkerAt
<1>0. CASE Constructs \/ ConstructThrows
  BY <1>0 DEF Constructs, ConstructThrows, Loading
<1>1. CASE CallbackStores
  BY <1>1 DEF CallbackStores
<1>2. CASE CallbackNotifies
  BY <1>2 DEF CallbackNotifies, NotifiesWorker, Wakes
<1>3. CASE Stops
  BY <1>3 DEF Stops
<1>4. CASE NotifiesAll
  BY <1>4 DEF NotifiesAll, Wakes
<1>5. CASE JoinsAndFrees
  BY <1>5 DEF JoinsAndFrees
<1>6. CASE Shutdown
  BY <1>6 DEF Shutdown
<1>7. CASE LoopCondition
  BY <1>7 DEF LoopCondition
<1>8. CASE EvaluatesPredicate
  BY <1>8 DEF EvaluatesPredicate
<1>9. CASE FallsAsleep
  BY <1>9 DEF FallsAsleep
<1>10. CASE SpuriousWakeup
  BY <1>10 DEF SpuriousWakeup
<1>11. CASE TakesFrame
  BY <1>11 DEF TakesFrame
<1>12. CASE Preprocesses
  BY <1>12 DEF Preprocesses
<1>13. CASE SubmitsBatch
  BY <1>13, StreamFacts DEF SubmitsBatch
<1>14. CASE CrashesOnNull
  BY <1>14 DEF CrashesOnNull
<1>15. CASE Synchronizes
  BY <1>15, StreamFacts DEF Synchronizes, StreamIdle
<1>16. CASE Publishes \/ PublishesOverlay
  BY <1>16 DEF Publishes, PublishesOverlay
<1>17. CASE Executes
  <2>1. CASE stream = Batch
    BY <1>17, <2>1, StreamFacts DEF Executes, host
  <2>2. CASE stream = <<"exec", "d2h">>
    BY <1>17, <2>2, StreamFacts DEF Executes, host
  <2>3. CASE stream = <<"d2h">>
    BY <1>17, <2>3, StreamFacts DEF Executes, host
  <2> QED
    BY <1>17, <2>1, <2>2, <2>3 DEF Executes, Streams
<1>18. CASE Fails
  BY <1>18 DEF Fails, host
<1>19. CASE UNCHANGED vars
  BY <1>19 DEF vars, host
<1> QED
  BY <1>0, <1>1, <1>2, <1>3, <1>4, <1>5, <1>6, <1>7, <1>8, <1>9, <1>10, <1>11,
     <1>12, <1>13, <1>14, <1>15, <1>16, <1>17, <1>18, <1>19
     DEF Next, MainThread, WorkerThread, Gpu, Exited

LEMMA SoundStep ==
  ASSUME DInv, InTransit, Sound, [Next]_vars
  PROVE  Sound'
<1> USE DEF DInv, TypeOK, Results, InTransit, Sound, MainSteps, WorkerAt, shown
<1>1. CASE Publishes
  BY <1>1 DEF Publishes
<1>2. CASE PublishesOverlay
  BY <1>2 DEF PublishesOverlay, Backward
<1>3. CASE UNCHANGED shown
  BY <1>3
<1>4. UNCHANGED shown \/ Publishes \/ PublishesOverlay
  BY DEF Next, MainThread, WorkerThread, Gpu, Exited, Constructs,
     ConstructThrows, Loading, CallbackStores, CallbackNotifies, Stops,
     NotifiesAll, JoinsAndFrees, Shutdown, LoopCondition, EvaluatesPredicate,
     FallsAsleep, SpuriousWakeup, TakesFrame, Preprocesses, SubmitsBatch,
     CrashesOnNull, Synchronizes, Executes, Fails, vars
<1> QED
  BY <1>1, <1>2, <1>3, <1>4

\* Detections and overlay carry the header of the frame they were computed
\* from, whatever the interleaving of host and GPU, and a failure spoils its own
\* frame only (lines 203-258).
THEOREM ResultsMatchTheorem == Spec => []ResultsMatchHeader
<1>1. Init => InTransit /\ Sound
  BY DEF Init, InTransit, Sound, NoResult
<1>2. DInv /\ InTransit /\ Sound /\ [Next]_vars => InTransit' /\ Sound'
  BY InTransitStep, SoundStep
<1>3. DInv /\ Sound => ResultsMatchHeader
  BY DEF DInv, Backward, Sound, ResultsMatchHeader
<1> QED
  BY Invariance, <1>1, <1>2, <1>3, PTL DEF Spec
=============================================================================
