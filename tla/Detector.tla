------------------------------ MODULE Detector ------------------------------
(***************************************************************************)
(* trt_detector_node.cpp: the main thread, which constructs the node, runs *)
(* the subscription callback while it spins and the destructor afterwards; *)
(* the worker thread, which waits for a frame on a condition variable and  *)
(* runs it through the network; and the GPU, which executes the worker's   *)
(* CUDA stream behind its back.  A frame is its number in the order of     *)
(* arrival, and a buffer holds the number of the frame it comes from.      *)
(***************************************************************************)
EXTENDS Integers, Sequences

CONSTANTS
  MaxFrames,      \* bound on the frames that arrive
  ForeignFrames   \* the frames whose encoding is not bgr8

ASSUME DetectorConstants ==
  /\ MaxFrames \in Nat
  /\ ForeignFrames \subseteq 1..MaxFrames

VARIABLES
  main,     \* main thread: "load", "spin", "notify", "wake", "join", "exit"
  worker,   \* worker thread: the step of worker_loop or process it is at
  rosOk,    \* rclcpp::ok()
  running,  \* running_
  slot,     \* latest_frame_, 0 for a null pointer
  arrived,  \* frames that have arrived
  frame,    \* frame, the worker's own pointer
  stream,   \* operations queued on stream_
  buf,      \* host_input_, the two bindings_ and host_output_
  out,      \* the last detections published: the frame their header names,
            \* the frame they come from, and whether an operation had failed
  overlay,  \* the same for the overlay
  owned,    \* the resources load_engine has acquired, and nobody released
  failed,   \* an operation of the batch has failed; the code never asks
  code      \* exit code: what main returns, or that of the crash

host == <<main, worker, rosOk, running, slot, arrived, frame, owned, code>>
shown == <<out, overlay>>
vars == <<host, stream, buf, shown, failed>>

Frames == 0..MaxFrames
Buffers == {"hostIn", "devIn", "devOut", "hostOut"}
Batch == <<"h2d", "exec", "d2h">>
Streams == {Batch, <<"exec", "d2h">>, <<"d2h">>, <<>>}
Busy == {"preprocess", "submit", "sync", "publish", "draw"}
WorkerSteps == {"none", "head", "lock", "sleep", "waiting", "take", "done",
                "crashed"} \cup Busy
Results == [header : Frames, detections : Frames, spoilt : BOOLEAN]
NoResult == [header |-> 0, detections |-> 0, spoilt |-> FALSE]
Crash == 139

\* In the order of load_engine.
Acquired == <<"engine", "context", "devIn", "devOut", "hostIn", "hostOut",
              "stream">>
Resources == {Acquired[i] : i \in 1..7}

Flags == rosOk \in BOOLEAN /\ running \in BOOLEAN /\ failed \in BOOLEAN

\* The types of the variables; no more than one batch is ever queued.
TypeOK ==
  /\ Flags
  /\ main \in {"load", "spin", "notify", "wake", "join", "exit"}
  /\ worker \in WorkerSteps
  /\ slot \in Frames /\ arrived \in Frames /\ frame \in Frames
  /\ stream \in Streams
  /\ buf \in [Buffers -> Frames]
  /\ out \in Results /\ overlay \in Results
  /\ owned \subseteq Resources
  /\ code \in {0, 1, Crash}

Init ==
  /\ main = "load" /\ worker = "none"
  /\ rosOk = TRUE /\ running = TRUE /\ failed = FALSE
  /\ slot = 0 /\ arrived = 0 /\ frame = 0
  /\ stream = <<>>
  /\ buf = [b \in Buffers |-> 0]
  /\ out = NoResult /\ overlay = NoResult
  /\ owned = {} /\ code = 0

(***************************************************************************)
(* Main thread.                                                            *)
(***************************************************************************)
MainSteps(loc) ==
  main = loc /\ UNCHANGED <<rosOk, frame, stream, buf, shown, failed>>

Loading == MainSteps("load") /\ UNCHANGED <<running, slot, arrived>>

\* load_engine returns and the worker starts.  Of all it has acquired, the
\* execution context is the one it does not look at: it may be null.
Constructs ==
  /\ Loading
  /\ owned' \in {Resources, Resources \ {"context"}}
  /\ worker' = "head"
  /\ main' = "spin" /\ UNCHANGED code

\* No file, no engine in it, not this network, or no memory: load_engine throws.
\* The destructor of an object that was never constructed does not run, so that
\* what it allocated stays with the process, and main returns 1.
ConstructThrows ==
  /\ Loading
  /\ \E n \in 0..6 :
       owned' = {Acquired[i] : i \in 1..n} \ {"engine", "context"}
  /\ main' = "exit" /\ code' = 1 /\ UNCHANGED worker

\* The steps at which the worker holds frame_mutex_ between two of ours.
WorkerHoldsMutex == worker \in {"sleep", "take"}

\* Seeded fault: the callback stores without taking frame_mutex_.
StoresUnlocked == TRUE

MutexFree == ~WorkerHoldsMutex

\* The callback stores the newest frame over the one before; one that was
\* already dispatched does after a shutdown as well.
CallbackStores ==
  /\ MainSteps("spin") /\ arrived < MaxFrames
  /\ MutexFree
  /\ arrived' = arrived + 1
  /\ slot' = arrived + 1
  /\ main' = "notify"
  /\ UNCHANGED <<worker, running, owned, code>>

\* notify_one and notify_all wake a waiter, and are lost on anybody else.
Wakes == worker' = IF worker = "waiting" THEN "lock" ELSE worker

\* Seeded fault: the notification is forgotten.
WakesNobody == UNCHANGED worker

NotifiesWorker == Wakes

CallbackNotifies ==
  /\ MainSteps("notify")
  /\ NotifiesWorker
  /\ main' = "spin"
  /\ UNCHANGED <<running, slot, arrived, owned, code>>

\* SIGINT or SIGTERM shuts the context down.
Shutdown ==
  /\ rosOk /\ rosOk' = FALSE
  /\ UNCHANGED <<main, worker, running, slot, arrived, frame, stream, buf, shown,
                 owned, code, failed>>

\* spin returns and the destructor begins: running_ is cleared without
\* frame_mutex_,
Stops ==
  /\ MainSteps("spin") /\ ~rosOk
  /\ running' = FALSE
  /\ main' = "wake"
  /\ UNCHANGED <<worker, slot, arrived, owned, code>>

\* the worker is notified, without it as well,
NotifiesAll ==
  /\ MainSteps("wake")
  /\ Wakes
  /\ main' = "join"
  /\ UNCHANGED <<running, slot, arrived, owned, code>>

\* Seeded fault: the worker is not joined.
NoJoin == TRUE

WorkerEnded == worker = "done"

\* joined, the CUDA resources and then the members are released, and main
\* returns 0.
JoinsAndFrees ==
  /\ MainSteps("join") /\ WorkerEnded
  /\ owned' = {}
  /\ main' = "exit"
  /\ UNCHANGED <<worker, running, slot, arrived, code>>

(***************************************************************************)
(* Worker thread.                                                          *)
(***************************************************************************)
WorkerAt(loc) ==
  worker = loc /\ UNCHANGED <<main, rosOk, running, arrived, owned, code>>

LoopCondition ==
  /\ WorkerAt("head")
  /\ worker' = IF running THEN "lock" ELSE "done"
  /\ UNCHANGED <<slot, frame, stream, buf, shown, failed>>

\* The mutex is taken and the predicate of the wait is evaluated.
EvaluatesPredicate ==
  /\ WorkerAt("lock")
  /\ worker' = IF slot # 0 \/ ~running THEN "take" ELSE "sleep"
  /\ UNCHANGED <<slot, frame, stream, buf, shown, failed>>

\* The predicate was false: the mutex is released and the thread is put to
\* sleep in one step.
FallsAsleep ==
  /\ WorkerAt("sleep")
  /\ worker' = "waiting"
  /\ UNCHANGED <<slot, frame, stream, buf, shown, failed>>

\* The standard allows a wait to end without a notification.
SpuriousWakeup ==
  /\ WorkerAt("waiting")
  /\ worker' = "lock"
  /\ UNCHANGED <<slot, frame, stream, buf, shown, failed>>

\* Seeded fault: the pointer is swapped with the worker's previous one.
SlotSwapped == slot' = frame

SlotEmptied == slot' = 0

\* The predicate was true: return, skip a frame of the wrong encoding, or
\* process the frame.
TakesFrame ==
  /\ WorkerAt("take")
  /\ \/ /\ ~running
        /\ worker' = "done" /\ UNCHANGED <<slot, frame>>
     \/ /\ running
        /\ frame' = slot /\ SlotEmptied
        /\ worker' = IF slot \in ForeignFrames THEN "head" ELSE "preprocess"
  /\ UNCHANGED <<stream, buf, shown, failed>>

Preprocesses ==
  /\ WorkerAt("preprocess")
  /\ buf' = [buf EXCEPT !.hostIn = frame]
  /\ worker' = "submit"
  /\ UNCHANGED <<slot, frame, stream, shown, failed>>

ContextThere == "context" \in owned

SubmitsBatch ==
  /\ WorkerAt("submit") /\ ContextThere
  /\ stream' = stream \o Batch /\ failed' = FALSE
  /\ worker' = "sync"
  /\ UNCHANGED <<slot, frame, buf, shown>>

\* enqueueV2 on a null context: a segmentation fault, and the end of the process
\* wherever main is.
CrashesOnNull ==
  /\ worker = "submit" /\ ~ContextThere
  /\ worker' = "crashed" /\ main' = "exit" /\ code' = Crash /\ owned' = {}
  /\ UNCHANGED <<rosOk, running, slot, arrived, frame, stream, buf, shown,
                 failed>>

\* Seeded fault: the host does not wait for the stream.
NoSynchronize == TRUE

StreamIdle == stream = <<>>

Synchronizes ==
  /\ WorkerAt("sync") /\ StreamIdle
  /\ worker' = "publish"
  /\ UNCHANGED <<slot, frame, stream, buf, shown, failed>>

\* host_output_ is decoded and published under the header of the frame,
Publishes ==
  /\ WorkerAt("publish")
  /\ out' = [header |-> frame, detections |-> buf["hostOut"],
             spoilt |-> failed]
  /\ worker' = "draw"
  /\ UNCHANGED <<slot, frame, stream, buf, overlay, failed>>

\* and drawn into a copy of it, if somebody subscribes to the overlay.
PublishesOverlay ==
  /\ WorkerAt("draw")
  /\ overlay' \in {overlay, [out EXCEPT !.header = frame]}
  /\ worker' = "head"
  /\ UNCHANGED <<slot, frame, stream, buf, out, failed>>

(***************************************************************************)
(* GPU.  No return code is looked at: a failed operation does nothing, and *)
(* the batch goes on.                                                      *)
(***************************************************************************)
Executes ==
  /\ stream # <<>>
  /\ stream' = Tail(stream)
  /\ buf' = CASE Head(stream) = "h2d" -> [buf EXCEPT !.devIn = buf["hostIn"]]
              [] Head(stream) = "exec" -> [buf EXCEPT !.devOut = buf["devIn"]]
              [] Head(stream) = "d2h" -> [buf EXCEPT !.hostOut = buf["devOut"]]
  /\ UNCHANGED <<host, shown, failed>>

Fails ==
  /\ stream # <<>>
  /\ stream' = Tail(stream)
  /\ failed' = TRUE
  /\ UNCHANGED <<host, buf, shown>>

MainThread == \/ Constructs \/ ConstructThrows \/ CallbackNotifies
              \/ Stops \/ NotifiesAll \/ JoinsAndFrees
WorkerThread == \/ LoopCondition \/ EvaluatesPredicate \/ FallsAsleep
                \/ TakesFrame \/ Preprocesses \/ SubmitsBatch
                \/ CrashesOnNull \/ Synchronizes \/ Publishes
                \/ PublishesOverlay
Gpu == Executes \/ Fails

\* The process is gone; the model stays in its last state.
Exited == main = "exit" /\ UNCHANGED vars

Next == \/ MainThread \/ WorkerThread \/ Gpu
        \/ CallbackStores \/ Shutdown \/ SpuriousWakeup \/ Exited

Spec == Init /\ [][Next]_vars

\* The threads run and the stream drains.  No frame has to arrive, nobody has
\* to stop the node and no wakeup has to be spurious.
FairSpec == /\ Spec
            /\ WF_vars(MainThread) /\ WF_vars(WorkerThread) /\ WF_vars(Gpu)

(***************************************************************************)
(* Properties.                                                             *)
(***************************************************************************)

\* A worker asleep over a frame has a notification coming: the store and the
\* predicate are serialised by frame_mutex_, so the notification after the
\* unlock cannot be missed (lines 112-118, 187-193).
NoLostWakeup == worker = "waiting" /\ slot # 0 => main = "notify"

\* Detections and overlay carry the header of the very frame they were computed
\* from, although four buffers and an asynchronous stream lie between; a failed
\* operation, which nobody notices, spoils the results of its own frame only,
\* and with those of an earlier frame at worst (lines 203-258).
ResultsMatchHeader ==
  \A result \in {out, overlay} :
    /\ result.detections <= result.header
    /\ result.spoilt \/ result.detections = result.header

\* The worker and the stream work on resources that exist: acquired in full,
\* but for the context, before the worker starts, and released only when it has
\* ended and nothing is outstanding (lines 100-120, 130-138, 171-178).
NoUseUnowned ==
  worker \in Busy \/ stream # <<>> => Resources \ {"context"} \subseteq owned

\* Seen from outside, detections and overlay sample the stream of frames:
\* "stale frames are dropped, never queued" (lines 11-13, 107-108, 191-192).
Sampler == INSTANCE FrameSampler WITH emitted <- out.header
OverlaySampler == INSTANCE FrameSampler WITH emitted <- overlay.header
SamplesStream == Sampler!Spec /\ OverlaySampler!Spec

\* A frame that arrived is taken or superseded by one that is, unless the node
\* is stopped or crashes: the worker never sleeps through the last frame of a
\* burst.
FrameIsTaken == slot # 0 ~> slot = 0 \/ ~rosOk \/ main = "exit"

\* A shutdown ends the process: the destructor gets past its join.
ShutdownCompletes == ~rosOk ~> main = "exit"
=============================================================================
