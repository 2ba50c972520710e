--------------------------- MODULE RecordControl ---------------------------
(***************************************************************************)
(* Recording control of the operator console, console_node.py: the HTTP    *)
(* threads that run start_recording and stop_recording, one per request,   *)
(* the main thread that stops a recording in destroy_node, the `ros2 bag   *)
(* record` processes they start and signal, and the disk those fill.       *)
(* state.lock is held only where a step of this module says so.            *)
(***************************************************************************)
EXTENDS Integers

CONSTANTS
  Clients,        \* browsers; each has one request in flight at most
  Main,           \* the main thread
  MaxRecorders,   \* bound on the recorders started
  DiskSize        \* free space at the start, in units of record_min_free_gb

ASSUME RecordConstants ==
  /\ Main \notin Clients
  /\ MaxRecorders \in Nat
  /\ DiskSize \in Nat

VARIABLES
  pc,          \* the step every thread is at
  held,        \* the local variable proc of every thread, 0 for None
  recording,   \* state.recording, 0 for None
  spawned,     \* recorders started
  proc,        \* what every recorder is doing
  free,        \* disk_free_gb(capture_dir)
  overlapped   \* two requests, or one and the exit, were in progress at once

vars == <<pc, held, recording, spawned, proc, free, overlapped>>

Threads == Clients \cup {Main}
Recorders == 1..MaxRecorders
Steps == {"idle", "check", "disk", "spawn", "publish", "swap", "term", "wait",
          "closing", "down"}

ProcStates == {"unborn", "running", "terminating", "ended"}

Alive(p) == p # 0 /\ proc[p] \in {"running", "terminating"}

\* The types of the variables; in particular no thread holds a recorder that
\* was never started.
TypeOK ==
  /\ pc \in [Threads -> Steps]
  /\ held \in [Threads -> 0..MaxRecorders]
  /\ recording \in 0..MaxRecorders
  /\ spawned \in 0..MaxRecorders
  /\ proc \in [Recorders -> ProcStates]
  /\ free \in 0..DiskSize
  /\ overlapped \in BOOLEAN

Init ==
  /\ pc = [t \in Threads |-> "idle"]
  /\ held = [t \in Threads |-> 0]
  /\ recording = 0
  /\ spawned = 0
  /\ proc = [p \in Recorders |-> "unborn"]
  /\ free = DiskSize
  /\ overlapped = FALSE

\* daemon_threads: no thread outlives the main one.
Up == pc[Main] # "down"

Moves(t, from, to) == Up /\ pc[t] = from /\ pc' = [pc EXCEPT ![t] = to]

\* A request, or the exit, begins; anything still in progress overlaps it.
Begins(t, step) ==
  /\ Moves(t, "idle", step)
  /\ overlapped' = (overlapped \/ \E u \in Threads : pc[u] # "idle")
  /\ UNCHANGED <<held, recording, spawned, proc, free>>

\* The HTTP server accepts until httpd.shutdown, after the exit's own stop too.
RequestStart(c) == Begins(c, "check")
RequestStop(c) == Begins(c, "swap")

\* spin returned, on SIGINT or SIGTERM: destroy_node.
DestroyNode == Begins(Main, "swap")

(***************************************************************************)
(* start_recording.                                                        *)
(***************************************************************************)

\* Seeded fault: a second recording is not refused.
NeverBusy == FALSE

Busy == Alive(recording)

\* With the lock: "already recording", or go on without it.
ChecksRunning(c) ==
  /\ Moves(c, "check", IF Busy THEN "idle" ELSE "disk")
  /\ UNCHANGED <<held, recording, spawned, proc, free, overlapped>>

\* "only ... GB free", or go on, as it does if disk_free_gb returns None.
ChecksDisk(c) ==
  /\ \E known \in BOOLEAN :
       Moves(c, "disk", IF known /\ free < 1 THEN "idle" ELSE "spawn")
  /\ UNCHANGED <<held, recording, spawned, proc, free, overlapped>>

Spawns(c) ==
  /\ Moves(c, "spawn", "publish")
  /\ spawned < MaxRecorders
  /\ spawned' = spawned + 1
  /\ proc' = [proc EXCEPT ![spawned + 1] = "running"]
  /\ held' = [held EXCEPT ![c] = spawned + 1]
  /\ UNCHANGED <<recording, free, overlapped>>

\* Popen raised OSError.
SpawnFails(c) ==
  /\ Moves(c, "spawn", "idle")
  /\ UNCHANGED <<held, recording, spawned, proc, free, overlapped>>

\* With the lock: whatever state.recording held by now is overwritten.
PublishesRecorder(c) ==
  /\ Moves(c, "publish", "idle")
  /\ recording' = held[c]
  /\ held' = [held EXCEPT ![c] = 0]
  /\ UNCHANGED <<spawned, proc, free, overlapped>>

(***************************************************************************)
(* stop_recording, on behalf of a browser or of destroy_node.              *)
(***************************************************************************)
AfterStop(t) == IF t = Main THEN "closing" ELSE "idle"

\* Seeded fault: the state keeps the recorder that is being stopped.
StateKept == UNCHANGED recording

StateCleared == recording' = 0

\* With the lock: take the recorder out of the state.
TakesRecorder(t) ==
  /\ Moves(t, "swap", "term")
  /\ held' = [held EXCEPT ![t] = recording]
  /\ StateCleared
  /\ UNCHANGED <<spawned, proc, free, overlapped>>

\* Without it: SIGTERM, or "not recording".
Terminates(t) ==
  /\ \/ /\ Alive(held[t]) /\ Moves(t, "term", "wait")
        /\ proc' = [proc EXCEPT ![held[t]] = "terminating"]
        /\ UNCHANGED held
     \/ /\ ~Alive(held[t]) /\ Moves(t, "term", AfterStop(t))
        /\ held' = [held EXCEPT ![t] = 0]
        /\ UNCHANGED proc
  /\ UNCHANGED <<recording, spawned, free, overlapped>>

SeesExit(t) ==
  /\ Moves(t, "wait", AfterStop(t))
  /\ ~Alive(held[t])
  /\ held' = [held EXCEPT ![t] = 0]
  /\ UNCHANGED <<recording, spawned, proc, free, overlapped>>

\* Seeded fault: no end to the wait.
WaitsForever(p) == FALSE

Killed(p) == proc' = [proc EXCEPT ![p] = "ended"]

\* Ten seconds later: SIGKILL.
Kills(t) ==
  /\ Moves(t, "wait", AfterStop(t))
  /\ Alive(held[t]) /\ Killed(held[t])
  /\ held' = [held EXCEPT ![t] = 0]
  /\ UNCHANGED <<recording, spawned, free, overlapped>>

\* destroy_node and main are past the last statement.
Exits ==
  /\ Moves(Main, "closing", "down")
  /\ UNCHANGED <<held, recording, spawned, proc, free, overlapped>>

(***************************************************************************)
(* Recorder processes.                                                     *)
(***************************************************************************)
Recorder(p, state) ==
  /\ proc' = [proc EXCEPT ![p] = state]
  /\ UNCHANGED <<pc, held, recording, spawned, free, overlapped>>

\* On SIGTERM, in its own time or never.
RecorderEnds(p) == proc[p] = "terminating" /\ Recorder(p, "ended")

\* By itself: a failure, a full disk, or the terminal's own SIGINT.
RecorderFails(p) == proc[p] = "running" /\ Recorder(p, "ended")

RecorderWrites(p) ==
  /\ proc[p] = "running" /\ free > 0
  /\ free' = free - 1
  /\ UNCHANGED <<pc, held, recording, spawned, proc, overlapped>>

StartSteps(c) == \/ ChecksRunning(c) \/ ChecksDisk(c) \/ Spawns(c)
                 \/ SpawnFails(c) \/ PublishesRecorder(c)
StopSteps(t) == TakesRecorder(t) \/ Terminates(t) \/ SeesExit(t) \/ Kills(t)

Next ==
  \/ \E c \in Clients : RequestStart(c) \/ RequestStop(c) \/ StartSteps(c)
  \/ \E t \in Threads : StopSteps(t)
  \/ DestroyNode \/ Exits
  \/ \E p \in Recorders :
       RecorderEnds(p) \/ RecorderFails(p) \/ RecorderWrites(p)

Spec == Init /\ [][Next]_vars

\* Every thread runs.  A recorder owes nobody an exit, nor a browser a request.
FairSpec == /\ Spec
            /\ \A c \in Clients : WF_vars(StartSteps(c))
            /\ \A t \in Threads : WF_vars(StopSteps(t))
            /\ WF_vars(Exits)

(***************************************************************************)
(* Properties.                                                             *)
(***************************************************************************)

\* Somebody will stop recorder p when asked to: the state or a request has it.
Owned(p) == recording = p \/ \E t \in Threads : held[t] = p

\* However requests overlap, a recorder is in one place only, so no two stops
\* wait for the same one and none stops a recorder the state still offers
\* (lines 368-371, 375-377).
OneOwner ==
  \A t \in Threads : held[t] # 0 =>
    held[t] # recording /\ \A u \in Threads : held[u] = held[t] => u = t

\* A second recording is refused while one runs: "already recording"
\* (lines 354-356).
OneRecorderRuns == \A p, q \in Recorders : Alive(p) /\ Alive(q) => p = q

\* Requests one at a time never lose a recorder process nor start a second one,
\* however the recorders themselves end or refuse to, and none outlives the
\* console (lines 342-385).  Two starts that overlap do run two recorders, of
\* which the state keeps one.
SerialRequestsAreSafe ==
  ~overlapped =>
    OneRecorderRuns /\ \A p \in Recorders : Alive(p) => Owned(p) /\ Up

\* Every stop is answered, although a recorder may ignore SIGTERM, and the
\* console's own exit does not hang on it (lines 378-384).
StopIsAnswered ==
  \A t \in Threads : pc[t] = "swap" ~> pc[t] \in {"idle", "closing"} \/ ~Up
=============================================================================
