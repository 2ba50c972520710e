------------------------ MODULE RecordControlProofs ------------------------
(***************************************************************************)
(* Proofs about RecordControl, for any number of browsers and recorders.   *)
(***************************************************************************)
EXTENDS RecordControl, TLAPS

\* What a thread is doing limits which thread it is and what it holds.
Roles ==
  /\ \A t \in Threads :
       /\ held[t] # 0 => pc[t] \in {"publish", "term", "wait"}
       /\ held[t] <= spawned
       /\ pc[t] \in {"closing", "down"} => t = Main
  /\ recording <= spawned
  /\ \A p \in Recorders : p > spawned => proc[p] = "unborn"

\* The thread that is in the middle of a request, if none overlapped.
OneBusy == \A t, u \in Threads : pc[t] # "idle" /\ pc[u] # "idle" => t = u

\* Where the live recorder is at every step of the only request.
OneRecorder ==
  /\ \A p, q \in Recorders : Alive(p) /\ Alive(q) => p = q
  /\ \A p \in Recorders : Alive(p) => Owned(p)
  /\ \A t \in Threads :
       pc[t] \in {"disk", "spawn", "closing", "down"} =>
         \A p \in Recorders : ~Alive(p)
  /\ \A t \in Threads :
       pc[t] \in {"publish", "term", "wait"} => ~Alive(recording)

RInv == TypeOK /\ Roles /\ OneOwner /\ (~overlapped => OneBusy /\ OneRecorder)

\* The initial states satisfy the invariant.
LEMMA InitInv == Init => RInv
<1> SUFFICES ASSUME Init PROVE RInv
  OBVIOUS
<1> USE RecordConstants DEF RecordConstants, Init
<1>0. overlapped \in BOOLEAN
  BY Zenon
<1>1. TypeOK
  BY <1>0 DEF TypeOK, Steps, ProcStates, Recorders
<1>2. Roles /\ OneOwner /\ OneBusy /\ OneRecorder
  BY DEF Roles, OneOwner, OneBusy, OneRecorder, Alive, Recorders
<1> QED
  BY <1>1, <1>2 DEF RInv

LEMMA BeginsInv ==
  ASSUME RInv, NEW t \in Threads, NEW step \in {"check", "swap"},
         Begins(t, step), step = "check" => t # Main
  PROVE  RInv'
<1> USE RecordConstants DEF RecordConstants, Begins, Moves, Threads
<1>1. TypeOK'
  BY DEF RInv, TypeOK, Steps, ProcStates, Recorders
<1>2. Roles'
  BY DEF RInv, TypeOK, Roles
<1>3. OneOwner'
  BY DEF RInv, TypeOK, Roles, OneOwner, Recorders, Alive
<1>4. ~overlapped' => OneBusy' /\ OneRecorder'
  BY DEF RInv, TypeOK, Roles, OneBusy, OneRecorder, Alive, Owned
<1> QED
  BY <1>1, <1>2, <1>3, <1>4 DEF RInv

LEMMA ChecksRunningInv ==
  ASSUME RInv, NEW c \in Clients, ChecksRunning(c)
  PROVE  RInv'
<1> USE RecordConstants
    DEF RecordConstants, ChecksRunning, Busy, Moves, Threads, RInv
<1>1. TypeOK'
  BY DEF TypeOK, Steps, ProcStates, Recorders, Alive
<1>2. Roles'
  BY DEF TypeOK, Roles, Recorders, Alive
<1>3. OneOwner'
  BY DEF RInv, TypeOK, Roles, OneOwner, Recorders, Alive
<1>4. ~overlapped' => OneBusy' /\ OneRecorder'
  BY DEF TypeOK, Roles, OneBusy, OneRecorder, Alive, Owned, Recorders
<1> QED
  BY <1>1, <1>2, <1>3, <1>4

LEMMA ChecksDiskInv ==
  ASSUME RInv, NEW c \in Clients, ChecksDisk(c)
  PROVE  RInv'
<1> USE RecordConstants DEF RecordConstants, ChecksDisk, Moves, Threads, RInv
<1>1. TypeOK'
  BY DEF TypeOK, Steps, ProcStates, Recorders, Alive
<1>2. Roles'
  BY DEF TypeOK, Roles, Recorders, Alive
<1>3. OneOwner'
  BY DEF RInv, TypeOK, Roles, OneOwner, Recorders, Alive
<1>4. ~overlapped' => OneBusy' /\ OneRecorder'
  BY DEF TypeOK, Roles, OneBusy, OneRecorder, Alive, Owned, Recorders
<1> QED
  BY <1>1, <1>2, <1>3, <1>4

LEMMA SpawnsInv ==
  ASSUME RInv, NEW c \in Clients, Spawns(c)
  PROVE  RInv'
<1> USE RecordConstants DEF RecordConstants, Spawns, Moves, Threads, RInv
<1>1. TypeOK'
  BY DEF TypeOK, Steps, ProcStates, Recorders, Alive
<1>2. Roles'
  BY DEF TypeOK, Roles, Recorders, Alive
<1>3. OneOwner'
  BY DEF RInv, TypeOK, Roles, OneOwner, Recorders, Alive
<1>4. ASSUME ~overlapped'
      PROVE  OneBusy' /\ OneRecorder'
  <2>1. ~overlapped /\ OneBusy /\ OneRecorder
    BY <1>4
  <2>2. OneBusy'
    BY <2>1 DEF TypeOK, OneBusy
  <2>3. \A u \in Threads : u # c => pc[u] = "idle" /\ pc'[u] = "idle"
    BY <2>1 DEF TypeOK, OneBusy
  <2>4. \A p \in Recorders : Alive(p)' <=> p = spawned + 1
    BY <2>1 DEF TypeOK, OneRecorder, Alive, Recorders
  <2>5. held'[c] = spawned + 1 /\ pc'[c] = "publish"
    BY DEF TypeOK
  <2>6. ~Alive(recording)'
    BY <2>1, <2>4 DEF TypeOK, Roles, OneRecorder, Alive, Recorders
  <2>7. OneRecorder'
    BY <2>3, <2>4, <2>5, <2>6 DEF OneRecorder, Owned
  <2> QED
    BY <2>2, <2>7
<1> QED
  BY <1>1, <1>2, <1>3, <1>4

LEMMA SpawnFailsInv ==
  ASSUME RInv, NEW c \in Clients, SpawnFails(c)
  PROVE  RInv'
<1> USE RecordConstants DEF RecordConstants, SpawnFails, Moves, Threads, RInv
<1>1. TypeOK'
  BY DEF TypeOK, Steps, ProcStates, Recorders, Alive
<1>2. Roles'
  BY DEF TypeOK, Roles, Recorders, Alive
<1>3. OneOwner'
  BY DEF RInv, TypeOK, Roles, OneOwner, Recorders, Alive
<1>4. ~overlapped' => OneBusy' /\ OneRecorder'
  BY DEF TypeOK, Roles, OneBusy, OneRecorder, Alive, Owned, Recorders
<1> QED
  BY <1>1, <1>2, <1>3, <1>4

LEMMA PublishesRecorderInv ==
  ASSUME RInv, NEW c \in Clients, PublishesRecorder(c)
  PROVE  RInv'
<1> USE RecordConstants
    DEF RecordConstants, PublishesRecorder, Moves, Threads, RInv
<1>1. TypeOK'
  BY DEF TypeOK, Steps, ProcStates, Recorders, Alive
<1>2. Roles'
  BY DEF TypeOK, Roles, Recorders, Alive
<1>3. OneOwner'
  BY DEF RInv, TypeOK, Roles, OneOwner, Recorders, Alive
<1>4. ~overlapped' => OneBusy' /\ OneRecorder'
  BY DEF TypeOK, Roles, OneBusy, OneRecorder, Alive, Owned, Recorders
<1> QED
  BY <1>1, <1>2, <1>3, <1>4

LEMMA TakesRecorderInv ==
  ASSUME RInv, NEW t \in Threads, TakesRecorder(t)
  PROVE  RInv'
<1> USE RecordConstants
    DEF RecordConstants, TakesRecorder, StateCleared, Moves, Threads, RInv
<1>1. TypeOK'
  BY DEF TypeOK, Steps, ProcStates, Recorders, Alive
<1>2. Roles'
  BY DEF TypeOK, Roles, Recorders, Alive
<1>3. OneOwner'
  BY DEF RInv, TypeOK, Roles, OneOwner, Recorders, Alive
<1>4. ~overlapped' => OneBusy' /\ OneRecorder'
  BY DEF TypeOK, Roles, OneBusy, OneRecorder, Alive, Owned, Recorders
<1> QED
  BY <1>1, <1>2, <1>3, <1>4

LEMMA TerminatesInv ==
  ASSUME RInv, NEW t \in Threads, Terminates(t)
  PROVE  RInv'
<1> USE RecordConstants
    DEF RecordConstants, Terminates, AfterStop, Moves, Threads, RInv
<1>1. TypeOK'
  BY DEF TypeOK, Steps, ProcStates, Recorders, Alive
<1>2. Roles'
  BY DEF TypeOK, Roles, Recorders, Alive
<1>3. OneOwner'
  BY DEF RInv, TypeOK, Roles, OneOwner, Recorders, Alive
<1>4. ASSUME ~overlapped'
      PROVE  OneBusy' /\ OneRecorder'
  <2>1. ~overlapped /\ OneBusy /\ OneRecorder
    BY <1>4
  <2>2. \A u \in Threads : u # t => pc[u] = "idle" /\ pc'[u] = "idle"
    BY <2>1 DEF TypeOK, OneBusy
  <2>3. OneBusy'
    BY <2>2 DEF OneBusy
  <2>4. ~Alive(recording) /\ ~Alive(recording)'
    BY <2>1 DEF TypeOK, OneRecorder, Alive, Recorders
  <2>5. CASE Alive(held[t])
    <3>1. \A p \in Recorders : Alive(p)' <=> Alive(p)
      BY <2>5 DEF TypeOK, Alive, Recorders
    <3>2. pc'[t] = "wait" /\ held' = held
      BY <2>5 DEF TypeOK
    <3> QED
      BY <2>1, <2>2, <2>3, <2>4, <3>1, <3>2 DEF OneRecorder, Owned
  <2>6. CASE ~Alive(held[t])
    <3>1. \A p \in Recorders : ~Alive(p)
      BY <2>1, <2>2, <2>4, <2>6
         DEF TypeOK, OneRecorder, Owned, Roles, Alive, Recorders
    <3>2. \A p \in Recorders : ~Alive(p)'
      BY <2>6, <3>1 DEF Alive
    <3> QED
      BY <2>2, <2>3, <2>4, <3>2 DEF OneRecorder
  <2> QED
    BY <2>5, <2>6
<1> QED
  BY <1>1, <1>2, <1>3, <1>4

LEMMA SeesExitInv ==
  ASSUME RInv, NEW t \in Threads, SeesExit(t)
  PROVE  RInv'
<1> USE RecordConstants
    DEF RecordConstants, SeesExit, AfterStop, Moves, Threads, RInv
<1>1. TypeOK'
  BY DEF TypeOK, Steps, ProcStates, Recorders, Alive
<1>2. Roles'
  BY DEF TypeOK, Roles, Recorders, Alive
<1>3. OneOwner'
  BY DEF RInv, TypeOK, Roles, OneOwner, Recorders, Alive
<1>4. ~overlapped' => OneBusy' /\ OneRecorder'
  BY DEF TypeOK, Roles, OneBusy, OneRecorder, Alive, Owned, Recorders
<1> QED
  BY <1>1, <1>2, <1>3, <1>4

LEMMA KillsInv ==
  ASSUME RInv, NEW t \in Threads, Kills(t)
  PROVE  RInv'
<1> USE RecordConstants
    DEF RecordConstants, Kills, AfterStop, Killed, Moves, Threads, RInv
<1>1. TypeOK'
  BY DEF TypeOK, Steps, ProcStates, Recorders, Alive
<1>2. Roles'
  BY DEF TypeOK, Roles, Recorders, Alive
<1>3. OneOwner'
  BY DEF RInv, TypeOK, Roles, OneOwner, Recorders, Alive
<1>4. ~overlapped' => OneBusy' /\ OneRecorder'
  BY DEF TypeOK, Roles, OneBusy, OneRecorder, Alive, Owned, Recorders
<1> QED
  BY <1>1, <1>2, <1>3, <1>4

LEMMA ExitsInv == ASSUME RInv, Exits PROVE RInv'
BY RecordConstants
   DEF RecordConstants, Moves, Threads, Recorders, RInv, TypeOK, Alive, Owned,
       Exits, Steps, Roles, OneOwner, OneBusy, OneRecorder

\* The recorders go their own way.
LEMMA RecordersInv ==
  ASSUME RInv, NEW p \in Recorders,
         RecorderEnds(p) \/ RecorderFails(p) \/ RecorderWrites(p)
  PROVE  RInv'
<1> USE RecordConstants
    DEF RecordConstants, Recorder, Recorders, RInv, TypeOK, Alive, Owned,
        Roles, OneOwner, OneBusy, OneRecorder
<1>1. CASE RecorderEnds(p)
  BY <1>1 DEF RecorderEnds, ProcStates
<1>2. CASE RecorderFails(p)
  BY <1>2 DEF RecorderFails, ProcStates
<1>3. CASE RecorderWrites(p)
  BY <1>3 DEF RecorderWrites
<1> QED
  BY <1>1, <1>2, <1>3

LEMMA StutterInv == ASSUME RInv, UNCHANGED vars PROVE RInv'
BY DEF RInv, TypeOK, Roles, OneOwner, OneBusy, OneRecorder, Alive, Owned, vars

\* Every step preserves the invariant.
LEMMA StepInv == ASSUME RInv, [Next]_vars PROVE RInv'
<1>1. ASSUME NEW c \in Clients, RequestStart(c) \/ RequestStop(c)
      PROVE  RInv'
  BY <1>1, BeginsInv, RecordConstants
     DEF RecordConstants, RequestStart, RequestStop, Threads
<1>2. ASSUME NEW c \in Clients, StartSteps(c)
      PROVE  RInv'
  BY <1>2, ChecksRunningInv, ChecksDiskInv, SpawnsInv, SpawnFailsInv,
     PublishesRecorderInv DEF StartSteps
<1>3. ASSUME NEW t \in Threads, StopSteps(t)
      PROVE  RInv'
  BY <1>3, TakesRecorderInv, TerminatesInv, SeesExitInv, KillsInv DEF StopSteps
<1>4. CASE DestroyNode
  BY <1>4, BeginsInv DEF DestroyNode, Threads
<1>5. CASE Exits
  BY <1>5, ExitsInv
<1>6. ASSUME NEW p \in Recorders,
             RecorderEnds(p) \/ RecorderFails(p) \/ RecorderWrites(p)
      PROVE  RInv'
  BY <1>6, RecordersInv
<1>7. CASE UNCHANGED vars
  BY <1>7, StutterInv
<1> QED
  BY <1>1, <1>2, <1>3, <1>4, <1>5, <1>6, <1>7 DEF Next

\* Every state of every behaviour satisfies the invariant.
THEOREM Invariance == Spec => []RInv
BY InitInv, StepInv, PTL DEF Spec

\* Every state has the declared types.
THEOREM TypeCorrect == Spec => []TypeOK
BY Invariance, PTL DEF RInv

\* No recorder is ever owned twice, whatever the requests in progress.
THEOREM OneOwnerTheorem == Spec => []OneOwner
BY Invariance, PTL DEF RInv

\* However many browsers there are, recorders started and stopped one at a
\* time are never lost, doubled or left behind (lines 342-385).
THEOREM SerialTheorem == Spec => []SerialRequestsAreSafe
<1>1. RInv => SerialRequestsAreSafe
  <2> SUFFICES ASSUME RInv, ~overlapped
               PROVE  /\ \A p, q \in Recorders : Alive(p) /\ Alive(q) => p = q
                      /\ \A p \in Recorders : Alive(p) => Owned(p) /\ Up
    BY DEF SerialRequestsAreSafe, OneRecorderRuns
  <2>1. ~Up => \A p \in Recorders : ~Alive(p)
    BY DEF RInv, OneRecorder, Up, Threads
  <2> QED
    BY <2>1 DEF RInv, OneRecorder
<1> QED
  BY Invariance, <1>1, PTL

============================================================================
