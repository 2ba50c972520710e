--------------------------- MODULE LiveViewProofs ---------------------------
(***************************************************************************)
(* Proofs about LiveView, for any number of frames and pumps: however      *)
(* hasty the user, that the camera encodes for a viewer as long as there   *)
(* is one, if transfers and failures stay within the idle limit, and not   *)
(* much longer, and that answers are fresh; for an unhurried one, that the *)
(* screen shows the frames in order.                                       *)
(***************************************************************************)
EXTENDS LiveView, TLAPS

\* Two of the types, apart.
Switches == subscribed \in BOOLEAN /\ live \in BOOLEAN

LEMMA SwitchesStep ==
  ASSUME Switches, [Next]_vars
  PROVE  Switches'
<1> USE DEF Switches, console, page, vars
<1>1. CASE OnCompressed \/ StopLive \/ GoLive \/ Tick
  BY <1>1, Zenon DEF OnCompressed, StopLive, GoLive, Tick
<1>2. CASE ManageImageSub
  <2>1. Wanted \in BOOLEAN
    BY DEF Wanted
  <2> QED
    BY <1>2, <2>1, Zenon DEF ManageImageSub
<1>3. ASSUME NEW p \in Pumps, PumpSteps(p) \/ FetchFails(p) \/ ImageFails(p)
      PROVE  Switches'
  BY <1>3, Zenon DEF PumpSteps, RequestArrives, Answers, HeadersRead,
     SetsSource, Loads, Retries, FetchFails, ImageFails, Failure
<1>4. CASE UNCHANGED vars
  BY <1>4, Zenon
<1> QED
  BY <1>1, <1>2, <1>3, <1>4 DEF Next

\* A pump that does not exist yet has sent no request.
Fresh == \A p \in Pumps : pc[p] = "none" => p \notin chained

\* Where a pump is stays typed when one of them moves on.
LEMMA Moved ==
  ASSUME NEW p \in Pumps, NEW from, NEW to \in PumpStates \ {"none"},
         NEW time \in Nat,
         pc \in [Pumps -> PumpStates], left \in [Pumps -> Nat],
         PumpMoves(p, from, to, time)
  PROVE  /\ pc' \in [Pumps -> PumpStates] /\ left' \in [Pumps -> Nat]
         /\ \A q \in Pumps : pc'[q] = "none" => pc[q] = "none" /\ q # p
BY DEF PumpMoves

\* Whatever a pump does, it moves on, and the first time to send its request.
PumpActs(p) == PumpSteps(p) \/ FetchFails(p) \/ ImageFails(p)

LEMMA PumpMoved ==
  ASSUME TypeOK, NEW p \in Pumps, PumpActs(p)
  PROVE  /\ pc' \in [Pumps -> PumpStates] /\ left' \in [Pumps -> Nat]
         /\ \A q \in Pumps : pc'[q] = "none" => pc[q] = "none" /\ q # p
<1>1. /\ TransferTime \in Nat /\ LongPoll \in Nat /\ RetryPause \in Nat
      /\ 0 \in Nat
  BY LiveViewConstants DEF LiveViewConstants, LongPoll, RetryPause
<1>2. /\ pc \in [Pumps -> PumpStates] /\ left \in [Pumps -> Nat]
  BY Zenon DEF TypeOK
<1>3. {"asking", "held", "answered", "body", "loading", "retry", "ended"}
        = PumpStates \ {"none"}
  BY DEF PumpStates
<1>4. \E from : \E to \in PumpStates \ {"none"} : \E time \in Nat :
        PumpMoves(p, from, to, time)
  <2>1. CASE PumpSteps(p)
    BY <1>1, <1>3, <2>1
       DEF PumpSteps, RequestArrives, Answers, HeadersRead, SetsSource, Loads,
           Retries, LoopHead
  <2>2. CASE FetchFails(p) \/ ImageFails(p)
    BY <1>1, <1>3, <2>2, Zenon DEF FetchFails, ImageFails, Failure
  <2> QED
    BY <2>1, <2>2, Zenon DEF PumpActs
<1> QED
  BY <1>2, <1>4, Moved

\* What a pump does to the rest of the console and the page.
LEMMA PumpLeaves ==
  ASSUME NEW p \in Pumps, PumpActs(p)
  PROVE  /\ UNCHANGED <<seq, quiet, timer, pumpId>>
         /\ idle' = idle \/ idle' = 0
         /\ \/ failures' = failures
            \/ failures < MaxFailures /\ failures' = failures + 1
         /\ onload' = onload \/ onload' = p
         /\ lastSeq' = lastSeq \/ lastSeq' = got[p]
         /\ shown' = shown \/ shown' = got[p]
<1> USE DEF console, page
<1>1. CASE RequestArrives(p) \/ Answers(p)
  <2>1. CASE RequestArrives(p)
    BY <2>1, Zenon DEF RequestArrives, Answers
  <2>2. CASE Answers(p)
    BY <2>2, Zenon DEF RequestArrives, Answers
  <2> QED
    BY <1>1, <2>1, <2>2
<1>2. CASE HeadersRead(p) \/ SetsSource(p)
  <2>1. CASE HeadersRead(p)
    BY <2>1, Zenon DEF HeadersRead, SetsSource
  <2>2. CASE SetsSource(p)
    BY <2>2, Zenon DEF HeadersRead, SetsSource
  <2> QED
    BY <1>2, <2>1, <2>2
<1>3. CASE Loads(p) \/ Retries(p)
  <2>1. CASE Loads(p)
    BY <2>1, Zenon DEF Loads, Retries
  <2>2. CASE Retries(p)
    BY <2>2, Zenon DEF Loads, Retries
  <2> QED
    BY <1>3, <2>1, <2>2
<1>4. CASE FetchFails(p) \/ ImageFails(p)
  <2>1. CASE FetchFails(p)
    BY <2>1, Zenon DEF FetchFails, ImageFails, Failure
  <2>2. CASE ImageFails(p)
    BY <2>2, Zenon DEF FetchFails, ImageFails, Failure
  <2> QED
    BY <1>4, <2>1, <2>2
<1> QED
  BY <1>1, <1>2, <1>3, <1>4 DEF PumpActs, PumpSteps

LEMMA TypeStep ==
  ASSUME TypeOK, Fresh, [Next]_vars
  PROVE  TypeOK' /\ Fresh'
<1>s. Switches'
  <2>1. Switches
    BY Zenon DEF TypeOK, Switches
  <2> QED
    BY <2>1, SwitchesStep
<1> USE <1>s, LiveViewConstants
    DEF LiveViewConstants, TypeOK, Fresh, Switches, Pumps, Seqs, PumpStates,
        LongPoll, IdleLimit, TimerPeriod, RetryPause, Relieved,
        console, page, request, PumpMoves
<1>1. CASE OnCompressed
  BY <1>1 DEF OnCompressed
<1>2. CASE ManageImageSub
  BY <1>2 DEF ManageImageSub
<1>3. CASE StopLive
  BY <1>3 DEF StopLive
<1>4. CASE GoLive
  <2>1. pumpId + 1 \in Pumps /\ TransferTime \in Nat
    <3>1. pumpId \in Pumps /\ pumpId < MaxPumps
      BY <1>4, Zenon DEF GoLive, TypeOK
    <3> HIDE DEF TypeOK, Fresh
    <3> QED
      BY <3>1
  <2>2. /\ pc' \in [Pumps -> PumpStates] /\ left' \in [Pumps -> Nat]
        /\ \A q \in Pumps : pc'[q] = "none" => pc[q] = "none"
    <3>1. PumpMoves(pumpId + 1, "none", "asking", TransferTime)
      BY <1>4, Zenon DEF GoLive
    <3>2. pc \in [Pumps -> PumpStates] /\ left \in [Pumps -> Nat]
      BY Zenon DEF TypeOK
    <3>3. "asking" \in PumpStates \ {"none"}
      OBVIOUS
    <3> HIDE DEF Pumps, PumpMoves, TypeOK, Fresh, PumpStates
    <3> QED
      BY <2>1, <3>1, <3>2, <3>3, Moved
  <2> HIDE DEF PumpMoves
  <2>3. Fresh'
    <3>1. UNCHANGED chained
      BY <1>4, Zenon DEF GoLive
    <3> HIDE DEF Pumps, TypeOK
    <3> QED
      BY <2>2, <3>1
  <2>4. pumpId' \in Pumps /\ since' \in [Pumps -> Seqs]
    <3>1. /\ since \in [Pumps -> Seqs] /\ lastSeq \in Seqs
          /\ pumpId' = pumpId + 1
          /\ since' = [since EXCEPT ![pumpId + 1] = lastSeq]
      BY <1>4, Zenon DEF GoLive, TypeOK
    <3> HIDE DEF Pumps, Seqs, TypeOK, Fresh
    <3> QED
      BY <2>1, <3>1
  <2>5. UNCHANGED <<seq, quiet, idle, timer, lastSeq, onload, shown, got,
                    chained, failures>>
    BY <1>4, Zenon DEF GoLive
  <2> QED
    <3> HIDE DEF Pumps, Seqs, PumpStates, Fresh, LongPoll, IdleLimit,
             TimerPeriod, Relieved
    <3> QED
      BY <1>s, <2>2, <2>3, <2>4, <2>5, Zenon
<1>5. CASE Tick
  <2>1. left' \in [Pumps -> Nat]
    <3>1. /\ left \in [Pumps -> Nat]
          /\ left' = [p \in Pumps |-> Less(left[p])]
      BY <1>5, Zenon DEF Tick, TypeOK
    <3> HIDE DEF TypeOK, Fresh, Pumps
    <3> QED
      BY <3>1 DEF Less
  <2>2. idle' \in 0..Relieved /\ quiet' \in 0..LongPoll
        /\ timer' \in 0..TimerPeriod
    <3>1. /\ idle \in 0..Relieved /\ quiet \in 0..LongPoll
          /\ timer \in 0..TimerPeriod /\ timer > 0 /\ timer' = timer - 1
          /\ idle' = UpTo(Relieved, idle) /\ quiet' = UpTo(LongPoll, quiet)
      BY <1>5, Zenon DEF Tick, TypeOK
    <3> HIDE DEF TypeOK, Fresh
    <3> QED
      BY <3>1 DEF UpTo
  <2>3. UNCHANGED <<seq, pumpId, lastSeq, onload, shown, since, got, pc,
                    chained, failures>>
    BY <1>5, Zenon DEF Tick
  <2> QED
    <3> HIDE DEF Pumps, Seqs, PumpStates, LongPoll, TimerPeriod, Relieved
    <3> QED
      BY <1>s, <2>1, <2>2, <2>3, Zenon
<1>6. ASSUME NEW p \in Pumps, PumpActs(p)
      PROVE  TypeOK' /\ Fresh'
  <2> USE DEF PumpActs, PumpSteps, RequestArrives, Answers, HeadersRead,
      SetsSource, Loads, Retries, LoopHead, FetchFails, ImageFails, Failure
  <2>1. /\ pc' \in [Pumps -> PumpStates] /\ left' \in [Pumps -> Nat]
        /\ \A q \in Pumps : pc'[q] = "none" => pc[q] = "none" /\ q # p
    <3> HIDE DEF Pumps, PumpActs, TypeOK
    <3> QED
      BY <1>6, PumpMoved
  <2> HIDE DEF PumpMoves
  <2>2. Fresh'
    <3> HIDE DEF Pumps, TypeOK
    <3> QED
      BY <1>6, <2>1
  <2>3. seq' \in Seqs /\ quiet' \in 0..LongPoll /\ timer' \in 0..TimerPeriod
        /\ idle' \in 0..Relieved /\ failures' \in 0..MaxFailures
    <3>1. /\ seq \in Seqs /\ quiet \in 0..LongPoll /\ timer \in 0..TimerPeriod
          /\ idle \in 0..Relieved /\ failures \in 0..MaxFailures
      BY Zenon DEF TypeOK
    <3> HIDE DEF PumpActs, TypeOK, Fresh, Switches
    <3> QED
      BY <1>6, <3>1, PumpLeaves
  <2>4. /\ pumpId' \in Pumps /\ onload' \in 0..MaxPumps
        /\ lastSeq' \in Seqs /\ shown' \in Seqs
    <3>1. /\ pumpId \in Pumps /\ onload \in 0..MaxPumps
          /\ lastSeq \in Seqs /\ shown \in Seqs /\ got[p] \in Seqs
      BY DEF TypeOK
    <3> HIDE DEF PumpActs, TypeOK, Fresh, Switches
    <3> QED
      BY <1>6, <3>1, PumpLeaves
  <2>5. since' \in [Pumps -> Seqs] /\ got' \in [Pumps -> Seqs]
        /\ chained' \subseteq Pumps
    BY <1>6
  <2> QED
    BY <1>s, <2>1, <2>2, <2>3, <2>4, <2>5, Zenon DEF TypeOK, Switches
<1>7. CASE UNCHANGED vars
  BY <1>7 DEF vars
<1> QED
  BY <1>1, <1>2, <1>3, <1>4, <1>5, <1>6, <1>7 DEF Next, PumpActs

LEMMA Typed == Spec => [](TypeOK /\ Fresh)
<1>1. Init => TypeOK /\ Fresh
  <2> SUFFICES ASSUME Init PROVE TypeOK /\ Fresh
    OBVIOUS
  <2>1. Switches
    BY Zenon DEF Init, Switches
  <2> QED
    BY <2>1, LiveViewConstants
       DEF LiveViewConstants, Init, TypeOK, Fresh, Switches, Pumps, Seqs,
           PumpStates, LongPoll, IdleLimit, TimerPeriod, Relieved
<1>2. TypeOK /\ Fresh /\ [Next]_vars => TypeOK' /\ Fresh'
  BY TypeStep
<1> QED
  BY <1>1, <1>2, PTL DEF Spec

\* The variables keep their types: no frame is answered, shown or remembered
\* that was not delivered (console_node.py:319-324, index.html:211-221).
THEOREM TypeCorrect == Spec => []TypeOK
BY Typed, PTL

(***************************************************************************)
(* The relief: as long as it subscribes, the console has looked at the     *)
(* clock since the last request ran out of time.                           *)
(***************************************************************************)
Attentive == subscribed => idle + timer <= IdleLimit - 1 + TimerPeriod

\* The types that the clocks need, apart.
ClockTypes == idle \in 0..Relieved /\ timer \in 0..TimerPeriod

LEMMA AttentiveStep ==
  ASSUME TypeOK, Attentive, [Next]_vars
  PROVE  Attentive'
<1>1. ClockTypes
  BY Zenon DEF TypeOK, ClockTypes
<1> USE DEF Attentive, ClockTypes, IdleLimit, TimerPeriod, Relieved
<1>2. CASE ManageImageSub
  <2>1. CASE idle < IdleLimit
    <3>1. idle' = idle /\ timer' = TimerPeriod
      BY <1>2, Zenon DEF ManageImageSub
    <3> QED
      BY <1>1, <2>1, <3>1
  <2>2. CASE ~(idle < IdleLimit)
    <3>1. ~subscribed'
      <4>1. ~Wanted
        BY <2>2, Zenon DEF Wanted
      <4> QED
        BY <1>2, <4>1, Zenon DEF ManageImageSub
    <3> QED
      BY <3>1, Zenon
  <2> QED
    BY <2>1, <2>2
<1>3. CASE Tick
  BY <1>1, <1>3 DEF Tick, UpTo
<1>4. ASSUME NEW p \in Pumps, RequestArrives(p)
      PROVE  Attentive'
  BY <1>1, <1>4 DEF RequestArrives
<1>5. CASE UNCHANGED <<subscribed, idle, timer>>
  <2> HIDE DEF ClockTypes
  <2> QED
    BY <1>5, Zenon
<1>6. UNCHANGED <<subscribed, idle, timer>> \/ ManageImageSub \/ Tick
        \/ \E p \in Pumps : RequestArrives(p)
  BY Zenon DEF Next, PumpSteps, OnCompressed, StopLive, GoLive, Answers,
     HeadersRead, SetsSource, Loads, Retries, FetchFails, ImageFails, Failure,
     vars, console
<1> QED
  BY <1>2, <1>3, <1>4, <1>5, <1>6, Zenon

\* Once the last viewer has left, the camera is relieved of the encoding within
\* the idle limit and one period of the timer (console_node.py:271-277, 303).
THEOREM CameraIsRelievedTheorem == Spec => []CameraIsRelieved
<1>1. Init => Attentive
  BY Zenon DEF Init, Attentive
<1>2. TypeOK /\ Attentive /\ [Next]_vars => Attentive'
  BY AttentiveStep
<1>3. TypeOK /\ Attentive => CameraIsRelieved
  <2> SUFFICES ASSUME TypeOK, Attentive PROVE CameraIsRelieved
    OBVIOUS
  <2>1. ClockTypes
    BY Zenon DEF TypeOK, ClockTypes
  <2> QED
    BY <2>1 DEF Attentive, ClockTypes, CameraIsRelieved, IdleLimit,
       TimerPeriod, Relieved
<1> QED
  BY <1>1, <1>2, <1>3, TypeCorrect, PTL DEF Spec

(***************************************************************************)
(* The stream: a pump that is watched owes its next request before the     *)
(* console would give the viewer up.  After i half seconds without a       *)
(* request, a pump in state s with l to go there still fits in the budget. *)
(***************************************************************************)
Total(f) == LongPoll + 4 * TransferTime + f * (RetryPause + TransferTime)

Bounded(s, l) ==
  /\ s = "held" => l <= LongPoll
  /\ s \in {"asking", "answered", "body", "loading"} => l <= TransferTime
  /\ s = "retry" => l <= RetryPause

Fits(s, l, i, total) ==
  /\ s = "asking" => i + l <= total
  /\ s = "held" => i + l + 4 * TransferTime <= total
  /\ s = "answered" => i + l + 3 * TransferTime <= total
  /\ s = "body" => i + l + 2 * TransferTime <= total
  /\ s \in {"loading", "retry"} => i + l + TransferTime <= total

\* Nobody waits for a pump whose first request is on its way, nor for one whose
\* image another pump has taken.
Excused(p) == p \notin chained \/ (pc[p] = "loading" /\ onload # p)

OnSchedule ==
  \A p \in Pumps :
    /\ Bounded(pc[p], left[p])
    /\ Excused(p) \/ Fits(pc[p], left[p], idle, Total(failures))

\* The budget is a number, enough for one round, and every failure adds to it.
LEMMA Totals ==
  ASSUME NEW f \in Nat
  PROVE  /\ Total(f) \in Nat
         /\ Total(f) >= LongPoll + 4 * TransferTime
         /\ Total(f + 1) = Total(f) + RetryPause + TransferTime
<1>1. TransferTime \in Nat
  BY LiveViewConstants DEF LiveViewConstants
<1> DEFINE c == RetryPause + TransferTime
<1>2. c \in Nat
  BY <1>1 DEF RetryPause
<1>3. f * c \in Nat /\ (f + 1) * c = f * c + c
  <2> HIDE DEF c
  <2> QED
    BY <1>2
<1> QED
  BY <1>1, <1>3 DEF Total, LongPoll, RetryPause

\* A request starts the budget anew, and nothing but time uses it up.
LEMMA Fitting ==
  ASSUME NEW s, NEW l \in Nat, NEW i \in Nat, NEW total \in Nat,
         Bounded(s, l)
  PROVE  /\ total >= LongPoll + 4 * TransferTime => Fits(s, l, 0, total)
         /\ Fits(s, l, i, total)
              => /\ \A j, u \in Nat : j <= i /\ total <= u => Fits(s, l, j, u)
                 /\ l > 0 => Fits(s, l - 1, i + 1, total)
BY LiveViewConstants
   DEF LiveViewConstants, Fits, Bounded, LongPoll, RetryPause

\* The types that the budget needs, apart.
BudgetTypes ==
  /\ idle \in Nat /\ failures \in Nat
  /\ pc \in [Pumps -> PumpStates] /\ left \in [Pumps -> Nat]

LEMMA Budgeted == TypeOK => BudgetTypes
<1> SUFFICES ASSUME TypeOK PROVE BudgetTypes
  OBVIOUS
<1>1. /\ idle \in 0..Relieved /\ failures \in 0..MaxFailures
      /\ pc \in [Pumps -> PumpStates] /\ left \in [Pumps -> Nat]
  BY Zenon DEF TypeOK
<1>2. idle \in Nat /\ failures \in Nat
  <2> HIDE DEF Pumps, PumpStates
  <2> QED
    BY <1>1 DEF Relieved, IdleLimit, TimerPeriod
<1> QED
  BY <1>1, <1>2, Zenon DEF BudgetTypes

\* What one pump does leaves the others on schedule.
LEMMA OthersFit ==
  ASSUME BudgetTypes, OnSchedule, NEW p \in Pumps, NEW q \in Pumps, q # p,
         pc'[q] = pc[q], left'[q] = left[q],
         idle' = idle \/ idle' = 0,
         failures' = failures \/ failures' = failures + 1,
         chained' \subseteq chained \cup {p}, onload' \in {onload, p}
  PROVE  /\ Bounded(pc'[q], left'[q])
         /\ Excused(q)' \/ Fits(pc'[q], left'[q], idle', Total(failures'))
<1> USE DEF BudgetTypes
<1>1. left[q] \in Nat /\ Bounded(pc[q], left[q])
  BY DEF OnSchedule
<1>2. CASE Excused(q)
  BY <1>1, <1>2 DEF Excused
<1>3. CASE Fits(pc[q], left[q], idle, Total(failures))
  <2>1. /\ Total(failures') \in Nat /\ Total(failures) \in Nat
        /\ Total(failures) <= Total(failures')
        /\ Total(failures') >= LongPoll + 4 * TransferTime
    <3>1. TransferTime \in Nat /\ RetryPause \in Nat
      BY LiveViewConstants DEF LiveViewConstants, RetryPause
    <3>2. failures' \in Nat /\ failures \in Nat
      OBVIOUS
    <3>3. Total(failures') \in Nat /\ Total(failures) \in Nat
      BY <3>2, Totals
    <3>4. /\ Total(failures') >= LongPoll + 4 * TransferTime
          /\ Total(failures + 1) = Total(failures) + RetryPause + TransferTime
      BY <3>2, Totals
    <3> QED
      BY <3>1, <3>3, <3>4
  <2> QED
    BY <1>1, <1>3, <2>1, Fitting
<1> QED
  BY <1>2, <1>3, Zenon DEF OnSchedule

\* What fits in one state fits in the next one, too.
LEMMA Follows ==
  ASSUME NEW l \in Nat, NEW i \in Nat, NEW total \in Nat
  PROVE  /\ \A t \in {0, LongPoll} : Bounded("held", t)
         /\ \A s \in {"asking", "answered", "body", "loading"} :
              Bounded(s, TransferTime)
         /\ Bounded("retry", RetryPause) /\ Bounded("ended", 0)
         /\ total >= LongPoll + 4 * TransferTime
              => \A t \in {0, LongPoll} : Fits("held", t, 0, total)
         /\ Fits("held", l, i, total) => Fits("answered", TransferTime, i, total)
         /\ Fits("answered", l, i, total)
              => /\ Fits("body", TransferTime, i, total)
                 /\ Fits("retry", RetryPause, i, total)
         /\ Fits("body", l, i, total) => Fits("loading", TransferTime, i, total)
         /\ \A s \in {"loading", "retry"} :
              Fits(s, l, i, total) => /\ Fits("asking", TransferTime, i, total)
                                      /\ Fits("ended", 0, i, total)
         /\ \A s \in {"asking", "held", "answered", "body", "loading"} :
              Fits(s, l, i, total)
                => Fits("retry", RetryPause, i, total + RetryPause + TransferTime)
BY LiveViewConstants
   DEF LiveViewConstants, Fits, Bounded, LongPoll, RetryPause

\* What a pump does keeps it on schedule.
LEMMA OwnFits ==
  ASSUME BudgetTypes, OnSchedule, NEW p \in Pumps, PumpActs(p)
  PROVE  /\ Bounded(pc'[p], left'[p])
         /\ Excused(p)' \/ Fits(pc'[p], left'[p], idle', Total(failures'))
<1>1. /\ left[p] \in Nat /\ idle \in Nat /\ Total(failures) \in Nat
      /\ Total(failures) >= LongPoll + 4 * TransferTime
      /\ Total(failures + 1) = Total(failures) + RetryPause + TransferTime
  <2>1. failures \in Nat
    BY DEF BudgetTypes
  <2>2. left[p] \in Nat /\ idle \in Nat
    BY DEF BudgetTypes
  <2> QED
    BY <2>1, <2>2, Totals
<1>2. ASSUME NEW from, NEW to, NEW time, PumpMoves(p, from, to, time)
      PROVE  pc[p] = from /\ pc'[p] = to /\ left'[p] = time
  BY <1>2 DEF PumpMoves, BudgetTypes
<1>3. /\ \A t \in {0, LongPoll} : Bounded("held", t)
      /\ \A s \in {"asking", "answered", "body", "loading"} :
           Bounded(s, TransferTime)
      /\ Bounded("retry", RetryPause) /\ Bounded("ended", 0)
      /\ \A t \in {0, LongPoll} : Fits("held", t, 0, Total(failures))
  BY <1>1, Follows
<1>4. ASSUME UNCHANGED <<idle, failures, chained>>
      PROVE  (Fits(pc[p], left[p], idle, Total(failures))
                 => Fits(pc'[p], left'[p], idle, Total(failures)))
               /\ (pc[p] = "loading" => onload = p)
             => Excused(p)' \/ Fits(pc'[p], left'[p], idle', Total(failures'))
  BY <1>4, Zenon DEF OnSchedule, Excused
<1>5. CASE RequestArrives(p)
  <2>1. PumpMoves(p, "asking", "held", IF since[p] = 0 THEN 0 ELSE LongPoll)
        /\ idle' = 0 /\ failures' = failures
    BY <1>5, Zenon DEF RequestArrives
  <2>2. pc'[p] = "held" /\ left'[p] \in {0, LongPoll}
    BY <1>2, <2>1
  <2> QED
    BY <1>3, <2>1, <2>2
<1>6. CASE Answers(p)
  <2>1. /\ PumpMoves(p, "held", "answered", TransferTime)
        /\ UNCHANGED <<idle, failures, chained>>
    BY <1>6, Zenon DEF Answers, console
  <2>2. /\ pc[p] = "held" /\ pc'[p] = "answered"
        /\ left'[p] = TransferTime
    BY <1>2, <2>1
  <2> QED
    BY <1>1, <1>3, <1>4, <2>1, <2>2, Follows
<1>7. CASE HeadersRead(p)
  <2>1. /\ \/ PumpMoves(p, "answered", "retry", RetryPause)
           \/ PumpMoves(p, "answered", "body", TransferTime)
        /\ UNCHANGED <<idle, failures, chained>>
    BY <1>7, Zenon DEF HeadersRead, console
  <2>2. /\ pc[p] = "answered"
        /\ \/ pc'[p] = "retry" /\ left'[p] = RetryPause
           \/ pc'[p] = "body" /\ left'[p] = TransferTime
    BY <1>2, <2>1
  <2> QED
    BY <1>1, <1>3, <1>4, <2>1, <2>2, Follows
<1>8. CASE SetsSource(p)
  <2>1. /\ PumpMoves(p, "body", "loading", TransferTime)
        /\ UNCHANGED <<idle, failures, chained>>
    BY <1>8, Zenon DEF SetsSource, console
  <2>2. /\ pc[p] = "body" /\ pc'[p] = "loading"
        /\ left'[p] = TransferTime
    BY <1>2, <2>1
  <2> QED
    BY <1>1, <1>3, <1>4, <2>1, <2>2, Follows
<1>9. CASE Loads(p) \/ Retries(p)
  <2>1. /\ \E from \in {"loading", "retry"} :
             \/ PumpMoves(p, from, "asking", TransferTime)
             \/ PumpMoves(p, from, "ended", 0)
        /\ UNCHANGED <<idle, failures, chained>>
    BY <1>9, Zenon DEF Loads, Retries, LoopHead, console
  <2>2. /\ pc[p] \in {"loading", "retry"}
        /\ \/ pc'[p] = "asking" /\ left'[p] = TransferTime
           \/ pc'[p] = "ended" /\ left'[p] = 0
    BY <1>2, <2>1
  <2>3. pc[p] = "loading" => onload = p
    <3>1. CASE Loads(p)
      BY <3>1, Zenon DEF Loads
    <3>2. CASE Retries(p)
      <4>1. \E to, time : PumpMoves(p, "retry", to, time)
        BY <3>2, Zenon DEF Retries, LoopHead
      <4> QED
        BY <1>2, <4>1
    <3> QED
      BY <1>9, <3>1, <3>2
  <2> QED
    BY <1>1, <1>3, <1>4, <2>1, <2>2, <2>3, Follows
<1>10. CASE FetchFails(p) \/ ImageFails(p)
  <2>1. \E from \in {"asking", "held", "answered", "body", "loading"} :
          /\ Failure(p, from)
          /\ from = "loading" => onload = p
    <3>1. CASE FetchFails(p)
      BY <3>1 DEF FetchFails
    <3>2. CASE ImageFails(p)
      BY <3>2 DEF ImageFails
    <3> QED
      BY <1>10, <3>1, <3>2
  <2>2. PICK from \in {"asking", "held", "answered", "body", "loading"} :
          /\ Failure(p, from)
          /\ from = "loading" => onload = p
    BY <2>1
  <2>3. /\ pc[p] = from /\ pc'[p] = "retry" /\ left'[p] = RetryPause
        /\ failures' = failures + 1 /\ UNCHANGED <<idle, chained>>
    <3>1. PumpMoves(p, from, "retry", RetryPause)
      BY <2>2, Zenon DEF Failure
    <3> QED
      BY <1>2, <2>2, <3>1, Zenon DEF Failure, console
  <2>4. Fits(pc[p], left[p], idle, Total(failures))
          => Fits("retry", RetryPause, idle, Total(failures + 1))
    BY <1>1, <2>3, Follows
  <2>5. Excused(p) => Excused(p)'
    BY <2>2, <2>3, Zenon DEF Excused
  <2> QED
    BY <1>3, <2>3, <2>4, <2>5, Zenon DEF OnSchedule
<1> QED
  BY <1>5, <1>6, <1>7, <1>8, <1>9, <1>10 DEF PumpActs, PumpSteps

LEMMA OnScheduleStep ==
  ASSUME BudgetTypes, Fresh, OnSchedule, [Next]_vars
  PROVE  OnSchedule'
<1>1. CASE UNCHANGED <<idle, failures, pc, left, chained, onload>>
  BY <1>1, Zenon DEF OnSchedule, Excused
<1>2. CASE Tick
  <2> SUFFICES ASSUME NEW p \in Pumps
               PROVE  /\ Bounded(pc'[p], left'[p])
                      /\ Excused(p)' \/ Fits(pc'[p], left'[p], idle',
                                             Total(failures'))
    BY DEF OnSchedule
  <2>1. /\ pc'[p] = pc[p] /\ left'[p] = Less(left[p])
        /\ failures' = failures /\ (Excused(p)' <=> Excused(p))
        /\ Waits(p)
    BY <1>2 DEF Tick, page, Excused
  <2>2. /\ left[p] \in Nat /\ idle \in Nat /\ Bounded(pc[p], left[p])
        /\ idle' \in Nat /\ idle' <= idle + 1
    BY <1>2 DEF BudgetTypes, OnSchedule, Tick, UpTo
  <2>3. Bounded(pc'[p], left'[p])
    BY <2>1, <2>2, LiveViewConstants
       DEF Bounded, Less, LiveViewConstants, LongPoll, RetryPause
  <2>4. ASSUME ~Excused(p)
        PROVE  Fits(pc'[p], left'[p], idle', Total(failures'))
    <3>1. Total(failures) \in Nat
      BY Totals DEF BudgetTypes
    <3>2. Fits(pc[p], left[p], idle, Total(failures))
      BY <2>4, Zenon DEF OnSchedule
    <3>3. CASE pc[p] \in {"none", "ended"}
      BY <2>1, <3>3 DEF Fits
    <3>4. CASE left[p] > 0
      <4>1. left'[p] = left[p] - 1 /\ left'[p] \in Nat
        BY <2>1, <2>2, <3>4 DEF Less
      <4>2. Fits(pc[p], left[p] - 1, idle + 1, Total(failures))
        BY <2>2, <3>1, <3>2, <3>4, Fitting
      <4>3. Bounded(pc[p], left[p] - 1)
        BY <2>1, <2>3, <4>1
      <4>4. left[p] - 1 \in Nat /\ idle + 1 \in Nat
        BY <2>2, <4>1
      <4>5. Fits(pc[p], left[p] - 1, idle', Total(failures))
        <5> DEFINE l == left[p] - 1
                   i == idle + 1
        <5>1. l \in Nat /\ i \in Nat /\ idle' <= i
          BY <2>2, <4>4
        <5>2. Fits(pc[p], l, i, Total(failures)) /\ Bounded(pc[p], l)
          BY <4>2, <4>3
        <5> HIDE DEF l, i
        <5>3. Total(failures) <= Total(failures)
          BY <3>1
        <5>4. Fits(pc[p], l, idle', Total(failures))
          BY <2>2, <3>1, <5>1, <5>2, <5>3, Fitting
        <5> QED
          BY <5>4 DEF l
      <4> QED
        BY <2>1, <4>1, <4>5
    <3> QED
      <4>1. p \in chained /\ (pc[p] = "loading" => onload = p)
        BY <2>4, Zenon DEF Excused
      <4>2. \/ pc[p] \in {"none", "ended"} \/ left[p] > 0
            \/ pc[p] = "held" /\ left[p] # 0
        BY <2>1, <4>1 DEF Waits, HoldEnds
      <4> QED
        BY <2>2, <3>3, <3>4, <4>2
  <2> QED
    BY <2>1, <2>3, <2>4, Zenon
<1>3. CASE GoLive
  <2> SUFFICES ASSUME NEW p \in Pumps
               PROVE  /\ Bounded(pc'[p], left'[p])
                      /\ Excused(p)' \/ Fits(pc'[p], left'[p], idle',
                                             Total(failures'))
    BY DEF OnSchedule
  <2>1. /\ PumpMoves(pumpId + 1, "none", "asking", TransferTime)
        /\ UNCHANGED <<idle, failures, chained, onload>>
    BY <1>3, Zenon DEF GoLive, console
  <2>2. CASE p = pumpId + 1
    <3>1. pc[p] = "none" /\ pc'[p] = "asking" /\ left'[p] = TransferTime
      BY <2>1, <2>2 DEF PumpMoves, BudgetTypes
    <3>2. p \notin chained
      BY <3>1, Zenon DEF Fresh
    <3>3. Bounded(pc'[p], left'[p])
      BY <3>1, LiveViewConstants DEF Bounded, LiveViewConstants
    <3> QED
      BY <2>1, <3>2, <3>3 DEF Excused
  <2>3. CASE p # pumpId + 1
    <3>1. pc'[p] = pc[p] /\ left'[p] = left[p]
      BY <2>1, <2>3 DEF PumpMoves, BudgetTypes
    <3> QED
      BY <2>1, <3>1, Zenon DEF OnSchedule, Excused
  <2> QED
    BY <2>2, <2>3
<1>4. ASSUME NEW p \in Pumps, PumpActs(p)
      PROVE  OnSchedule'
  <2> SUFFICES ASSUME NEW q \in Pumps
               PROVE  /\ Bounded(pc'[q], left'[q])
                      /\ Excused(q)' \/ Fits(pc'[q], left'[q], idle',
                                             Total(failures'))
    BY DEF OnSchedule
  <2>1. CASE q = p
    BY <1>4, <2>1, OwnFits
  <2>2. CASE q # p
    <3>1. \E from, to, time : PumpMoves(p, from, to, time)
      <4>1. CASE PumpSteps(p)
        BY <4>1 DEF PumpSteps, RequestArrives, Answers, HeadersRead,
           SetsSource, Loads, Retries, LoopHead
      <4>2. CASE FetchFails(p) \/ ImageFails(p)
        BY <4>2, Zenon DEF FetchFails, ImageFails, Failure
      <4> QED
        BY <1>4, <4>1, <4>2 DEF PumpActs
    <3>2. pc'[q] = pc[q] /\ left'[q] = left[q]
      BY <2>2, <3>1 DEF PumpMoves, BudgetTypes
    <3>3. /\ idle' = idle \/ idle' = 0
          /\ failures' = failures \/ failures' = failures + 1
          /\ chained' \subseteq chained \cup {p} /\ onload' \in {onload, p}
      <4>1. CASE PumpSteps(p)
        BY <4>1 DEF PumpSteps, RequestArrives, Answers, HeadersRead,
           SetsSource, Loads, Retries, LoopHead, console, page
      <4>2. CASE FetchFails(p) \/ ImageFails(p)
        BY <4>2 DEF FetchFails, ImageFails, Failure, console, page
      <4> QED
        BY <1>4, <4>1, <4>2 DEF PumpActs
    <3> QED
      BY <2>2, <3>2, <3>3, OthersFit
  <2> QED
    BY <2>1, <2>2
<1>5. \/ UNCHANGED <<idle, failures, pc, left, chained, onload>>
      \/ Tick \/ GoLive \/ \E p \in Pumps : PumpActs(p)
  BY Zenon DEF Next, PumpActs, OnCompressed, ManageImageSub, StopLive, vars,
     console, page, request
<1> QED
  BY <1>1, <1>2, <1>3, <1>4, <1>5, Zenon

\* One hold, four transfers and every failed one together end before the
\* console's idle limit.
Patient ==
  LongPoll + 4 * TransferTime + MaxFailures * (RetryPause + TransferTime)
    < IdleLimit

LEMMA WatchersKept ==
  ASSUME Patient, TypeOK, OnSchedule, [Next]_vars
  PROVE  subscribed /\ ~subscribed' => ~\E p \in Pumps : Watching(p)
<1> SUFFICES ASSUME subscribed, ~subscribed', NEW p \in Pumps, Watching(p)
             PROVE  FALSE
  BY Zenon
<1>1. ManageImageSub
  BY Zenon DEF Next, OnCompressed, StopLive, GoLive, Tick, PumpSteps,
     RequestArrives, Answers, HeadersRead, SetsSource, Loads, Retries,
     FetchFails, ImageFails, Failure, vars, console
<1>2. ~(idle < IdleLimit)
  BY <1>1, Zenon DEF ManageImageSub, Wanted
<1>3. BudgetTypes /\ failures \in 0..MaxFailures
  BY Budgeted, Zenon DEF TypeOK
<1>4. Total(failures) < IdleLimit
  <2> DEFINE c == RetryPause + TransferTime
  <2>1. c \in Nat /\ MaxFailures \in Nat /\ failures \in Nat
        /\ failures <= MaxFailures /\ TransferTime \in Nat
    BY <1>3, LiveViewConstants DEF LiveViewConstants, RetryPause
  <2>2. failures * c <= MaxFailures * c
        /\ failures * c \in Nat /\ MaxFailures * c \in Nat
    <3> HIDE DEF c
    <3> QED
      BY <2>1
  <2> QED
    BY <2>1, <2>2 DEF Patient, Total, LongPoll, IdleLimit, RetryPause
<1>5. Fits(pc[p], left[p], idle, Total(failures)) /\ left[p] \in Nat
      /\ idle \in Nat /\ pc[p] \in PumpStates \ {"none", "ended"}
  <2>1. ~Excused(p) /\ pc[p] \notin {"none", "ended"}
    BY Zenon DEF Watching, Excused
  <2> QED
    BY <1>3, <2>1 DEF OnSchedule, BudgetTypes
<1>6. Total(failures) \in Nat
  BY <1>3, Totals DEF BudgetTypes
<1> QED
  BY <1>2, <1>4, <1>5, <1>6, LiveViewConstants
     DEF Fits, PumpStates, LiveViewConstants, IdleLimit

\* Nobody loses the stream while watching it (console_node.py:302-313, 573).
THEOREM ViewerKeepsStreamTheorem ==
  ASSUME Patient
  PROVE  Spec => ViewerKeepsStream
<1>1. Init => OnSchedule
  <2> SUFFICES ASSUME Init, NEW p \in Pumps
               PROVE  Bounded(pc[p], left[p]) /\ Excused(p)
    BY DEF OnSchedule
  <2>1. pc[p] \in {"asking", "none"} /\ left[p] = TransferTime /\ chained = {}
    BY DEF Init
  <2> QED
    BY <2>1, LiveViewConstants DEF Bounded, Excused, LiveViewConstants
<1>2. TypeOK /\ Fresh /\ OnSchedule /\ [Next]_vars => OnSchedule'
  BY Budgeted, OnScheduleStep
<1>3. TypeOK /\ OnSchedule /\ [Next]_vars
        => (subscribed /\ ~subscribed' => ~\E p \in Pumps : Watching(p))
  BY WatchersKept
<1>4. Spec => [](TypeOK /\ Fresh /\ OnSchedule)
  BY <1>1, <1>2, Typed, PTL DEF Spec
<1> QED
  BY <1>3, <1>4, PTL DEF Spec, ViewerKeepsStream

(***************************************************************************)
(* The frames: what a pump has asked for, been answered and displays.      *)
(***************************************************************************)

\* The types that the frames' numbers need, apart.
FrameTypes ==
  /\ seq \in Nat /\ lastSeq \in Nat /\ shown \in Nat /\ quiet \in 0..LongPoll
  /\ since \in [Pumps -> Nat] /\ got \in [Pumps -> Nat]
  /\ pc \in [Pumps -> PumpStates] /\ left \in [Pumps -> Nat]

LEMMA Framed == TypeOK => FrameTypes
<1> SUFFICES ASSUME TypeOK PROVE FrameTypes
  OBVIOUS
<1>1. /\ seq \in Seqs /\ lastSeq \in Seqs /\ shown \in Seqs
      /\ quiet \in 0..LongPoll
      /\ since \in [Pumps -> Seqs] /\ got \in [Pumps -> Seqs]
      /\ pc \in [Pumps -> PumpStates] /\ left \in [Pumps -> Nat]
  BY Zenon DEF TypeOK
<1>2. Seqs \subseteq Nat
  BY LiveViewConstants DEF LiveViewConstants, Seqs
<1> QED
  <2> HIDE DEF Pumps, Seqs, PumpStates
  <2> QED
    BY <1>1, <1>2 DEF FrameTypes

\* Where a pump stands before and after each of its actions.
LEMMA Path ==
  ASSUME FrameTypes, NEW p \in Pumps
  PROVE  /\ RequestArrives(p) => pc[p] = "asking" /\ pc'[p] = "held"
         /\ Answers(p) => pc[p] = "held" /\ pc'[p] = "answered"
         /\ HeadersRead(p) =>
              /\ pc[p] = "answered"
              /\ pc'[p] = IF got[p] = 0 THEN "retry" ELSE "body"
         /\ SetsSource(p) => pc[p] = "body" /\ pc'[p] = "loading"
         /\ Loads(p) => pc[p] = "loading" /\ pc'[p] \in {"asking", "ended"}
         /\ Retries(p) => pc[p] = "retry" /\ pc'[p] \in {"asking", "ended"}
         /\ FetchFails(p) \/ ImageFails(p) =>
              /\ pc[p] \in {"asking", "held", "answered", "body", "loading"}
              /\ pc'[p] = "retry"
<1>1. ASSUME NEW from, NEW to, NEW time, PumpMoves(p, from, to, time)
      PROVE  pc[p] = from /\ pc'[p] = to
  BY <1>1 DEF PumpMoves, FrameTypes
<1>2. /\ RequestArrives(p) => pc[p] = "asking" /\ pc'[p] = "held"
      /\ Answers(p) => pc[p] = "held" /\ pc'[p] = "answered"
      /\ SetsSource(p) => pc[p] = "body" /\ pc'[p] = "loading"
  BY <1>1 DEF RequestArrives, Answers, SetsSource
<1>3. HeadersRead(p) =>
        /\ pc[p] = "answered"
        /\ pc'[p] = IF got[p] = 0 THEN "retry" ELSE "body"
  BY <1>1 DEF HeadersRead
<1>4. /\ Loads(p) => pc[p] = "loading" /\ pc'[p] \in {"asking", "ended"}
      /\ Retries(p) => pc[p] = "retry" /\ pc'[p] \in {"asking", "ended"}
  BY <1>1 DEF Loads, Retries, LoopHead
<1>5. FetchFails(p) \/ ImageFails(p) =>
        /\ pc[p] \in {"asking", "held", "answered", "body", "loading"}
        /\ pc'[p] = "retry"
  BY <1>1 DEF FetchFails, ImageFails, Failure
<1> QED
  BY <1>2, <1>3, <1>4, <1>5

\* An action of a pump concerns no other one.
LEMMA OthersRest ==
  ASSUME FrameTypes, NEW p \in Pumps, PumpActs(p), NEW q \in Pumps, q # p
  PROVE  /\ pc'[q] = pc[q] /\ left'[q] = left[q]
         /\ since'[q] = since[q] /\ got'[q] = got[q]
<1>1. \E from, to, time : PumpMoves(p, from, to, time)
  <2>1. CASE PumpSteps(p)
    BY <2>1 DEF PumpSteps, RequestArrives, Answers, HeadersRead,
       SetsSource, Loads, Retries, LoopHead
  <2>2. CASE FetchFails(p) \/ ImageFails(p)
    BY <2>2, Zenon DEF FetchFails, ImageFails, Failure
  <2> QED
    BY <2>1, <2>2 DEF PumpActs
<1>2. pc'[q] = pc[q] /\ left'[q] = left[q]
  BY <1>1 DEF PumpMoves, FrameTypes
<1>3. /\ since' = since \/ since' = [since EXCEPT ![p] = lastSeq]
      /\ got' = got \/ got' = [got EXCEPT ![p] = seq]
  <2>1. CASE PumpSteps(p)
    BY <2>1, Zenon DEF PumpSteps, RequestArrives, Answers, HeadersRead,
       SetsSource, Loads, Retries, LoopHead
  <2>2. CASE FetchFails(p) \/ ImageFails(p)
    BY <2>2, Zenon DEF FetchFails, ImageFails, Failure
  <2> QED
    BY <2>1, <2>2 DEF PumpActs
<1> QED
  BY <1>2, <1>3 DEF FrameTypes

\* What a pump writes itself.
LEMMA OwnFrames ==
  ASSUME FrameTypes, NEW p \in Pumps, PumpActs(p)
  PROVE  /\ since'[p] = since[p] \/ since'[p] = lastSeq
         /\ got'[p] = got[p] \/ got'[p] = seq
         /\ seq' = seq /\ quiet' = quiet
         /\ lastSeq' = lastSeq \/ lastSeq' = got[p]
<1>1. /\ since' = since \/ since' = [since EXCEPT ![p] = lastSeq]
      /\ got' = got \/ got' = [got EXCEPT ![p] = seq]
  <2>1. CASE PumpSteps(p)
    BY <2>1, Zenon DEF PumpSteps, RequestArrives, Answers, HeadersRead,
       SetsSource, Loads, Retries, LoopHead
  <2>2. CASE FetchFails(p) \/ ImageFails(p)
    BY <2>2, Zenon DEF FetchFails, ImageFails, Failure
  <2> QED
    BY <2>1, <2>2 DEF PumpActs
<1>2. /\ since'[p] = since[p] \/ since'[p] = lastSeq
      /\ got'[p] = got[p] \/ got'[p] = seq
  BY <1>1 DEF FrameTypes
<1>3. /\ seq' = seq /\ quiet' = quiet
      /\ lastSeq' = lastSeq \/ lastSeq' = got[p]
  BY PumpLeaves
<1> QED
  BY <1>2, <1>3

\* Nobody asks for or has been answered a frame that has not arrived.
Delivered ==
  /\ lastSeq <= seq
  /\ \A p \in Pumps : since[p] <= seq /\ got[p] <= seq

\* A hold that waits for the next frame has lasted as long as the stream has
\* been quiet at least.
HoldsOut ==
  \A p \in Pumps :
    pc[p] = "held" /\ since[p] # 0 /\ seq = since[p]
      => LongPoll <= left[p] + quiet

\* What Go live does to the pumps.
LEMMA Started ==
  ASSUME FrameTypes, GoLive
  PROVE  /\ UNCHANGED <<seq, quiet, lastSeq, onload, shown, got>>
         /\ \A q \in Pumps :
              \/ q = pumpId + 1 /\ pc'[q] = "asking" /\ since'[q] = lastSeq
              \/ /\ pc'[q] = pc[q] /\ left'[q] = left[q]
                 /\ since'[q] = since[q]
<1>1. /\ PumpMoves(pumpId + 1, "none", "asking", TransferTime)
      /\ since' = [since EXCEPT ![pumpId + 1] = lastSeq]
      /\ UNCHANGED <<seq, quiet, lastSeq, onload, shown, got>>
  BY Zenon DEF GoLive, console
<1>2. ASSUME NEW q \in Pumps
      PROVE  \/ q = pumpId + 1 /\ pc'[q] = "asking" /\ since'[q] = lastSeq
             \/ /\ pc'[q] = pc[q] /\ left'[q] = left[q]
                /\ since'[q] = since[q]
  <2>1. CASE q = pumpId + 1
    BY <1>1, <2>1 DEF PumpMoves, FrameTypes
  <2>2. CASE q # pumpId + 1
    BY <1>1, <2>2 DEF PumpMoves, FrameTypes
  <2> QED
    BY <2>1, <2>2
<1> QED
  BY <1>1, <1>2

LEMMA DeliveredStep ==
  ASSUME FrameTypes, Delivered, [Next]_vars
  PROVE  Delivered'
<1>1. CASE OnCompressed
  BY <1>1 DEF OnCompressed, Delivered, FrameTypes, page, request
<1>2. CASE UNCHANGED <<seq, lastSeq, since, got>>
  BY <1>2, Zenon DEF Delivered
<1>3. CASE GoLive
  BY <1>3, Started DEF Delivered
<1>4. ASSUME NEW p \in Pumps, PumpActs(p)
      PROVE  Delivered'
  <2>1. /\ since'[p] <= seq /\ got'[p] <= seq /\ seq' = seq
        /\ lastSeq' <= seq
    BY <1>4, OwnFrames DEF Delivered, FrameTypes
  <2>2. ASSUME NEW q \in Pumps, q # p
        PROVE  since'[q] <= seq /\ got'[q] <= seq
    BY <1>4, <2>2, OthersRest DEF Delivered
  <2> QED
    BY <2>1, <2>2 DEF Delivered
<1>5. \/ UNCHANGED <<seq, lastSeq, since, got>>
      \/ OnCompressed \/ GoLive \/ \E p \in Pumps : PumpActs(p)
  BY Zenon DEF Next, PumpActs, ManageImageSub, StopLive, Tick, vars,
     console, page, request
<1> QED
  BY <1>1, <1>2, <1>3, <1>4, <1>5, Zenon

LEMMA HoldsOutStep ==
  ASSUME FrameTypes, Delivered, HoldsOut, [Next]_vars
  PROVE  HoldsOut'
<1>1. CASE OnCompressed
  BY <1>1 DEF OnCompressed, Delivered, HoldsOut, FrameTypes, request
<1>2. CASE UNCHANGED <<seq, quiet, since, pc, left>>
  BY <1>2, Zenon DEF HoldsOut
<1>3. CASE GoLive
  BY <1>3, Started DEF HoldsOut
<1>4. CASE Tick
  <2> SUFFICES ASSUME NEW p \in Pumps, pc'[p] = "held", since'[p] # 0,
                      seq' = since'[p]
               PROVE  LongPoll <= left'[p] + quiet'
    BY DEF HoldsOut
  <2>1. /\ pc' = pc /\ since' = since /\ seq' = seq
        /\ left'[p] = Less(left[p]) /\ quiet' = UpTo(LongPoll, quiet)
        /\ Waits(p)
    BY <1>4 DEF Tick
  <2>2. left[p] \in Nat /\ quiet \in 0..LongPoll
    BY DEF FrameTypes
  <2>3. LongPoll <= left[p] + quiet
    BY <2>1 DEF HoldsOut
  <2>4. left[p] # 0
    BY <2>1 DEF Waits, HoldEnds
  <2> QED
    BY <2>1, <2>2, <2>3, <2>4 DEF Less, UpTo, LongPoll
<1>5. ASSUME NEW p \in Pumps, PumpActs(p)
      PROVE  HoldsOut'
  <2>1. ASSUME NEW q \in Pumps, q # p, pc'[q] = "held", since'[q] # 0,
               seq' = since'[q]
        PROVE  LongPoll <= left'[q] + quiet'
    <3>1. /\ pc'[q] = pc[q] /\ left'[q] = left[q] /\ since'[q] = since[q]
      BY <1>5, <2>1, OthersRest
    <3>2. seq' = seq /\ quiet' = quiet
      BY <1>5, OwnFrames
    <3> QED
      BY <2>1, <3>1, <3>2 DEF HoldsOut
  <2>2. ASSUME pc'[p] = "held", since'[p] # 0
        PROVE  LongPoll <= left'[p] + quiet'
    <3>1. RequestArrives(p)
      BY <1>5, <2>2, Path DEF PumpActs, PumpSteps
    <3>2. /\ left' = [left EXCEPT ![p] = IF since[p] = 0 THEN 0 ELSE LongPoll]
          /\ since' = since /\ quiet' = quiet
      BY <3>1, Zenon DEF RequestArrives, PumpMoves
    <3>3. left'[p] = LongPoll
      BY <2>2, <3>2 DEF FrameTypes
    <3> QED
      BY <3>2, <3>3 DEF FrameTypes, LongPoll
  <2> QED
    BY <2>1, <2>2 DEF HoldsOut
<1>6. \/ UNCHANGED <<seq, quiet, since, pc, left>>
      \/ OnCompressed \/ GoLive \/ Tick \/ \E p \in Pumps : PumpActs(p)
  BY Zenon DEF Next, PumpActs, ManageImageSub, StopLive, vars,
     console, page, request
<1> QED
  BY <1>1, <1>2, <1>3, <1>4, <1>5, <1>6, Zenon

\* A client is answered with the frame it already has only if the camera has
\* delivered none for the whole hold (console_node.py:565-569).
THEOREM FreshWhileStreamingTheorem == Spec => FreshWhileStreaming
<1>1. Init => Delivered /\ HoldsOut
  <2> SUFFICES ASSUME Init PROVE Delivered /\ HoldsOut
    OBVIOUS
  <2>1. /\ seq = 0 /\ lastSeq = 0
        /\ \A p \in Pumps : since[p] = 0 /\ got[p] = 0
    BY DEF Init
  <2> QED
    BY <2>1 DEF Delivered, HoldsOut
<1>2. TypeOK /\ Delivered /\ HoldsOut /\ [Next]_vars => Delivered' /\ HoldsOut'
  BY Framed, DeliveredStep, HoldsOutStep
<1>3. TypeOK /\ HoldsOut
        => \A p \in Pumps :
             Answers(p) /\ since[p] # 0 /\ seq = since[p] => quiet = LongPoll
  <2> SUFFICES ASSUME TypeOK, HoldsOut, NEW p \in Pumps, Answers(p),
                      since[p] # 0, seq = since[p]
               PROVE  quiet = LongPoll
    OBVIOUS
  <2>1. FrameTypes
    BY Framed
  <2>2. pc[p] = "held" /\ left[p] = 0
    BY Zenon DEF Answers, HoldEnds, PumpMoves
  <2>3. LongPoll <= left[p] + quiet
    BY <2>2 DEF HoldsOut
  <2> QED
    BY <2>1, <2>2, <2>3 DEF FrameTypes, LongPoll
<1>4. Spec => [](TypeOK /\ Delivered /\ HoldsOut)
  BY <1>1, <1>2, TypeCorrect, PTL DEF Spec
<1> QED
  BY <1>3, <1>4, PTL DEF Spec, FreshWhileStreaming

(***************************************************************************)
(* The screen of an unhurried user.                                        *)
(***************************************************************************)
Idle(p) == pc[p] \in {"none", "ended"}

\* There is one pump at a time.
Alone == \A p, q \in Pumps : Idle(p) \/ Idle(q) \/ p = q

\* What one pump has been answered: not older than what the page knows, and
\* exactly that once its headers are read.
Current(p) ==
  /\ pc[p] = "answered" => got[p] = 0 \/ lastSeq <= got[p]
  /\ pc[p] \in {"body", "loading"} => got[p] = lastSeq

Forward ==
  /\ Alone
  /\ shown <= lastSeq
  /\ \A p \in Pumps : Current(p)

\* The one pump that is not idle acts, the others stay idle.
LEMMA AloneStays ==
  ASSUME FrameTypes, Alone, NEW p \in Pumps, PumpActs(p)
  PROVE  Alone' /\ \A q \in Pumps : q # p => Idle(q)'
<1>1. ~Idle(p)
  BY Path, Zenon DEF PumpActs, PumpSteps, Idle
<1>2. ASSUME NEW q \in Pumps, q # p
      PROVE  Idle(q)'
  <2>1. Idle(q)
    BY <1>1, <1>2 DEF Alone
  <2> QED
    BY <1>2, <2>1, OthersRest DEF Idle
<1> QED
  BY <1>2, Zenon DEF Alone

\* What the pump's action makes of its own answer and of the screen.
LEMMA ForwardOwn ==
  ASSUME FrameTypes, Delivered, Forward, NEW p \in Pumps, PumpActs(p)
  PROVE  /\ Current(p)' /\ shown' <= lastSeq'
         /\ shown <= shown' /\ shown' <= seq /\ seq' = seq
<1>1. /\ seq \in Nat /\ lastSeq \in Nat /\ shown \in Nat /\ got[p] \in Nat
      /\ lastSeq <= seq /\ got[p] <= seq /\ shown <= lastSeq
      /\ Current(p)
  BY DEF FrameTypes, Delivered, Forward
<1>2. seq' = seq
  BY OwnFrames
<1>3. CASE Answers(p)
  <2>1. /\ pc'[p] = "answered" /\ got'[p] = seq
        /\ UNCHANGED <<lastSeq, shown>>
    <3>1. got' = [got EXCEPT ![p] = seq] /\ UNCHANGED <<lastSeq, shown>>
      BY <1>3, Zenon DEF Answers, page
    <3> QED
      BY <1>3, <3>1, Path DEF FrameTypes
  <2> QED
    BY <1>1, <1>2, <2>1 DEF Current
<1>4. CASE HeadersRead(p)
  <2>1. /\ pc[p] = "answered" /\ UNCHANGED <<got, shown>>
        /\ \/ got[p] = 0 /\ pc'[p] = "retry" /\ lastSeq' = lastSeq
           \/ got[p] # 0 /\ pc'[p] = "body" /\ lastSeq' = got[p]
    BY <1>4, Path DEF HeadersRead
  <2> QED
    BY <1>1, <1>2, <2>1 DEF Current
<1>5. CASE SetsSource(p)
  <2>1. /\ pc[p] = "body" /\ pc'[p] = "loading"
        /\ UNCHANGED <<got, lastSeq, shown>>
    BY <1>5, Path DEF SetsSource
  <2> QED
    BY <1>1, <1>2, <2>1 DEF Current
<1>6. CASE Loads(p)
  <2>1. /\ pc[p] = "loading" /\ pc'[p] \in {"asking", "ended"}
        /\ shown' = got[p] /\ UNCHANGED lastSeq
    BY <1>6, Path DEF Loads
  <2> QED
    BY <1>1, <1>2, <2>1 DEF Current
<1>7. CASE RequestArrives(p) \/ Retries(p) \/ FetchFails(p) \/ ImageFails(p)
  <2>1. pc'[p] \in {"held", "asking", "ended", "retry"}
    BY <1>7, Path
  <2>2. UNCHANGED <<lastSeq, shown>>
    BY <1>7, Zenon DEF RequestArrives, Retries, FetchFails, ImageFails,
       Failure, page
  <2> QED
    BY <1>1, <1>2, <2>1, <2>2 DEF Current
<1> QED
  BY <1>3, <1>4, <1>5, <1>6, <1>7 DEF PumpActs, PumpSteps

LEMMA ForwardStep ==
  ASSUME ~Hasty, FrameTypes, Delivered, Forward, [Next]_vars
  PROVE  Forward' /\ [Sampler!Next]_<<seq, shown>>
<1>1. CASE UNCHANGED <<seq, shown, lastSeq, got, pc>>
  <2>1. UNCHANGED <<seq, shown>>
    BY <1>1, Zenon
  <2> QED
    BY <1>1, <2>1, Zenon DEF Forward, Alone, Current, Idle
<1>2. CASE OnCompressed
  <2>1. /\ seq' = seq + 1
        /\ UNCHANGED <<shown, lastSeq, got, pc>>
    BY <1>2, Zenon DEF OnCompressed, page, request
  <2>2. Forward'
    BY <2>1, Zenon DEF Forward, Alone, Current, Idle
  <2>3. Sampler!Next
    BY <2>1, Zenon DEF Sampler!Next, Sampler!Arrive
  <2> QED
    BY <2>2, <2>3, Zenon
<1>3. CASE GoLive
  <2>1. \A q \in Pumps : Idle(q)
    BY <1>3, Zenon DEF GoLive, Idle
  <2>2. /\ UNCHANGED <<seq, shown, lastSeq, got>>
        /\ \A q \in Pumps : (q = pumpId + 1 /\ pc'[q] = "asking") \/ Idle(q)'
    BY <1>3, <2>1, Started DEF Idle
  <2>3. Alone'
    BY <2>2, Zenon DEF Alone
  <2>4. ASSUME NEW q \in Pumps
        PROVE  Current(q)'
    BY <2>2 DEF Idle, Current
  <2> QED
    BY <2>2, <2>3, <2>4 DEF Forward
<1>4. ASSUME NEW p \in Pumps, PumpActs(p)
      PROVE  Forward' /\ [Sampler!Next]_<<seq, shown>>
  <2>1. /\ Current(p)' /\ shown' <= lastSeq'
        /\ shown <= shown' /\ shown' <= seq /\ seq' = seq
    BY <1>4, ForwardOwn
  <2>2. Alone' /\ \A q \in Pumps : q # p => Idle(q)'
    BY <1>4, AloneStays DEF Forward
  <2>3. \A q \in Pumps : Current(q)'
    BY <2>1, <2>2 DEF Current, Idle
  <2>4. shown' = shown \/ shown' \in (shown + 1)..seq
    <3>1. seq \in Nat /\ shown \in Nat /\ shown' \in Nat
      <4>1. shown' = shown \/ shown' = got[p]
        BY <1>4, PumpLeaves
      <4> QED
        BY <4>1 DEF FrameTypes
    <3> QED
      BY <2>1, <3>1
  <2>5. [Sampler!Next]_<<seq, shown>>
    BY <2>1, <2>4 DEF Sampler!Next, Sampler!Emit
  <2> QED
    BY <2>1, <2>2, <2>3, <2>5, Zenon DEF Forward
<1>5. \/ UNCHANGED <<seq, shown, lastSeq, got, pc>>
      \/ OnCompressed \/ GoLive \/ \E p \in Pumps : PumpActs(p)
  BY Zenon DEF Next, PumpActs, ManageImageSub, StopLive, Tick, vars,
     console, page, request
<1> QED
  BY <1>1, <1>2, <1>3, <1>4, <1>5, Zenon

\* If Go live waits for the last pump to end, the screen shows a subsequence of
\* the stream, in order: LiveView implements FrameSampler
\* (console_node.py:555-584, index.html:195-221).
THEOREM ShowsInOrderTheorem ==
  ASSUME ~Hasty
  PROVE  Spec => ShowsInOrder
<1>1. Init => Delivered /\ Forward /\ Sampler!Init
  <2> SUFFICES ASSUME Init PROVE Delivered /\ Forward /\ Sampler!Init
    OBVIOUS
  <2>1. /\ seq = 0 /\ lastSeq = 0 /\ shown = 0
        /\ \A p \in Pumps : /\ since[p] = 0 /\ got[p] = 0
                            /\ pc[p] = IF p = 1 THEN "asking" ELSE "none"
    BY DEF Init
  <2> QED
    BY <2>1 DEF Delivered, Forward, Alone, Idle, Current, Sampler!Init
<1>2. TypeOK /\ Delivered /\ Forward /\ [Next]_vars
        => Delivered' /\ Forward' /\ [Sampler!Next]_<<seq, shown>>
  BY Framed, DeliveredStep, ForwardStep
<1>3. Spec => [](TypeOK /\ Delivered /\ Forward)
  BY <1>1, <1>2, TypeCorrect, PTL DEF Spec
<1> QED
  BY <1>1, <1>2, <1>3, PTL DEF Spec, ShowsInOrder, Sampler!Spec
=============================================================================
