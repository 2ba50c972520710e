------------------------------ MODULE LiveView ------------------------------
(***************************************************************************)
(* The live view: the console's on-demand subscription and long-polled     *)
(* /frame.jpg (console_node.py) and the pumps of the page that displays    *)
(* the frames (index.html).  A pump is one call of pump(id): Stop live     *)
(* leaves the running one to end by itself, Go live starts the next.       *)
(*                                                                         *)
(* Frames are numbered by frame_seq; 0 is no frame, and lastSeq's -1.      *)
(* Time is discrete, two Ticks a second, since every period of the code is *)
(* a multiple of half a second.                                            *)
(***************************************************************************)
EXTENDS Integers

CONSTANTS
  MaxFrames,    \* bound on the frames that arrive
  MaxPumps,     \* bound on the pumps started
  MaxFailures,  \* bound on the fetches and images that fail
  TransferTime, \* bound on one transfer, or one image decoding
  Hasty         \* whether Go live may be pressed before the last pump ended

ASSUME LiveViewConstants ==
  /\ MaxFrames \in Nat
  /\ MaxPumps \in Nat \ {0}
  /\ MaxFailures \in Nat
  /\ TransferTime \in Nat \ {0}
  /\ Hasty \in BOOLEAN

VARIABLES
  seq,         \* frame_seq, the number of frame_jpeg
  quiet,       \* time since frame_times[-1], saturating at LongPoll
  subscribed,  \* _image_sub is not None
  idle,        \* time since _last_frame_request, saturating at Relieved
  timer,       \* time to the next _manage_image_sub
  live,        \* the page's live
  pumpId,      \* the page's pumpId
  lastSeq,     \* the page's lastSeq
  onload,      \* the pump whose promise img.onload settles
  shown,       \* the frame on the screen
  pc,          \* where every pump, or its request, is
  since,       \* the since= of its request
  got,         \* the frame of its response, 0 for a 503
  left,        \* time until its transfer, decoding, hold or pause is over
  chained,     \* pumps whose first request has arrived
  failures     \* fetches and images that failed

console == <<seq, quiet, subscribed, idle, timer>>
page == <<live, pumpId, lastSeq, onload, shown>>
request == <<since, got, left>>
vars == <<console, page, request, pc, chained, failures>>

Pumps == 1..MaxPumps
Seqs == 0..MaxFrames

\* The periods of the code, in half seconds.
LongPoll == 3
IdleLimit == 10
TimerPeriod == 2
RetryPause == 1
Relieved == IdleLimit + TimerPeriod

PumpStates == {"none", "asking", "held", "answered", "body", "loading",
               "retry", "ended"}

\* The types of the variables; times never run past the periods they measure.
TypeOK ==
  /\ seq \in Seqs /\ quiet \in 0..LongPoll
  /\ subscribed \in BOOLEAN
  /\ idle \in 0..Relieved /\ timer \in 0..TimerPeriod
  /\ live \in BOOLEAN
  /\ pumpId \in Pumps /\ onload \in 0..MaxPumps
  /\ lastSeq \in Seqs /\ shown \in Seqs
  /\ pc \in [Pumps -> PumpStates]
  /\ since \in [Pumps -> Seqs] /\ got \in [Pumps -> Seqs]
  /\ left \in [Pumps -> Nat]
  /\ chained \subseteq Pumps
  /\ failures \in 0..MaxFailures

\* The page has just called setLive(true) and nobody watched before.
Init ==
  /\ seq = 0 /\ quiet = LongPoll
  /\ subscribed = FALSE /\ idle = Relieved /\ timer \in 0..TimerPeriod
  /\ live = TRUE /\ pumpId = 1 /\ lastSeq = 0 /\ onload = 0 /\ shown = 0
  /\ pc = [p \in Pumps |-> IF p = 1 THEN "asking" ELSE "none"]
  /\ since = [p \in Pumps |-> 0] /\ got = [p \in Pumps |-> 0]
  /\ left = [p \in Pumps |-> TransferTime]
  /\ chained = {} /\ failures = 0

(***************************************************************************)
(* Console.                                                                *)
(***************************************************************************)

\* _on_compressed: the executor stores the newest frame over the one before.
OnCompressed ==
  /\ subscribed /\ seq < MaxFrames
  /\ seq' = seq + 1 /\ quiet' = 0
  /\ UNCHANGED <<subscribed, idle, timer, page, request, pc, chained, failures>>

\* Seeded faults: the viewer forgotten after two seconds, the comparison off
\* by one.
ImpatientlyWanted == idle < 4
WantedOnceMore == idle <= IdleLimit

Wanted == idle < IdleLimit

\* _manage_image_sub, on the executor's one-second timer.
ManageImageSub ==
  /\ timer = 0 /\ timer' = TimerPeriod
  /\ subscribed' = Wanted
  /\ UNCHANGED <<seq, quiet, idle, page, request, pc, chained, failures>>

PumpMoves(p, from, to, time) ==
  /\ pc[p] = from
  /\ pc' = [pc EXCEPT ![p] = to]
  /\ left' = [left EXCEPT ![p] = time]

\* do_GET: the viewer is marked active; a request without a frame to compare
\* with is not held.
RequestArrives(p) ==
  /\ PumpMoves(p, "asking", "held", IF since[p] = 0 THEN 0 ELSE LongPoll)
  /\ idle' = 0
  /\ chained' = chained \cup {p}
  /\ UNCHANGED <<seq, quiet, subscribed, timer, page, since, got, failures>>

\* Seeded faults: a hold that ignores what the client has, one that ignores
\* the deadline.
HoldsNobody(p) == TRUE
HoldsForever(p) == seq # since[p]

HoldEnds(p) == seq # since[p] \/ left[p] = 0

\* Seeded fault: the frame goes out under the number of the next one.
AnswersAhead(p) ==
  /\ HoldEnds(p)
  /\ PumpMoves(p, "held", "answered", TransferTime)
  /\ got' = [got EXCEPT ![p] = seq + 1]
  /\ UNCHANGED <<console, page, since, chained, failures>>

\* The newest frame is read, after and apart from the test that ends the hold.
Answers(p) ==
  /\ HoldEnds(p)
  /\ PumpMoves(p, "held", "answered", TransferTime)
  /\ got' = [got EXCEPT ![p] = seq]
  /\ UNCHANGED <<console, page, since, chained, failures>>

(***************************************************************************)
(* Page.                                                                   *)
(***************************************************************************)

\* The head of the pump's loop: ask again, or end.
LoopHead(p, from) ==
  /\ UNCHANGED got
  /\ IF live /\ p = pumpId
       THEN /\ PumpMoves(p, from, "asking", TransferTime)
            /\ since' = [since EXCEPT ![p] = lastSeq]
       ELSE /\ PumpMoves(p, from, "ended", 0)
            /\ UNCHANGED since

\* The response's headers: a 503 is retried, a frame's number becomes lastSeq
\* at once, whichever pump reads it.
HeadersRead(p) ==
  /\ IF got[p] = 0
       THEN /\ PumpMoves(p, "answered", "retry", RetryPause)
            /\ UNCHANGED lastSeq
       ELSE /\ PumpMoves(p, "answered", "body", TransferTime)
            /\ lastSeq' = got[p]
  /\ UNCHANGED <<console, live, pumpId, onload, shown, since, got, chained,
                 failures>>

\* The body has arrived: the image element gets this pump's handlers and URL,
\* whatever it was loading.
SetsSource(p) ==
  /\ PumpMoves(p, "body", "loading", TransferTime)
  /\ onload' = p
  /\ UNCHANGED <<console, live, pumpId, lastSeq, shown, since, got, chained,
                 failures>>

\* The image element fires load, which settles the promise of its last owner.
Loads(p) ==
  /\ onload = p
  /\ shown' = got[p]
  /\ LoopHead(p, "loading")
  /\ UNCHANGED <<console, live, pumpId, lastSeq, onload, chained, failures>>

Failure(p, from) ==
  /\ failures < MaxFailures /\ failures' = failures + 1
  /\ PumpMoves(p, from, "retry", RetryPause)
  /\ UNCHANGED <<console, page, since, got, chained>>

\* fetch() or blob() rejects.
FetchFails(p) ==
  \E from \in {"asking", "held", "answered", "body"} : Failure(p, from)

\* The image element fires error.
ImageFails(p) == onload = p /\ Failure(p, "loading")

\* The half second after a failure is over.
Retries(p) ==
  /\ left[p] = 0
  /\ LoopHead(p, "retry")
  /\ UNCHANGED <<console, page, chained, failures>>

StopLive ==
  /\ live /\ live' = FALSE
  /\ UNCHANGED <<console, pumpId, lastSeq, onload, shown, request, pc, chained,
                 failures>>

\* setLive(true) calls the new pump, which sends its request before it returns.
GoLive ==
  /\ ~live /\ live' = TRUE
  /\ pumpId < MaxPumps /\ pumpId' = pumpId + 1
  /\ Hasty \/ \A p \in Pumps : pc[p] \in {"none", "ended"}
  /\ PumpMoves(pumpId + 1, "none", "asking", TransferTime)
  /\ since' = [since EXCEPT ![pumpId + 1] = lastSeq]
  /\ UNCHANGED <<console, lastSeq, onload, shown, got, chained, failures>>

(***************************************************************************)
(* Half a second passes, if nothing is due before it does.                 *)
(***************************************************************************)
Waits(p) ==
  \/ pc[p] \in {"none", "ended"}
  \/ pc[p] \in {"asking", "answered", "body", "retry"} /\ left[p] > 0
  \/ pc[p] = "held" /\ ~HoldEnds(p)
  \/ pc[p] = "loading" /\ (left[p] > 0 \/ onload # p)

Less(n) == IF n > 0 THEN n - 1 ELSE 0
UpTo(bound, n) == IF n < bound THEN n + 1 ELSE n

Tick ==
  /\ timer > 0 /\ timer' = timer - 1
  /\ \A p \in Pumps : Waits(p)
  /\ left' = [p \in Pumps |-> Less(left[p])]
  /\ idle' = UpTo(Relieved, idle)
  /\ quiet' = UpTo(LongPoll, quiet)
  /\ UNCHANGED <<seq, subscribed, page, since, got, pc, chained, failures>>

PumpSteps(p) == \/ RequestArrives(p) \/ Answers(p) \/ HeadersRead(p)
                \/ SetsSource(p) \/ Loads(p) \/ Retries(p)

Next ==
  \/ OnCompressed \/ ManageImageSub \/ StopLive \/ GoLive \/ Tick
  \/ \E p \in Pumps : PumpSteps(p) \/ FetchFails(p) \/ ImageFails(p)

Spec == Init /\ [][Next]_vars

\* Transfers end, images load, timers fire and time passes.  No frame has to
\* arrive, nothing has to fail and the user owes nobody a click.
FairSpec == /\ Spec
            /\ \A p \in Pumps : WF_vars(PumpSteps(p))
            /\ WF_vars(ManageImageSub) /\ WF_vars(Tick)

(***************************************************************************)
(* Properties.                                                             *)
(***************************************************************************)

\* A client is answered with the frame it already has only if the camera has
\* delivered none for the whole hold: "every response is a fresh frame" while
\* the stream runs (console_node.py:565-569).
FreshWhileStreaming ==
  [][\A p \in Pumps :
       Answers(p) /\ since[p] # 0 /\ seq = since[p] => quiet = LongPoll]_vars

\* p is the pump the user watches, between two of its requests.
Watching(p) ==
  /\ live /\ p = pumpId /\ p \in chained
  /\ pc[p] \notin {"none", "ended"}
  /\ pc[p] = "loading" => onload = p

\* Nobody loses the stream while watching it: not even a hold that runs out, a
\* slow transfer and a failed one together make the console think that the
\* viewer has left (console_node.py:302-313, 573).
ViewerKeepsStream ==
  [][subscribed /\ ~subscribed' => ~\E p \in Pumps : Watching(p)]_vars

\* Once the last viewer has left, the camera is relieved of the encoding within
\* the idle limit and one period of the timer (console_node.py:271-277, 303).
CameraIsRelieved == idle = Relieved => ~subscribed

\* The current pump gets its answer and its picture on the screen, so the view
\* never freezes (index.html:195-196).
ViewMoves ==
  \A p \in Pumps : \A s \in {"held", "loading"} :
    live /\ p = pumpId /\ pc[p] = s ~> pc[p] # s \/ ~live

\* The screen of an unhurried user samples the stream: it never goes back to an
\* earlier frame nor shows one that has not arrived, although answers, headers
\* and images come at different times and a failed one is asked for again
\* (console_node.py:555-584, index.html:195-221).
Sampler == INSTANCE FrameSampler WITH arrived <- seq, emitted <- shown
ShowsInOrder == Sampler!Spec
=============================================================================
