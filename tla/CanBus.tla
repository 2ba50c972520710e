------------------------------- MODULE CanBus -------------------------------
(***************************************************************************)
(* The console on the CAN bus (console_node.py): the thread of can_reader, *)
(* and the HTTP handlers of /api/can/send with can_send.  The interface,   *)
(* the controller and the other nodes are the environment.                 *)
(*                                                                         *)
(* Frames are numbered as they arrive at the interface.  A socket that is  *)
(* bound to an interface that is down, or goes down, has an error pending, *)
(* which its next recv or send raises: it is "failing".                    *)
(***************************************************************************)
EXTENDS CanFrame

CONSTANTS
  Senders,     \* requests to /api/can/send, each made at most once
  Requests,    \* what they may ask for
  BusFrames,   \* frames the other nodes may send
  Bus,         \* the sender of those
  History,     \* can_history
  TxQueueLen,  \* the interface's transmit queue
  RcvBuf,      \* bound on the receive queue of a socket
  MaxArrivals  \* bound on the frames that arrive

\* What a request carries: an object whose id and data are hexadecimal digits,
\* or not, JSON that is no object, or no JSON.
Bodies == {"hex", "not hex", "no object", "not JSON"}

ASSUME CanBusConstants ==
  /\ Requests \subseteq
       [body: Bodies, id: Identifiers, data: Payloads,
        extended: SUBSET {"EFF"}]
  /\ BusFrames \subseteq CanFrames
  /\ Bus \notin Senders
  /\ History \in Nat \ {0}
  /\ TxQueueLen \in Nat \ {0} /\ RcvBuf \in Nat \ {0}
  /\ MaxArrivals \in Nat

VARIABLES
  link,       \* can0: "absent", "down", "up"
  loopback,   \* the controller receives what it transmits
  tx,         \* transmit queue: sender and frame
  echoed,     \* the first of two copies of its head has arrived
  arrived,    \* the number of the last frame that arrived
  reader,     \* can_reader: "open", "pause", "recv", "failing", "ended"
  rcv,        \* receive queue of its socket
  stop,       \* stop_event is set
  canStatus,  \* can_status
  canFrames,  \* can_frames, newest first
  canCount,   \* can_count
  req,        \* what every sender asks for, or would
  pc,         \* where its request is
  reply       \* its answer

bus == <<link, loopback, tx, echoed, arrived>>
store == <<canStatus, canFrames, canCount>>
read == <<reader, rcv, stop>>
sends == <<req, pc, reply>>
vars == <<bus, store, read, sends>>

Entries == [from: Senders \cup {Bus}, frame: CanFrames]
Items == [n: Nat, from: Senders \cup {Bus}, frame: CanFrames]
Stored == [n: Nat, from: Senders \cup {Bus}, row: Displays]

BusTypes ==
  /\ link \in {"absent", "down", "up"}
  /\ tx \in Seq(Entries) /\ Len(tx) <= TxQueueLen
  /\ arrived \in Nat

ReaderTypes ==
  /\ reader \in {"open", "pause", "recv", "failing", "ended"}
  /\ rcv \in Seq(Items) /\ Len(rcv) <= RcvBuf
  /\ canStatus \in {"not started", "waiting", "listening", "away"}
  /\ canFrames \in Seq(Stored) /\ Len(canFrames) <= History
  /\ canCount \in Nat /\ Len(canFrames) <= canCount

SenderTypes ==
  /\ req \in [Senders -> Requests]
  /\ pc \in [Senders -> {"idle", "received", "bound", "failing", "answered",
                         "dropped"}]
  /\ reply \in [Senders -> {"none", "ok", "error"}]

Switches == loopback \in BOOLEAN /\ echoed \in BOOLEAN /\ stop \in BOOLEAN

\* The types of the variables, with the lengths of queues and history.
TypeOK == Switches /\ BusTypes /\ ReaderTypes /\ SenderTypes

\* The console has just started the thread of can_reader.
Init ==
  /\ link \in {"absent", "down", "up"} /\ loopback \in BOOLEAN
  /\ tx = <<>> /\ echoed = FALSE /\ arrived = 0
  /\ reader = "open" /\ rcv = <<>> /\ stop = FALSE
  /\ canStatus = "not started" /\ canFrames = <<>> /\ canCount = 0
  /\ req \in [Senders -> Requests]
  /\ pc = [s \in Senders |-> "idle"] /\ reply = [s \in Senders |-> "none"]

(***************************************************************************)
(* can_reader.                                                             *)
(***************************************************************************)
ReaderSteps(from) == reader = from /\ UNCHANGED <<bus, stop, sends>>

\* A test of stop_event: go on, or close the socket and end.
UnlessStopped(state) == reader' = IF stop THEN "ended" ELSE state

\* Seeded fault: an interface that does not exist is given up.
GivesUp == "ended"

AfterRefusal == "pause"

\* A socket is made and bound: impossible while there is no interface, while
\* one that is down is accepted.
OpensSocket ==
  /\ ReaderSteps("open") /\ ~stop
  /\ IF link = "absent"
       THEN reader' = AfterRefusal /\ canStatus' = "waiting"
       ELSE /\ reader' = IF link = "up" THEN "recv" ELSE "failing"
            /\ canStatus' = "listening"
  /\ UNCHANGED <<rcv, canFrames, canCount>>

\* The three seconds are over, or stop_event ended them.
PauseEnds ==
  /\ ReaderSteps("pause")
  /\ UnlessStopped("open")
  /\ UNCHANGED <<rcv, store>>

ReaderStops ==
  /\ ReaderSteps("open") /\ stop
  /\ UnlessStopped("open")
  /\ UNCHANGED <<rcv, store>>

\* Seeded faults: a history one frame too long; the newest frame at its end.
AppendsOneMore(item) ==
  LET kept == IF Len(canFrames) < History THEN Len(canFrames) ELSE History
  IN  <<item>> \o SubSeq(canFrames, 1, kept)
AppendsRight(item) ==
  LET all == Append(canFrames, item)
  IN  IF Len(all) > History THEN Tail(all) ELSE all

\* appendleft on a deque that holds History frames.
AppendsLeft(item) ==
  LET kept == IF Len(canFrames) < History THEN Len(canFrames) ELSE History - 1
  IN  <<item>> \o SubSeq(canFrames, 1, kept)

\* recv returns a frame, which is parsed and stored.
ReceivesFrame ==
  /\ ReaderSteps("recv") /\ rcv # <<>>
  /\ rcv' = Tail(rcv)
  /\ canFrames' = AppendsLeft([n |-> Head(rcv).n, from |-> Head(rcv).from,
                               row |-> parse_can_frame(Head(rcv).frame)])
  /\ canCount' = canCount + 1
  /\ UnlessStopped("recv")
  /\ UNCHANGED canStatus

\* Seeded fault: no settimeout on the socket.
NoTimeout == FALSE

TimesOut == rcv = <<>>

\* recv has waited half a second for a frame.
ReceiveTimesOut ==
  /\ ReaderSteps("recv") /\ TimesOut
  /\ UnlessStopped("recv")
  /\ UNCHANGED <<rcv, store>>

\* Seeded fault: a reconnection starts the history anew.
StartsAnew == <<>>

HistoryKept == canFrames

\* recv raises the pending error: the socket is closed, with what is in its
\* queue, and opened anew at once.
ReceiveFails ==
  /\ ReaderSteps("failing")
  /\ reader' = "open" /\ rcv' = <<>>
  /\ canStatus' = "away"
  /\ canFrames' = HistoryKept /\ UNCHANGED canCount

\* destroy_node sets stop_event.
DestroyNode ==
  /\ ~stop /\ stop' = TRUE
  /\ UNCHANGED <<bus, store, reader, rcv, sends>>

(***************************************************************************)
(* POST /api/can/send: do_POST and can_send.                               *)
(***************************************************************************)
SenderSteps(s, from, to) ==
  /\ pc[s] = from
  /\ pc' = [pc EXCEPT ![s] = to]
  /\ UNCHANGED <<link, loopback, echoed, arrived, store, read, req>>

Replies(s, answer) == reply' = [reply EXCEPT ![s] = answer]

Post(s) == SenderSteps(s, "idle", "received") /\ UNCHANGED <<tx, reply>>

\* Seeded fault: do_POST parses the payload outside the try.
UncaughtValueError == "dropped"

AfterValueError == "answered"

\* The body is not JSON, the identifier or the payload is not hexadecimal, or
\* the payload is too long: each ValueError becomes an answer.
RaisesValueError(s) ==
  \/ req[s].body \in {"not JSON", "not hex"}
  \/ req[s].body # "no object" /\ TooLong(req[s].data)

RefusesRequest(s) ==
  /\ RaisesValueError(s)
  /\ SenderSteps(s, "received", AfterValueError)
  /\ Replies(s, "error") /\ UNCHANGED tx

\* body.get of what is no object is an AttributeError, and struct.pack raises
\* struct.error.
RaisesOther(s) ==
  \/ req[s].body = "no object"
  \/ ~RaisesValueError(s) /\ Unpackable(req[s].id)

\* Neither is a ValueError: the handler dies, and the client gets no answer.
HandlerDies(s) ==
  /\ RaisesOther(s)
  /\ SenderSteps(s, "received", "dropped")
  /\ UNCHANGED <<tx, reply>>

Packed(s) == ~RaisesValueError(s) /\ ~RaisesOther(s)

BindFails(s) ==
  /\ Packed(s) /\ link = "absent"
  /\ SenderSteps(s, "received", "answered")
  /\ Replies(s, "error") /\ UNCHANGED tx

Binds(s) ==
  /\ Packed(s) /\ link # "absent"
  /\ SenderSteps(s, "received", IF link = "up" THEN "bound" ELSE "failing")
  /\ UNCHANGED <<tx, reply>>

RoomToSend == Len(tx) < TxQueueLen

\* Seeded fault: can_send returns what send returns, the bytes sent.
CountReturned == "error"

NoneReturned == "ok"

\* send queues the frame, which is all that its success says.
Sends(s) ==
  /\ RoomToSend
  /\ SenderSteps(s, "bound", "answered")
  /\ tx' = Append(tx, [from |-> s,
                       frame |-> build_can_frame(req[s].id, req[s].data,
                                                 req[s].extended)])
  /\ Replies(s, NoneReturned)

\* The transmit queue is full (ENOBUFS).
SendRefused(s) ==
  /\ Len(tx) = TxQueueLen
  /\ SenderSteps(s, "bound", "answered")
  /\ Replies(s, "error") /\ UNCHANGED tx

\* send raises the socket's pending error.
SendFails(s) ==
  /\ SenderSteps(s, "failing", "answered")
  /\ Replies(s, "error") /\ UNCHANGED tx

(***************************************************************************)
(* Environment.                                                            *)
(***************************************************************************)
LinkChanges(from, to) ==
  /\ link = from /\ link' = to
  /\ UNCHANGED <<loopback, arrived, store, rcv, stop, req, reply>>

\* The interface is created, set up or removed.
LinkConfigured ==
  /\ \/ LinkChanges("absent", "down")
     \/ LinkChanges("down", "up")
     \/ LinkChanges("down", "absent")
  /\ UNCHANGED <<tx, echoed, reader, pc>>

\* Every bound socket has an error pending, and the transmit queue is flushed.
LinkSetDown ==
  /\ LinkChanges("up", "down")
  /\ tx' = <<>> /\ echoed' = FALSE
  /\ reader' = IF reader = "recv" THEN "failing" ELSE reader
  /\ pc' = [s \in Senders |-> IF pc[s] = "bound" THEN "failing" ELSE pc[s]]

\* A frame reaches the interface, and the reader's socket if it has room.
Arrives(from, frame) ==
  /\ link = "up"
  /\ arrived < MaxArrivals /\ arrived' = arrived + 1
  /\ rcv' = IF reader = "recv" /\ Len(rcv) < RcvBuf
              THEN Append(rcv, [n |-> arrived + 1, from |-> from,
                                frame |-> frame])
              ELSE rcv
  /\ UNCHANGED <<link, loopback, store, reader, stop, sends>>

\* A frame was transmitted: SocketCAN echoes it to the other sockets, and a
\* controller in loopback mode receives it besides.
EchoArrives ==
  /\ tx # <<>>
  /\ Arrives(Head(tx).from, Head(tx).frame)
  /\ IF loopback /\ ~echoed THEN echoed' = TRUE /\ UNCHANGED tx
                            ELSE echoed' = FALSE /\ tx' = Tail(tx)

\* Another node sends, which a controller in loopback mode does not hear.
FrameArrives ==
  /\ ~loopback
  /\ \E frame \in BusFrames : Arrives(Bus, frame)
  /\ UNCHANGED <<tx, echoed>>

\* Another program on the board sends.
FrameQueued ==
  /\ link = "up" /\ RoomToSend
  /\ \E frame \in BusFrames : tx' = Append(tx, [from |-> Bus, frame |-> frame])
  /\ UNCHANGED <<link, loopback, echoed, arrived, store, read, sends>>

Reader == \/ OpensSocket \/ PauseEnds \/ ReaderStops
          \/ ReceivesFrame \/ ReceiveTimesOut \/ ReceiveFails

Handler(s) == \/ RefusesRequest(s) \/ HandlerDies(s) \/ BindFails(s)
              \/ Binds(s) \/ Sends(s) \/ SendRefused(s) \/ SendFails(s)

Environment == \/ LinkConfigured \/ LinkSetDown
               \/ FrameQueued \/ EchoArrives \/ FrameArrives

Next ==
  \/ Reader \/ DestroyNode \/ Environment
  \/ \E s \in Senders : Post(s) \/ Handler(s)

Spec == Init /\ [][Next]_vars

\* The threads of the console run.  Nobody has to send, nothing has to be
\* transmitted, and the interface need not come up.
FairSpec == /\ Spec
            /\ WF_vars(Reader)
            /\ \A s \in Senders : WF_vars(Handler(s))

(***************************************************************************)
(* Properties.                                                             *)
(***************************************************************************)
\* The history is in the order of the bus, newest first and without repetition,
\* over reconnections and full queues (console_node.py:70, 211-213).
NewestFirst ==
  \A i, j \in DOMAIN canFrames : i < j => canFrames[j].n < canFrames[i].n

Newest == IF canFrames = <<>> THEN 0 ELSE canFrames[1].n

\* What can_reader stores samples, in order, what arrives at the interface
\* (console_node.py:195-213).
Sampler == INSTANCE FrameSampler WITH emitted <- Newest
SamplesBus == Sampler!Spec

\* A request in range is displayed as it was made, whatever became of it on
\* the way: identifier, flags, length and bytes ("getting the flag masks or
\* padding wrong produces frames that look plausible and are silently wrong",
\* canutil.py:1-4).
EchoMatches ==
  \A i \in DOMAIN canFrames :
    LET s == canFrames[i].from
    IN  s \in Senders /\ InRange(req[s].id, req[s].extended) =>
          canFrames[i].row = Display(req[s].id, req[s].data, req[s].extended)

\* Only a request that was answered "ok" reaches the bus or the history: after
\* an error it is safe to send again (console_node.py:218-231, 540-542).
ErrorMeansUnsent ==
  /\ \A i \in DOMAIN tx :
       tx[i].from \in Senders => reply[tx[i].from] = "ok"
  /\ \A i \in DOMAIN canFrames :
       canFrames[i].from \in Senders => reply[canFrames[i].from] = "ok"

\* If the interface comes up for good, the reader is listening for good: it
\* retries, whatever it met before (console_node.py:172-175).
ReaderRecovers ==
  <>[](link = "up" /\ ~stop) => <>[](reader = "recv" /\ canStatus = "listening")

\* stop_event ends the reader, on a silent bus and without an interface too
\* (console_node.py:177, 189, 195, 198-199).
ReaderEnds == stop ~> reader = "ended"

\* Every request that is an object and whose identifier fits is answered,
\* whatever else it holds and the interface does meanwhile: "Returns None on
\* success, else an error string" (console_node.py:219).
SendIsAnswered ==
  \A s \in Senders :
    req[s].body # "no object" /\ req[s].id.width = "u32" =>
      (pc[s] = "received" ~> pc[s] = "answered")
=============================================================================
