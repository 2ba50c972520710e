---------------------------- MODULE CanBusProofs ----------------------------
(***************************************************************************)
(* Proofs about CanFrame and CanBus, for any requests, frames, queues and  *)
(* lengths of the history.                                                 *)
(***************************************************************************)
EXTENDS CanBus, SequenceTheorems, TLAPS

(***************************************************************************)
(* The codec.                                                              *)
(***************************************************************************)
LEMMA PayloadBytes ==
  ASSUME NEW payload \in Payloads
  PROVE  /\ Len(payload) \in Nat
         /\ \A i \in 1..Len(payload) : payload[i] \in Bytes
  BY LenProperties, ElementOfSeq DEF Payloads

LEMMA BuildType ==
  ASSUME NEW id \in Identifiers, NEW payload \in Payloads,
         NEW extended \in SUBSET {"EFF"}, ~TooLong(payload)
  PROVE  build_can_frame(id, payload, extended) \in CanFrames
<1> DEFINE data == [i \in 1..MaxData |->
                      IF i <= Len(payload) THEN payload[i] ELSE Pad]
           word == [id EXCEPT !.flags = @ \cup extended]
<1>1. data \in [1..MaxData -> Bytes]
  BY PayloadBytes, CanFrameConstants DEF CanFrameConstants
<1>2. word \in Identifiers
  BY DEF Identifiers, Flags
<1>3. Len(payload) \in 0..MaxData
  BY PayloadBytes, CanFrameConstants DEF CanFrameConstants, TooLong
<1> QED
  BY <1>1, <1>2, <1>3 DEF build_can_frame, CanFrames

LEMMA DataSubSeq ==
  ASSUME NEW frame \in CanFrames
  PROVE  LET s == SubSeq(frame.data, 1, frame.dlc)
         IN  /\ s \in Payloads /\ Len(s) = frame.dlc
             /\ \A i \in 1..frame.dlc : s[i] = frame.data[i]
<1>1. frame.dlc \in 0..MaxData /\ frame.data \in [1..MaxData -> Bytes]
  BY DEF CanFrames
<1>2. 1 \in Int /\ frame.dlc \in Int /\ frame.dlc >= 0
  BY <1>1, CanFrameConstants DEF CanFrameConstants
<1>3. \A i \in 1..frame.dlc : frame.data[i] \in Bytes
  BY <1>1, CanFrameConstants DEF CanFrameConstants
<1> QED
  BY <1>2, <1>3, SubSeqProperties DEF Payloads

LEMMA ParseType ==
  ASSUME NEW frame \in CanFrames
  PROVE  parse_can_frame(frame) \in Displays
<1>1. frame.id.high \in Highs /\ frame.id.low \in Lows
  BY DEF CanFrames, Identifiers
<1>2. /\ <<frame.id.high, frame.id.low>> \in Seq(Highs \cup Lows)
      /\ <<frame.id.low>> \in Seq(Highs \cup Lows)
  BY <1>1
<1>3. frame.id.flags \in SUBSET Flags /\ frame.dlc \in 0..MaxData
  BY DEF CanFrames, Identifiers
<1> QED
  BY <1>2, <1>3, DataSubSeq DEF parse_can_frame, Displays

\* What is displayed of a frame is what it was built from: canutil.py's pair of
\* functions round-trips every identifier in its range and every payload that
\* fits (lines 18-43).
THEOREM RoundTrip ==
  ASSUME NEW id \in Identifiers, NEW payload \in Payloads,
         NEW extended \in SUBSET {"EFF"},
         ~TooLong(payload), InRange(id, extended)
  PROVE  parse_can_frame(build_can_frame(id, payload, extended)) =
           Display(id, payload, extended)
<1> DEFINE f == build_can_frame(id, payload, extended)
           s == SubSeq(f.data, 1, f.dlc)
<1>1. f \in CanFrames
  BY BuildType
<1>2. f.dlc = Len(payload) /\ f.id.flags = extended
  BY DEF build_can_frame, InRange, Identifiers
<1>3. f.id.high = id.high /\ f.id.low = id.low
  BY DEF build_can_frame, Identifiers
<1>4. \A i \in 1..Len(payload) : f.data[i] = payload[i]
  BY PayloadBytes, CanFrameConstants
  DEF build_can_frame, TooLong, CanFrameConstants
<1>5. s \in Payloads /\ Len(s) = f.dlc /\ \A i \in 1..f.dlc : s[i] = f.data[i]
  BY <1>1, DataSubSeq
<1>6. s = payload
  <2> HIDE DEF f, s
  <2> QED
    BY <1>2, <1>4, <1>5, SeqEqual DEF Payloads
<1>7. "EFF" \in f.id.flags <=> extended # {}
  BY <1>2
<1> QED
  BY <1>2, <1>3, <1>6, <1>7 DEF parse_can_frame, Display

(***************************************************************************)
(* The types.                                                              *)
(***************************************************************************)

LEMMA Bounds ==
  /\ History \in Nat /\ History > 0
  /\ TxQueueLen \in Nat /\ TxQueueLen > 0
  /\ RcvBuf \in Nat /\ RcvBuf > 0
  /\ Bus \notin Senders
<1>1. /\ History \in Nat \ {0} /\ TxQueueLen \in Nat \ {0}
      /\ RcvBuf \in Nat \ {0} /\ Bus \notin Senders
  BY CanBusConstants, Zenon DEF CanBusConstants
<1> QED
  BY <1>1

LEMMA RequestType ==
  ASSUME NEW r \in Requests
  PROVE  /\ r.id \in Identifiers /\ r.data \in Payloads
         /\ r.extended \in SUBSET {"EFF"}
<1>1. Requests \subseteq [body: Bodies, id: Identifiers,
                          data: Payloads, extended: SUBSET {"EFF"}]
  BY CanBusConstants, Zenon DEF CanBusConstants
<1> QED
  BY <1>1

\* appendleft puts an item before what the deque keeps.
LEMMA AppendsLeftProperties ==
  ASSUME NEW item \in Stored, ReaderTypes
  PROVE  LET r == AppendsLeft(item)
         IN  /\ r \in Seq(Stored)
             /\ Len(r) \in 1..History /\ Len(r) <= Len(canFrames) + 1
             /\ r[1] = item
             /\ \A i \in 2..Len(r) : i - 1 \in 1..Len(canFrames)
                                     /\ r[i] = canFrames[i - 1]
<1> DEFINE kept == IF Len(canFrames) < History THEN Len(canFrames)
                                               ELSE History - 1
           old == SubSeq(canFrames, 1, kept)
<1>1. canFrames \in Seq(Stored) /\ Len(canFrames) \in Nat
  BY LenProperties DEF ReaderTypes
<1>2. kept \in 0..Len(canFrames) /\ kept < History /\ History \in Nat
  BY <1>1, Bounds
<1> HIDE DEF kept
<1>3. \A i \in 1..kept : canFrames[i] \in Stored
  BY <1>1, <1>2, ElementOfSeq
<1>4. old \in Seq(Stored) /\ Len(old) = kept
      /\ \A i \in 1..kept : old[i] = canFrames[i]
  BY <1>2, <1>3, SubSeqProperties
<1> HIDE DEF old
<1>5. <<item>> \in Seq(Stored) /\ Len(<<item>>) = 1 /\ <<item>>[1] = item
  OBVIOUS
<1> DEFINE r == <<item>> \o old
<1>6. r \in Seq(Stored) /\ Len(r) = 1 + kept
      /\ \A i \in 1..(1 + kept) : r[i] = IF i <= 1 THEN <<item>>[i]
                                                  ELSE old[i - 1]
  BY <1>4, <1>5, ConcatProperties
<1> HIDE DEF r
<1>7. r[1] = item
  BY <1>2, <1>5, <1>6
<1>8. \A i \in 2..Len(r) : i - 1 \in 1..Len(canFrames) /\ r[i] = canFrames[i - 1]
  BY <1>2, <1>4, <1>6
<1>9. AppendsLeft(item) = r
  BY DEF AppendsLeft, kept, old, r
<1> QED
  BY <1>1, <1>2, <1>6, <1>7, <1>8, <1>9

\* The head of the receive queue, and the row it becomes.
Row == [n |-> Head(rcv).n, from |-> Head(rcv).from,
        row |-> parse_can_frame(Head(rcv).frame)]

LEMMA RowType ==
  ASSUME ReaderTypes, rcv # <<>>
  PROVE  Row \in Stored /\ Head(rcv) \in Items /\ Tail(rcv) \in Seq(Items)
         /\ Len(Tail(rcv)) = Len(rcv) - 1
<1>1. Head(rcv) \in Items /\ Tail(rcv) \in Seq(Items)
      /\ Len(Tail(rcv)) = Len(rcv) - 1
  BY HeadTailProperties DEF ReaderTypes
<1>2. parse_can_frame(Head(rcv).frame) \in Displays
  BY <1>1, ParseType DEF Items
<1> QED
  BY <1>1, <1>2 DEF Row, Items, Stored

LEMMA ReaderKeepsTypes ==
  ASSUME ReaderTypes, Reader
  PROVE  ReaderTypes'
<1>1. CASE OpensSocket
  BY <1>1 DEF ReaderTypes, OpensSocket, ReaderSteps, AfterRefusal
<1>2. CASE PauseEnds
  BY <1>2 DEF ReaderTypes, PauseEnds, ReaderSteps, UnlessStopped, store
<1>3. CASE ReaderStops
  BY <1>3 DEF ReaderTypes, ReaderStops, ReaderSteps, UnlessStopped, store
<1>4. CASE ReceivesFrame
  <2>1. rcv' = Tail(rcv) /\ canFrames' = AppendsLeft(Row)
        /\ canCount' = canCount + 1
    BY <1>4 DEF ReceivesFrame, Row
  <2>2. reader' \in {"ended", "recv"} /\ canStatus' = canStatus
    BY <1>4 DEF ReceivesFrame, UnlessStopped
  <2>3. Row \in Stored /\ Tail(rcv) \in Seq(Items)
        /\ Len(Tail(rcv)) = Len(rcv) - 1
    BY <1>4, RowType DEF ReceivesFrame
  <2>4. canFrames' \in Seq(Stored) /\ Len(canFrames') <= History
        /\ Len(canFrames') \in Nat /\ Len(canFrames') <= Len(canFrames) + 1
    BY <2>1, <2>3, AppendsLeftProperties, Bounds
  <2>5. /\ Len(rcv) \in Nat /\ RcvBuf \in Nat /\ Len(rcv) <= RcvBuf
        /\ Len(canFrames) \in Nat /\ canCount \in Nat
        /\ Len(canFrames) <= canCount
    BY LenProperties, Bounds DEF ReaderTypes
  <2>6. Len(canFrames') \in Nat /\ Len(canFrames') <= Len(canFrames) + 1
        /\ Len(rcv') = Len(rcv) - 1
    BY <2>1, <2>3, <2>4
  <2>7. Len(rcv') <= RcvBuf /\ Len(canFrames') <= canCount + 1
    BY <2>5, <2>6
  <2>8. canStatus' \in {"not started", "waiting", "listening", "away"}
    BY <2>2 DEF ReaderTypes
  <2>9. canCount' \in Nat /\ Len(canFrames') <= canCount'
    BY <2>1, <2>5, <2>7
  <2>10. rcv' \in Seq(Items)
    BY <2>1, <2>3
  <2>11. reader' \in {"open", "pause", "recv", "failing", "ended"}
    BY <2>2
  <2> QED
    BY <2>4, <2>7, <2>8, <2>9, <2>10, <2>11 DEF ReaderTypes
<1>5. CASE ReceiveTimesOut
  BY <1>5 DEF ReaderTypes, ReceiveTimesOut, ReaderSteps, UnlessStopped, store
<1>6. CASE ReceiveFails
  <2>1. rcv' = <<>> /\ reader' = "open" /\ canStatus' = "away"
        /\ UNCHANGED <<canFrames, canCount>>
    BY <1>6 DEF ReceiveFails, ReaderSteps, HistoryKept
  <2>2. rcv' \in Seq(Items) /\ Len(rcv') = 0
    BY <2>1
  <2>3. Len(rcv') <= RcvBuf
    BY <2>2, Bounds
  <2> QED
    BY <2>1, <2>2, <2>3 DEF ReaderTypes
<1> QED
  BY <1>1, <1>2, <1>3, <1>4, <1>5, <1>6 DEF Reader

\* What the other actions leave to can_reader.
LEMMA ReaderFrame ==
  ASSUME Reader
  PROVE  UNCHANGED <<bus, stop, sends>>
  BY DEF Reader, ReaderSteps, OpensSocket, PauseEnds, ReaderStops,
         ReceivesFrame, ReceiveTimesOut, ReceiveFails

\* What a sender's step changes.
LEMMA SenderFrame ==
  ASSUME NEW s \in Senders, Post(s) \/ Handler(s)
  PROVE  /\ UNCHANGED <<link, loopback, echoed, arrived, store, read, req>>
         /\ UNCHANGED tx \/ Sends(s)
         /\ pc[s] # "answered"
         /\ \E to \in {"received", "bound", "failing", "answered", "dropped"} :
              pc' = [pc EXCEPT ![s] = to]
         /\ \E answer \in {"ok", "error"} :
              reply' = reply \/ reply' = [reply EXCEPT ![s] = answer]
  BY DEF Post, Handler, SenderSteps, RefusesRequest, HandlerDies, BindFails,
         Binds, Sends, SendRefused, SendFails, Replies, AfterValueError,
         NoneReturned

LEMMA SenderKeepsTypes ==
  ASSUME SenderTypes, NEW s \in Senders, Post(s) \/ Handler(s)
  PROVE  SenderTypes'
<1>1. req' = req
  BY SenderFrame
<1>2. PICK to \in {"received", "bound", "failing", "answered", "dropped"} :
        pc' = [pc EXCEPT ![s] = to]
  BY SenderFrame
<1>3. PICK answer \in {"ok", "error"} :
        reply' = reply \/ reply' = [reply EXCEPT ![s] = answer]
  BY SenderFrame
<1> QED
  BY <1>1, <1>2, <1>3 DEF SenderTypes

\* A queue without its head.
LEMMA Shortened ==
  ASSUME NEW S, NEW q \in Seq(S), q # <<>>
  PROVE  /\ Tail(q) \in Seq(S) /\ Len(Tail(q)) = Len(q) - 1
         /\ Len(q) \in Nat \ {0} /\ Head(q) = q[1] /\ Head(q) \in S
         /\ \A i \in 1..Len(Tail(q)) : i + 1 \in 1..Len(q)
                                       /\ Tail(q)[i] = q[i + 1]
<1>1. Len(q) \in Nat \ {0}
  BY EmptySeq
<1>2. /\ Head(q) \in S /\ Tail(q) \in Seq(S) /\ Len(Tail(q)) = Len(q) - 1
      /\ \A i \in 1..Len(Tail(q)) : Tail(q)[i] = q[i + 1]
  BY HeadTailProperties
<1>3. Head(q) = q[1]
  BY <1>1
<1> QED
  BY <1>1, <1>2, <1>3

LEMMA RcvKeepsTypes ==
  ASSUME ReaderTypes, BusTypes, NEW from \in Senders \cup {Bus},
         NEW frame \in CanFrames, Arrives(from, frame)
  PROVE  ReaderTypes' /\ arrived' \in Nat
<1> DEFINE item == [n |-> arrived + 1, from |-> from, frame |-> frame]
<1>1. item \in Items
  BY DEF Items, BusTypes
<1> HIDE DEF item
<1>2. rcv \in Seq(Items) /\ Len(rcv) \in Nat /\ RcvBuf \in Nat
      /\ Len(rcv) <= RcvBuf
  BY LenProperties, Bounds DEF ReaderTypes
<1>3. \/ rcv' = rcv
      \/ rcv' = Append(rcv, item) /\ Len(rcv) < RcvBuf
  BY DEF Arrives, item
<1>4. rcv' \in Seq(Items) /\ Len(rcv') <= RcvBuf
  <2>1. CASE rcv' = rcv
    BY <1>2, <2>1
  <2>2. CASE rcv' = Append(rcv, item) /\ Len(rcv) < RcvBuf
    <3>1. rcv' \in Seq(Items) /\ Len(rcv') = Len(rcv) + 1
      BY <1>1, <1>2, <2>2, AppendProperties
    <3> QED
      BY <1>2, <2>2, <3>1
  <2> QED
    BY <1>3, <2>1, <2>2
<1>5. UNCHANGED <<reader, canStatus, canFrames, canCount>>
  BY DEF Arrives, store
<1>6. arrived' \in Nat
  BY DEF Arrives, BusTypes
<1> QED
  BY <1>4, <1>5, <1>6 DEF ReaderTypes

LEMMA QueueKeepsTypes ==
  ASSUME BusTypes, NEW e \in Entries, RoomToSend, tx' = Append(tx, e)
  PROVE  tx' \in Seq(Entries) /\ Len(tx') <= TxQueueLen
<1>1. tx \in Seq(Entries) /\ Len(tx) \in Nat /\ TxQueueLen \in Nat
      /\ Len(tx) < TxQueueLen
  BY LenProperties, Bounds DEF BusTypes, RoomToSend
<1>2. tx' \in Seq(Entries) /\ Len(tx') = Len(tx) + 1
  BY <1>1, AppendProperties
<1> QED
  BY <1>1, <1>2

\* A request is packed only if its payload fits.
Fitting == \A s \in Senders : pc[s] \in {"bound", "failing"} =>
                                ~TooLong(req[s].data)

Built(s) == build_can_frame(req[s].id, req[s].data, req[s].extended)

LEMMA BuiltType ==
  ASSUME SenderTypes, NEW s \in Senders, ~TooLong(req[s].data)
  PROVE  Built(s) \in CanFrames
<1>1. req[s] \in Requests
  BY DEF SenderTypes
<1> QED
  BY <1>1, RequestType, BuildType DEF Built

LEMMA BusKeepsTypes ==
  ASSUME TypeOK, Fitting, Next
  PROVE  BusTypes'
<1> USE DEF TypeOK
<1>1. CASE Reader \/ DestroyNode
  BY <1>1, ReaderFrame DEF BusTypes, DestroyNode, bus
<1>2. ASSUME NEW s \in Senders, Post(s) \/ Handler(s)
      PROVE  BusTypes'
  <2>1. UNCHANGED <<link, arrived>>
    BY <1>2, SenderFrame
  <2>2. CASE UNCHANGED tx
    BY <2>1, <2>2 DEF BusTypes
  <2>3. CASE Sends(s)
    <3> DEFINE e == [from |-> s, frame |-> Built(s)]
    <3>1. tx' = Append(tx, e) /\ RoomToSend /\ pc[s] = "bound"
      BY <2>3 DEF Sends, SenderSteps, Built
    <3>2. e \in Entries
      BY <3>1, BuiltType DEF Fitting, Entries
    <3> HIDE DEF e
    <3>3. tx' \in Seq(Entries) /\ Len(tx') <= TxQueueLen
      BY <3>1, <3>2, QueueKeepsTypes
    <3> QED
      BY <2>1, <3>3 DEF BusTypes
  <2> QED
    BY <1>2, <2>2, <2>3, SenderFrame
<1>3. CASE LinkConfigured
  BY <1>3 DEF BusTypes, LinkConfigured, LinkChanges
<1>4. CASE LinkSetDown
  <2>1. tx' = <<>> /\ link' = "down" /\ arrived' = arrived
    BY <1>4 DEF LinkSetDown, LinkChanges
  <2>2. tx' \in Seq(Entries) /\ Len(tx') = 0
    BY <2>1
  <2>3. Len(tx') <= TxQueueLen
    BY <2>2, Bounds
  <2> QED
    BY <2>1, <2>2, <2>3 DEF BusTypes
<1>5. CASE FrameQueued
  <2>1. PICK frame \in BusFrames : tx' = Append(tx, [from |-> Bus, frame |-> frame])
    BY <1>5 DEF FrameQueued
  <2>2. BusFrames \subseteq CanFrames
    BY CanBusConstants, Zenon DEF CanBusConstants
  <2>3. [from |-> Bus, frame |-> frame] \in Entries
    BY <2>2 DEF Entries
  <2>4. RoomToSend /\ UNCHANGED <<link, arrived>>
    BY <1>5 DEF FrameQueued
  <2>5. tx' \in Seq(Entries) /\ Len(tx') <= TxQueueLen
    BY <2>1, <2>3, <2>4, QueueKeepsTypes
  <2> QED
    BY <2>4, <2>5 DEF BusTypes
<1>6. CASE EchoArrives
  <2>1. tx # <<>> /\ link' = link /\ arrived' = arrived + 1
        /\ (tx' = tx \/ tx' = Tail(tx))
    BY <1>6 DEF EchoArrives, Arrives
  <2>2. tx \in Seq(Entries) /\ Len(tx) \in Nat /\ Len(tx) <= TxQueueLen
        /\ TxQueueLen \in Nat
    BY LenProperties, Bounds DEF BusTypes
  <2>3. Tail(tx) \in Seq(Entries) /\ Len(Tail(tx)) = Len(tx) - 1
    BY <2>1, <2>2, Shortened
  <2>4. tx' \in Seq(Entries) /\ Len(tx') <= TxQueueLen
    BY <2>1, <2>2, <2>3
  <2> QED
    BY <2>1, <2>4 DEF BusTypes
<1>7. CASE FrameArrives
  BY <1>7 DEF BusTypes, FrameArrives, Arrives
<1> QED
  BY <1>1, <1>2, <1>3, <1>4, <1>5, <1>6, <1>7 DEF Next, Environment

LEMMA SwitchesStep ==
  ASSUME Switches, Next
  PROVE  Switches'
<1>1. CASE Reader \/ DestroyNode
  <2>1. /\ loopback' = loopback /\ echoed' = echoed
        /\ (stop' = stop \/ stop' = TRUE)
    BY <1>1, ReaderFrame, Zenon DEF DestroyNode, bus
  <2> QED
    BY <2>1, Zenon DEF Switches
<1>2. ASSUME NEW s \in Senders, Post(s) \/ Handler(s)
      PROVE  Switches'
  <2>1. loopback' = loopback /\ echoed' = echoed /\ stop' = stop
    BY <1>2, SenderFrame, Zenon DEF read
  <2> QED
    BY <2>1, Zenon DEF Switches
<1>3. CASE Environment
  <2>1. loopback' = loopback /\ stop' = stop
    BY <1>3, Zenon
    DEF Environment, LinkConfigured, LinkSetDown, LinkChanges, FrameQueued,
        EchoArrives, FrameArrives, Arrives, read
  <2>2. echoed' = echoed \/ echoed' = TRUE \/ echoed' = FALSE
    BY <1>3, Zenon
    DEF Environment, LinkConfigured, LinkSetDown, LinkChanges, FrameQueued,
        EchoArrives, FrameArrives
  <2> QED
    BY <2>1, <2>2, Zenon DEF Switches
<1> QED
  BY <1>1, <1>2, <1>3, Zenon DEF Next

\* What the environment's steps give the reader.
LEMMA EnvironmentKeepsReaderTypes ==
  ASSUME TypeOK, Environment
  PROVE  ReaderTypes'
<1> USE DEF TypeOK
<1>1. CASE LinkConfigured
  BY <1>1 DEF ReaderTypes, LinkConfigured, LinkChanges, store
<1>2. CASE LinkSetDown
  BY <1>2 DEF ReaderTypes, LinkSetDown, LinkChanges, store
<1>3. CASE FrameQueued
  BY <1>3 DEF ReaderTypes, FrameQueued, store, read
<1>4. CASE EchoArrives
  <2>1. tx # <<>> /\ tx \in Seq(Entries) /\ Arrives(Head(tx).from, Head(tx).frame)
    BY <1>4 DEF EchoArrives, BusTypes
  <2>2. Head(tx) \in Entries
    BY <2>1, Shortened
  <2>3. Head(tx).from \in Senders \cup {Bus} /\ Head(tx).frame \in CanFrames
    BY <2>2 DEF Entries
  <2> QED
    BY <2>1, <2>3, RcvKeepsTypes
<1>5. CASE FrameArrives
  <2>1. PICK frame \in BusFrames : Arrives(Bus, frame)
    BY <1>5 DEF FrameArrives
  <2>2. BusFrames \subseteq CanFrames
    BY CanBusConstants, Zenon DEF CanBusConstants
  <2> QED
    BY <2>1, <2>2, RcvKeepsTypes
<1> QED
  BY <1>1, <1>2, <1>3, <1>4, <1>5 DEF Environment

LEMMA ReaderTypesStep ==
  ASSUME TypeOK, Next
  PROVE  ReaderTypes'
<1> USE DEF TypeOK
<1>1. CASE Reader
  BY <1>1, ReaderKeepsTypes
<1>2. CASE DestroyNode
  BY <1>2 DEF ReaderTypes, DestroyNode, store
<1>3. CASE Environment
  BY <1>3, EnvironmentKeepsReaderTypes
<1>4. ASSUME NEW s \in Senders, Post(s) \/ Handler(s)
      PROVE  ReaderTypes'
  <2>1. UNCHANGED <<store, read>>
    BY <1>4, SenderFrame
  <2> QED
    BY <2>1 DEF ReaderTypes, store, read
<1> QED
  BY <1>1, <1>2, <1>3, <1>4 DEF Next

LEMMA SenderTypesStep ==
  ASSUME SenderTypes, Next
  PROVE  SenderTypes'
<1>1. CASE Reader
  BY <1>1, ReaderFrame DEF SenderTypes, sends
<1>2. CASE DestroyNode
  BY <1>2 DEF SenderTypes, DestroyNode, sends
<1>3. CASE Environment
  <2>1. /\ req' = req /\ reply' = reply
        /\ \/ pc' = pc
           \/ pc' = [s \in Senders |-> IF pc[s] = "bound" THEN "failing"
                                                         ELSE pc[s]]
    BY <1>3
    DEF Environment, LinkConfigured, LinkSetDown, LinkChanges, FrameQueued,
        EchoArrives, FrameArrives, Arrives, sends
  <2> QED
    BY <2>1 DEF SenderTypes
<1>4. ASSUME NEW s \in Senders, Post(s) \/ Handler(s)
      PROVE  SenderTypes'
  BY <1>4, SenderKeepsTypes
<1> QED
  BY <1>1, <1>2, <1>3, <1>4 DEF Next

LEMMA FittingStep ==
  ASSUME SenderTypes, Fitting, Next
  PROVE  Fitting'
<1>1. CASE Reader \/ DestroyNode
  BY <1>1, ReaderFrame DEF Fitting, DestroyNode, sends
<1>2. CASE Environment
  <2>1. /\ req' = req
        /\ \/ pc' = pc
           \/ pc' = [s \in Senders |-> IF pc[s] = "bound" THEN "failing"
                                                         ELSE pc[s]]
    BY <1>2
    DEF Environment, LinkConfigured, LinkSetDown, LinkChanges, FrameQueued,
        EchoArrives, FrameArrives, Arrives, sends
  <2> QED
    BY <2>1 DEF Fitting, SenderTypes
<1>3. ASSUME NEW s \in Senders, Post(s) \/ Handler(s)
      PROVE  Fitting'
  <2>1. req' = req
    BY <1>3, SenderFrame
  <2>2. \E to : /\ pc' = [pc EXCEPT ![s] = to]
               /\ \/ to \notin {"bound", "failing"}
                  \/ ~TooLong(req[s].data)
    BY <1>3
    DEF Post, Handler, SenderSteps, RefusesRequest, HandlerDies, BindFails,
        Binds, Sends, SendRefused, SendFails, AfterValueError, Packed,
        RaisesValueError, RaisesOther
  <2> QED
    BY <2>1, <2>2 DEF Fitting, SenderTypes
<1> QED
  BY <1>1, <1>2, <1>3 DEF Next

\* The types of CanBus hold for every set of requests and every length of the
\* queues and the history; in particular can_frames never outgrows can_history
\* and what is queued are frames (console_node.py:70, 218-231).
THEOREM TypeCorrect == Spec => []TypeOK
<1>1. Init => TypeOK /\ Fitting
  <2> SUFFICES ASSUME Init PROVE TypeOK /\ Fitting
    OBVIOUS
  <2>1. Switches
    BY Zenon DEF Init, Switches
  <2>2. BusTypes
    <3>1. tx = <<>> /\ arrived = 0 /\ link \in {"absent", "down", "up"}
      BY DEF Init
    <3>2. tx \in Seq(Entries) /\ Len(tx) = 0
      BY <3>1
    <3>3. Len(tx) <= TxQueueLen
      BY <3>2, Bounds
    <3> QED
      BY <3>1, <3>2, <3>3 DEF BusTypes
  <2>3. ReaderTypes
    <3>1. rcv = <<>> /\ canFrames = <<>> /\ canCount = 0 /\ reader = "open"
          /\ canStatus = "not started"
      BY DEF Init
    <3>2. rcv \in Seq(Items) /\ Len(rcv) = 0
      BY <3>1, EmptySeq
    <3>3. canFrames \in Seq(Stored) /\ Len(canFrames) = 0
      BY <3>1, EmptySeq
    <3>4. Len(rcv) <= RcvBuf
      BY <3>2, Bounds
    <3>5. Len(canFrames) <= History
      BY <3>3, Bounds
    <3>6. canCount = 0 /\ Len(canFrames) = 0
      BY <3>1, <3>3
    <3>7. canCount \in Nat /\ Len(canFrames) <= canCount
      BY <3>6
    <3> QED
      BY <3>1, <3>2, <3>3, <3>4, <3>5, <3>7 DEF ReaderTypes
  <2>4. SenderTypes /\ Fitting
    BY DEF Init, SenderTypes, Fitting
  <2> QED
    BY <2>1, <2>2, <2>3, <2>4 DEF TypeOK
<1>2. TypeOK /\ Fitting /\ [Next]_vars => (TypeOK /\ Fitting)'
  <2> SUFFICES ASSUME TypeOK, Fitting, [Next]_vars
               PROVE  (TypeOK /\ Fitting)'
    OBVIOUS
  <2>1. CASE Next
    BY <2>1, SwitchesStep, BusKeepsTypes, ReaderTypesStep, SenderTypesStep,
       FittingStep DEF TypeOK
  <2>2. CASE UNCHANGED vars
    BY <2>2, Zenon
    DEF vars, bus, store, read, sends, TypeOK, Switches, BusTypes,
        ReaderTypes, SenderTypes, Fitting
  <2> QED
    BY <2>1, <2>2
<1> QED
  BY <1>1, <1>2, PTL DEF Spec

(***************************************************************************)
(* The order of the history.                                               *)
(***************************************************************************)
\* What a step does to the receive queue and the history: nothing, to close
\* the socket, to store the head of the queue, or to queue what arrives.
Leaves == rcv' = rcv /\ canFrames' = canFrames /\ arrived' \in {arrived, arrived + 1}
Drops == rcv' = <<>> /\ canFrames' = canFrames /\ arrived' = arrived
Stores == rcv # <<>> /\ rcv' = Tail(rcv) /\ canFrames' = AppendsLeft(Row)
          /\ arrived' = arrived
Item(from, frame) == [n |-> arrived + 1, from |-> from, frame |-> frame]
Takes(from, frame) ==
  /\ rcv' = Append(rcv, Item(from, frame))
  /\ canFrames' = canFrames /\ arrived' = arrived + 1
TakesAny == \E from \in Senders \cup {Bus}, frame \in CanFrames :
              /\ Takes(from, frame)
              /\ \/ from = Bus
                 \/ tx # <<>> /\ from = tx[1].from /\ frame = tx[1].frame

LEMMA ReaderMoves ==
  ASSUME Reader
  PROVE  Leaves \/ Drops \/ Stores
<1>1. arrived' = arrived
  BY ReaderFrame DEF bus
<1>2. \/ rcv' = rcv /\ canFrames' = canFrames
      \/ rcv' = <<>> /\ canFrames' = canFrames
      \/ rcv # <<>> /\ rcv' = Tail(rcv) /\ canFrames' = AppendsLeft(Row)
  BY DEF Reader, ReaderSteps, OpensSocket, PauseEnds, ReaderStops, store,
         ReceivesFrame, ReceiveTimesOut, ReceiveFails, HistoryKept, Row
<1> QED
  BY <1>1, <1>2 DEF Leaves, Drops, Stores

LEMMA ArrivalMoves ==
  ASSUME NEW from, NEW frame, Arrives(from, frame)
  PROVE  Leaves \/ Takes(from, frame)
  BY DEF Arrives, Leaves, Takes, Item, store

LEMMA EnvironmentMoves ==
  ASSUME TypeOK, Environment
  PROVE  Leaves \/ TakesAny
<1>1. CASE LinkConfigured \/ LinkSetDown \/ FrameQueued
  BY <1>1 DEF LinkConfigured, LinkSetDown, LinkChanges, FrameQueued, Leaves,
              store, read
<1>2. CASE EchoArrives
  <2>1. tx # <<>> /\ tx \in Seq(Entries) /\ Arrives(Head(tx).from, Head(tx).frame)
    BY <1>2 DEF EchoArrives, TypeOK, BusTypes
  <2>2. Head(tx) \in Entries /\ Head(tx) = tx[1]
    BY <2>1, Shortened
  <2>3. tx[1].from \in Senders \cup {Bus} /\ tx[1].frame \in CanFrames
    BY <2>2 DEF Entries
  <2>4. Leaves \/ Takes(tx[1].from, tx[1].frame)
    BY <2>1, <2>2, ArrivalMoves
  <2> QED
    BY <2>1, <2>3, <2>4 DEF TakesAny
<1>3. CASE FrameArrives
  <2>1. PICK frame \in BusFrames : Arrives(Bus, frame)
    BY <1>3 DEF FrameArrives
  <2>2. BusFrames \subseteq CanFrames
    BY CanBusConstants, Zenon DEF CanBusConstants
  <2> QED
    BY <2>1, <2>2, ArrivalMoves DEF TakesAny
<1> QED
  BY <1>1, <1>2, <1>3 DEF Environment

LEMMA Moves ==
  ASSUME TypeOK, Next
  PROVE  Leaves \/ Drops \/ Stores \/ TakesAny
<1>1. CASE DestroyNode
  BY <1>1 DEF DestroyNode, Leaves, bus, store
<1>2. ASSUME NEW s \in Senders, Post(s) \/ Handler(s)
      PROVE  Leaves
  BY <1>2, SenderFrame DEF Leaves, store, read
<1> QED
  BY <1>1, <1>2, ReaderMoves, EnvironmentMoves DEF Next

\* The inductive invariant of NewestFirst: what is queued is in the order of
\* the bus, and newer than all that is stored.
InOrder ==
  /\ NewestFirst
  /\ Newest \in 0..arrived
  /\ \A i \in DOMAIN rcv : Newest < rcv[i].n /\ rcv[i].n <= arrived
  /\ \A i, j \in DOMAIN rcv : i < j => rcv[i].n < rcv[j].n

Indexed ==
  /\ rcv \in Seq(Items) /\ DOMAIN rcv = 1..Len(rcv) /\ Len(rcv) \in Nat
  /\ canFrames \in Seq(Stored) /\ DOMAIN canFrames = 1..Len(canFrames)
  /\ Len(canFrames) \in Nat
  /\ \A i \in 1..Len(rcv) : rcv[i].n \in Nat
  /\ \A i \in 1..Len(canFrames) : canFrames[i].n \in Nat

LEMMA Indices ==
  ASSUME ReaderTypes
  PROVE  Indexed
<1>1. rcv \in Seq(Items) /\ canFrames \in Seq(Stored)
  BY DEF ReaderTypes
<1>2. /\ DOMAIN rcv = 1..Len(rcv) /\ Len(rcv) \in Nat
      /\ DOMAIN canFrames = 1..Len(canFrames) /\ Len(canFrames) \in Nat
  BY <1>1, LenProperties
<1>3. /\ \A i \in 1..Len(rcv) : rcv[i] \in Items
      /\ \A i \in 1..Len(canFrames) : canFrames[i] \in Stored
  BY <1>1, ElementOfSeq
<1>4. /\ \A i \in 1..Len(rcv) : rcv[i].n \in Nat
      /\ \A i \in 1..Len(canFrames) : canFrames[i].n \in Nat
  BY <1>3 DEF Items, Stored
<1> QED
  BY <1>1, <1>2, <1>4 DEF Indexed

\* The history after a frame was stored: its number is the newest.
LEMMA StoresInOrder ==
  ASSUME ReaderTypes, InOrder, Stores
  PROVE  /\ NewestFirst' /\ Newest' = rcv[1].n
         /\ Newest < rcv[1].n /\ rcv[1].n <= arrived
<1> DEFINE r == AppendsLeft(Row)
<1>1. Indexed /\ rcv # <<>>
  BY Indices DEF Stores
<1>2. Len(rcv) \in Nat \ {0} /\ Head(rcv) = rcv[1]
  BY <1>1, Shortened DEF Indexed
<1>3. 1 \in DOMAIN rcv
  BY <1>1, <1>2 DEF Indexed
<1>4. Row.n = rcv[1].n /\ Row \in Stored
  BY <1>1, <1>2, RowType DEF Row
<1>5. /\ r \in Seq(Stored) /\ Len(r) >= 1 /\ r[1] = Row
      /\ \A i \in 2..Len(r) : i - 1 \in 1..Len(canFrames)
                              /\ r[i] = canFrames[i - 1]
  <2>1. ReaderTypes
    OBVIOUS
  <2>2. /\ r \in Seq(Stored) /\ Len(r) \in 1..History /\ r[1] = Row
        /\ \A i \in 2..Len(r) : i - 1 \in 1..Len(canFrames)
                                /\ r[i] = canFrames[i - 1]
    BY <1>4, <2>1, AppendsLeftProperties
  <2> HIDE DEF r
  <2>3. Len(r) >= 1
    BY <2>2, Bounds
  <2> QED
    BY <2>2, <2>3
<1>6. canFrames' = r
  BY DEF Stores
<1> HIDE DEF r
<1>7. DOMAIN r = 1..Len(r) /\ Len(r) \in Nat
  BY <1>5, LenProperties
<1>8. Newest < rcv[1].n /\ rcv[1].n <= arrived /\ rcv[1].n \in Nat
  <2>1. Newest < rcv[1].n /\ rcv[1].n <= arrived
    BY <1>3, Zenon DEF InOrder
  <2> QED
    BY <1>1, <1>3, <2>1 DEF Indexed
<1>9. \A i \in 1..Len(canFrames) : canFrames[i].n <= Newest
  <2>1. \A i, j \in 1..Len(canFrames) : i < j => canFrames[j].n < canFrames[i].n
    BY <1>1 DEF InOrder, NewestFirst, Indexed
  <2>2. ASSUME NEW i \in 1..Len(canFrames)
        PROVE  canFrames[i].n <= canFrames[1].n /\ Newest = canFrames[1].n
    <3>1. 1 \in 1..Len(canFrames) /\ canFrames # <<>>
      BY <1>1, EmptySeq DEF Indexed
    <3>2. Newest = canFrames[1].n
      BY <3>1 DEF Newest
    <3>3. canFrames[i].n \in Nat /\ canFrames[1].n \in Nat
      BY <1>1, <3>1 DEF Indexed
    <3> QED
      BY <2>1, <3>1, <3>2, <3>3
  <2> QED
    BY <2>2
<1>10. \A i \in 2..Len(r) : r[i].n < r[1].n
  <2> SUFFICES ASSUME NEW i \in 2..Len(r) PROVE r[i].n < r[1].n
    OBVIOUS
  <2>1. i - 1 \in 1..Len(canFrames) /\ r[i] = canFrames[i - 1]
    BY <1>5
  <2>2. r[i].n <= Newest /\ r[i].n \in Nat
    BY <1>1, <1>9, <2>1 DEF Indexed
  <2>3. r[1].n = rcv[1].n
    BY <1>4, <1>5
  <2>4. Newest \in Int
    BY DEF InOrder
  <2> QED
    BY <1>8, <2>2, <2>3, <2>4
<1>11. \A i, j \in 2..Len(r) : i < j => r[j].n < r[i].n
  <2> SUFFICES ASSUME NEW i \in 2..Len(r), NEW j \in 2..Len(r), i < j
               PROVE  r[j].n < r[i].n
    OBVIOUS
  <2>1. /\ i - 1 \in 1..Len(canFrames) /\ r[i] = canFrames[i - 1]
        /\ j - 1 \in 1..Len(canFrames) /\ r[j] = canFrames[j - 1]
    BY <1>5
  <2>2. i - 1 < j - 1
    BY <1>7
  <2> QED
    BY <1>1, <2>1, <2>2 DEF InOrder, NewestFirst, Indexed
<1>12. \A i, j \in DOMAIN r : i < j => r[j].n < r[i].n
  BY <1>7, <1>10, <1>11
<1>13. NewestFirst'
  BY <1>6, <1>12 DEF NewestFirst
<1>14. Newest' = rcv[1].n
  <2>1. r # <<>>
    BY <1>5, EmptySeq
  <2> QED
    BY <1>4, <1>5, <1>6, <2>1 DEF Newest
<1> QED
  BY <1>8, <1>13, <1>14

\* The receive queue without the head that was stored.
LEMMA QueueAfterStore ==
  ASSUME ReaderTypes, InOrder, Stores
  PROVE  /\ \A i \in DOMAIN rcv' : rcv[1].n < rcv'[i].n /\ rcv'[i].n <= arrived
         /\ \A i, j \in DOMAIN rcv' : i < j => rcv'[i].n < rcv'[j].n
<1>1. Indexed /\ rcv # <<>> /\ rcv' = Tail(rcv)
  BY Indices DEF Stores
<1> DEFINE q == Tail(rcv)
<1>2. /\ q \in Seq(Items) /\ Len(rcv) \in Nat \ {0}
      /\ \A i \in 1..Len(q) : i + 1 \in 1..Len(rcv) /\ q[i] = rcv[i + 1]
  BY <1>1, Shortened DEF Indexed
<1>3. rcv' = q
  BY <1>1
<1> HIDE DEF q
<1>4. DOMAIN q = 1..Len(q) /\ Len(q) \in Nat
  BY <1>2, LenProperties
<1>5. DOMAIN rcv = 1..Len(rcv)
  BY <1>1 DEF Indexed
<1>6. /\ \A i \in 1..Len(rcv) : rcv[i].n <= arrived
      /\ \A i, j \in 1..Len(rcv) : i < j => rcv[i].n < rcv[j].n
  BY <1>5, Zenon DEF InOrder
<1>7. \A i \in 1..Len(q) : rcv[1].n < q[i].n /\ q[i].n <= arrived
  <2> SUFFICES ASSUME NEW i \in 1..Len(q)
               PROVE  rcv[1].n < q[i].n /\ q[i].n <= arrived
    OBVIOUS
  <2>1. i + 1 \in 1..Len(rcv) /\ q[i] = rcv[i + 1]
    BY <1>2
  <2>2. 1 \in 1..Len(rcv) /\ 1 < i + 1
    BY <1>2, <1>4
  <2> QED
    BY <1>6, <2>1, <2>2
<1>8. \A i, j \in 1..Len(q) : i < j => q[i].n < q[j].n
  <2> SUFFICES ASSUME NEW i \in 1..Len(q), NEW j \in 1..Len(q), i < j
               PROVE  q[i].n < q[j].n
    OBVIOUS
  <2>1. /\ i + 1 \in 1..Len(rcv) /\ q[i] = rcv[i + 1]
        /\ j + 1 \in 1..Len(rcv) /\ q[j] = rcv[j + 1]
    BY <1>2
  <2>2. i + 1 < j + 1
    BY <1>4
  <2> QED
    BY <1>6, <2>1, <2>2
<1> QED
  BY <1>3, <1>4, <1>7, <1>8

\* The receive queue with what arrived.
LEMMA QueueAfterArrival ==
  ASSUME TypeOK, InOrder, NEW from \in Senders \cup {Bus},
         NEW frame \in CanFrames, Takes(from, frame)
  PROVE  /\ \A i \in DOMAIN rcv' : Newest < rcv'[i].n /\ rcv'[i].n <= arrived + 1
         /\ \A i, j \in DOMAIN rcv' : i < j => rcv'[i].n < rcv'[j].n
<1>1. Indexed
  BY Indices DEF TypeOK
<1>2. arrived \in Nat
  BY DEF TypeOK, BusTypes
<1> DEFINE item == Item(from, frame)
           q == Append(rcv, item)
<1>3. item \in Items /\ item.n = arrived + 1
  BY <1>2 DEF Item, Items
<1> HIDE DEF item
<1>4. /\ q \in Seq(Items) /\ Len(q) = Len(rcv) + 1
      /\ \A i \in 1..Len(rcv) : q[i] = rcv[i]
      /\ q[Len(rcv) + 1] = item
  BY <1>1, <1>3, AppendProperties DEF Indexed
<1>5. rcv' = q
  BY DEF Takes, item
<1> HIDE DEF q
<1>6. DOMAIN q = 1..Len(q) /\ Len(rcv) \in Nat
  BY <1>1, <1>4, LenProperties DEF Indexed
<1>7. DOMAIN rcv = 1..Len(rcv)
  BY <1>1 DEF Indexed
<1>8. /\ \A i \in 1..Len(rcv) : Newest < rcv[i].n /\ rcv[i].n <= arrived
      /\ \A i, j \in 1..Len(rcv) : i < j => rcv[i].n < rcv[j].n
  BY <1>7, Zenon DEF InOrder
<1>9. Newest \in 0..arrived /\ \A i \in 1..Len(rcv) : rcv[i].n \in Nat
  BY <1>1 DEF InOrder, Indexed
<1>10. ASSUME NEW i \in 1..Len(q)
       PROVE  i \in 1..Len(rcv) \/ i = Len(rcv) + 1
  BY <1>4, <1>6
<1>11. \A i \in 1..Len(q) : Newest < q[i].n /\ q[i].n <= arrived + 1
  <2> SUFFICES ASSUME NEW i \in 1..Len(q)
               PROVE  Newest < q[i].n /\ q[i].n <= arrived + 1
    OBVIOUS
  <2>1. CASE i \in 1..Len(rcv)
    <3>1. q[i] = rcv[i] /\ Newest < rcv[i].n /\ rcv[i].n <= arrived
          /\ rcv[i].n \in Nat
      BY <1>4, <1>8, <1>9, <2>1
    <3> QED
      BY <1>2, <3>1
  <2>2. CASE i = Len(rcv) + 1
    <3>1. q[i].n = arrived + 1
      BY <1>3, <1>4, <2>2
    <3> QED
      BY <1>2, <1>9, <3>1
  <2> QED
    BY <1>10, <2>1, <2>2
<1>12. \A i, j \in 1..Len(q) : i < j => q[i].n < q[j].n
  <2> SUFFICES ASSUME NEW i \in 1..Len(q), NEW j \in 1..Len(q), i < j
               PROVE  q[i].n < q[j].n
    OBVIOUS
  <2>1. i \in 1..Len(rcv)
    BY <1>4, <1>6
  <2>2. q[i] = rcv[i] /\ rcv[i].n <= arrived /\ rcv[i].n \in Nat
    BY <1>4, <1>8, <1>9, <2>1
  <2>3. CASE j \in 1..Len(rcv)
    BY <1>4, <1>8, <2>1, <2>3
  <2>4. CASE j = Len(rcv) + 1
    <3>1. q[j].n = arrived + 1
      BY <1>3, <1>4, <2>4
    <3> QED
      BY <1>2, <2>2, <3>1
  <2> QED
    BY <1>10, <2>3, <2>4
<1> QED
  BY <1>5, <1>6, <1>11, <1>12

LEMMA InOrderStep ==
  ASSUME TypeOK, InOrder, Next
  PROVE  InOrder' /\ [Sampler!Next]_<<arrived, Newest>>
<1>1. arrived \in Nat /\ Newest \in 0..arrived /\ ReaderTypes
  BY DEF TypeOK, BusTypes, InOrder
<1>2. canFrames' = canFrames => NewestFirst' /\ Newest' = Newest
  BY DEF NewestFirst, Newest, InOrder
<1>3. CASE Leaves
  <2>1. rcv' = rcv /\ NewestFirst' /\ Newest' = Newest
        /\ arrived' \in {arrived, arrived + 1}
    BY <1>2, <1>3 DEF Leaves
  <2>2. Newest' \in 0..arrived'
    BY <1>1, <2>1
  <2>3. \A i \in DOMAIN rcv : Newest < rcv[i].n /\ rcv[i].n <= arrived
                              /\ rcv[i].n \in Nat
    <3>1. Indexed
      BY <1>1, Indices
    <3> QED
      BY <3>1 DEF InOrder, Indexed
  <2>4. \A i \in DOMAIN rcv : Newest < rcv[i].n /\ rcv[i].n <= arrived'
    BY <1>1, <2>1, <2>3
  <2>5. \A i, j \in DOMAIN rcv : i < j => rcv[i].n < rcv[j].n
    BY Zenon DEF InOrder
  <2>6. [Sampler!Next]_<<arrived, Newest>>
    BY <2>1 DEF Sampler!Next, Sampler!Arrive
  <2> QED
    BY <2>1, <2>2, <2>4, <2>5, <2>6, Zenon DEF InOrder
<1>4. CASE Drops
  <2>1. rcv' = <<>> /\ NewestFirst' /\ Newest' = Newest /\ arrived' = arrived
    BY <1>2, <1>4 DEF Drops
  <2>2. DOMAIN rcv' = {}
    BY <2>1
  <2> QED
    BY <1>1, <2>1, <2>2 DEF InOrder
<1>5. CASE Stores
  <2>1. /\ NewestFirst' /\ Newest' = rcv[1].n
        /\ Newest < rcv[1].n /\ rcv[1].n <= arrived /\ arrived' = arrived
    BY <1>1, <1>5, StoresInOrder DEF Stores
  <2>2. rcv[1].n \in Nat
    <3>1. Indexed /\ rcv # <<>>
      BY <1>1, <1>5, Indices DEF Stores
    <3>2. Len(rcv) \in Nat \ {0}
      BY <3>1, EmptySeq DEF Indexed
    <3> QED
      BY <3>1, <3>2 DEF Indexed
  <2>3. Newest' \in 0..arrived'
    BY <1>1, <2>1, <2>2
  <2>4. /\ \A i \in DOMAIN rcv' : rcv[1].n < rcv'[i].n /\ rcv'[i].n <= arrived
        /\ \A i, j \in DOMAIN rcv' : i < j => rcv'[i].n < rcv'[j].n
    BY <1>1, <1>5, QueueAfterStore
  <2>5. Newest' \in (Newest + 1)..arrived
    BY <1>1, <2>1, <2>2
  <2>6. [Sampler!Next]_<<arrived, Newest>>
    BY <2>1, <2>5 DEF Sampler!Next, Sampler!Emit
  <2> QED
    BY <2>1, <2>3, <2>4, <2>6, Zenon DEF InOrder
<1>6. CASE TakesAny
  <2>1. PICK from \in Senders \cup {Bus}, frame \in CanFrames :
          Takes(from, frame)
    BY <1>6 DEF TakesAny
  <2>2. NewestFirst' /\ Newest' = Newest /\ arrived' = arrived + 1
    BY <1>2, <2>1 DEF Takes
  <2>3. /\ \A i \in DOMAIN rcv' : Newest < rcv'[i].n /\ rcv'[i].n <= arrived + 1
        /\ \A i, j \in DOMAIN rcv' : i < j => rcv'[i].n < rcv'[j].n
    BY <2>1, QueueAfterArrival
  <2>4. Newest' \in 0..arrived'
    BY <1>1, <2>2
  <2>5. [Sampler!Next]_<<arrived, Newest>>
    BY <2>2 DEF Sampler!Next, Sampler!Arrive
  <2> QED
    BY <2>2, <2>3, <2>4, <2>5, Zenon DEF InOrder
<1> QED
  BY <1>3, <1>4, <1>5, <1>6, Moves

LEMMA InOrderInit ==
  ASSUME Init
  PROVE  InOrder /\ Newest = 0
<1>1. rcv = <<>> /\ canFrames = <<>> /\ arrived = 0
  BY DEF Init
<1>2. DOMAIN rcv = {} /\ DOMAIN canFrames = {}
  BY <1>1
<1>3. Newest = 0
  BY <1>1, Zenon DEF Newest
<1>4. Newest \in 0..arrived
  BY <1>1, <1>3
<1> QED
  BY <1>2, <1>3, <1>4, Zenon DEF InOrder, NewestFirst

LEMMA OrderInvariance == Spec => []InOrder
<1>1. TypeOK /\ InOrder /\ [Next]_vars => InOrder'
  <2>1. CASE UNCHANGED vars
    BY <2>1, Zenon DEF vars, bus, store, read, InOrder, NewestFirst, Newest
  <2> QED
    BY <2>1, InOrderStep
<1> QED
  BY <1>1, InOrderInit, TypeCorrect, PTL DEF Spec

\* can_frames is in the order of the bus, newest first and without repetition,
\* over every reconnection and whatever the length of can_history
\* (console_node.py:70, 211-213).
THEOREM NewestFirstTheorem == Spec => []NewestFirst
<1>1. InOrder => NewestFirst
  BY DEF InOrder
<1> QED
  BY <1>1, OrderInvariance, PTL

\* What can_reader stores samples, in order, what arrives at the interface:
\* the reader implements FrameSampler (console_node.py:195-213).
THEOREM SamplerTheorem == Spec => SamplesBus
<1>1. Init => Sampler!Init
  BY InOrderInit DEF Init, Sampler!Init
<1>2. TypeOK /\ InOrder /\ [Next]_vars => [Sampler!Next]_<<arrived, Newest>>
  <2>1. UNCHANGED vars => UNCHANGED <<arrived, Newest>>
    BY Zenon DEF vars, bus, store, Newest
  <2> QED
    BY <2>1, InOrderStep
<1> QED
  BY <1>1, <1>2, TypeCorrect, OrderInvariance, PTL
  DEF Spec, SamplesBus, Sampler!Spec

(***************************************************************************)
(* What is on the bus and in the history.                                  *)
(***************************************************************************)
Sent(s) == pc[s] = "answered" /\ reply[s] = "ok" /\ ~TooLong(req[s].data)

\* The frame is what the sender, if it is one of ours, asked for, and the
\* sender was told so.
Queued(from, frame) ==
  from \in Senders => Sent(from) /\ frame = Built(from)
Shown(from, row) ==
  from \in Senders => Sent(from) /\ row = parse_can_frame(Built(from))

LEMMA SentStays ==
  ASSUME SenderTypes, Next, NEW s \in Senders, Sent(s)
  PROVE  Sent(s)' /\ Built(s)' = Built(s)
<1>1. req' = req /\ pc'[s] = pc[s] /\ reply'[s] = reply[s]
  <2>1. CASE Reader \/ DestroyNode
    BY <2>1, ReaderFrame DEF DestroyNode, sends
  <2>2. CASE Environment
    <3>1. /\ req' = req /\ reply' = reply
          /\ \/ pc' = pc
             \/ pc' = [t \in Senders |-> IF pc[t] = "bound" THEN "failing"
                                                           ELSE pc[t]]
      BY <2>2
      DEF Environment, LinkConfigured, LinkSetDown, LinkChanges, FrameQueued,
          EchoArrives, FrameArrives, Arrives, sends
    <3> QED
      BY <3>1 DEF Sent
  <2>3. ASSUME NEW t \in Senders, Post(t) \/ Handler(t)
        PROVE  req' = req /\ pc'[s] = pc[s] /\ reply'[s] = reply[s]
    <3>1. req' = req /\ pc[t] # "answered"
      BY <2>3, SenderFrame
    <3>2. PICK to : pc' = [pc EXCEPT ![t] = to]
      BY <2>3, SenderFrame
    <3>3. PICK answer : reply' = reply \/ reply' = [reply EXCEPT ![t] = answer]
      BY <2>3, SenderFrame
    <3>4. t # s
      BY <3>1 DEF Sent
    <3> QED
      BY <3>1, <3>2, <3>3, <3>4 DEF SenderTypes
  <2> QED
    BY <2>1, <2>2, <2>3 DEF Next
<1> QED
  BY <1>1 DEF Sent, Built

LEMMA QueuedStays ==
  ASSUME SenderTypes, Next, NEW from, NEW frame, Queued(from, frame)
  PROVE  Queued(from, frame)'
  BY SentStays DEF Queued

LEMMA ShownStays ==
  ASSUME SenderTypes, Next, NEW from, NEW row, Shown(from, row)
  PROVE  Shown(from, row)'
  BY SentStays DEF Shown

\* What a step may add to the transmit queue.
LEMMA SendsGenuine ==
  ASSUME TypeOK, Fitting, NEW s \in Senders, Sends(s)
  PROVE  \E frame : tx' = Append(tx, [from |-> s, frame |-> frame])
                   /\ Queued(s, frame)'
<1>1. tx' = Append(tx, [from |-> s, frame |-> Built(s)])
  BY DEF Sends, Built
<1>2. /\ pc[s] = "bound" /\ pc' = [pc EXCEPT ![s] = "answered"]
      /\ reply' = [reply EXCEPT ![s] = "ok"] /\ req' = req
  BY DEF Sends, SenderSteps, Replies, NoneReturned
<1>3. Sent(s)' /\ Built(s)' = Built(s)
  BY <1>2 DEF Sent, Built, Fitting, TypeOK, SenderTypes
<1> QED
  BY <1>1, <1>3 DEF Queued

LEMMA QueueGrows ==
  ASSUME NEW S, NEW q \in Seq(S), NEW e \in S
  PROVE  \A i \in DOMAIN Append(q, e) :
           \/ i \in DOMAIN q /\ Append(q, e)[i] = q[i]
           \/ Append(q, e)[i] = e
<1> DEFINE r == Append(q, e)
<1>1. /\ r \in Seq(S) /\ Len(r) = Len(q) + 1
      /\ \A i \in 1..Len(q) : r[i] = q[i]
      /\ r[Len(q) + 1] = e
  BY AppendProperties
<1> HIDE DEF r
<1>2. DOMAIN r = 1..Len(r) /\ DOMAIN q = 1..Len(q) /\ Len(q) \in Nat
  BY <1>1, LenProperties
<1>3. \A i \in DOMAIN r : \/ i \in DOMAIN q /\ r[i] = q[i]
                         \/ r[i] = e
  <2> SUFFICES ASSUME NEW i \in DOMAIN r
               PROVE  \/ i \in DOMAIN q /\ r[i] = q[i]
                      \/ r[i] = e
    OBVIOUS
  <2>1. i \in 1..Len(q) \/ i = Len(q) + 1
    BY <1>1, <1>2
  <2> QED
    BY <1>1, <1>2, <2>1
<1> QED
  BY <1>3 DEF r

LEMMA QueueShrinks ==
  ASSUME NEW S, NEW q \in Seq(S), q # <<>>
  PROVE  /\ 1 \in DOMAIN q /\ Head(q) = q[1] /\ Head(q) \in S
         /\ \A i \in DOMAIN Tail(q) : i + 1 \in DOMAIN q /\ Tail(q)[i] = q[i + 1]
<1> DEFINE r == Tail(q)
<1>1. /\ r \in Seq(S) /\ Len(q) \in Nat \ {0} /\ Head(q) = q[1] /\ Head(q) \in S
      /\ \A i \in 1..Len(r) : i + 1 \in 1..Len(q) /\ r[i] = q[i + 1]
  BY Shortened
<1> HIDE DEF r
<1>2. DOMAIN r = 1..Len(r) /\ DOMAIN q = 1..Len(q)
  BY <1>1, LenProperties
<1>3. 1 \in DOMAIN q
  BY <1>1, <1>2
<1>4. \A i \in DOMAIN r : i + 1 \in DOMAIN q /\ r[i] = q[i + 1]
  BY <1>1, <1>2
<1> QED
  BY <1>1, <1>3, <1>4 DEF r

\* The inductive invariant of EchoMatches and ErrorMeansUnsent follows every
\* frame from the request through both queues to the history: TxGenuine,
\* RcvGenuine and StoreGenuine.
TxGenuine == \A i \in DOMAIN tx : Queued(tx[i].from, tx[i].frame)

LEMMA TxAppendGenuine ==
  ASSUME TypeOK, TxGenuine, Next, NEW e \in Entries, tx' = Append(tx, e),
         Queued(e.from, e.frame)'
  PROVE  TxGenuine'
<1>1. tx \in Seq(Entries)
  BY DEF TypeOK, BusTypes
<1>2. \A i \in DOMAIN tx' : \/ i \in DOMAIN tx /\ tx'[i] = tx[i]
                           \/ tx'[i] = e
  BY <1>1, QueueGrows
<1>3. \A from, frame : Queued(from, frame) => Queued(from, frame)'
  BY QueuedStays DEF TypeOK
<1>4. ASSUME NEW i \in DOMAIN tx, tx'[i] = tx[i]
      PROVE  Queued(tx[i].from, tx[i].frame)'
  <2>1. Queued(tx[i].from, tx[i].frame)
    BY <1>4 DEF TxGenuine
  <2> QED
    BY <1>3, <1>4, <2>1 DEF Queued, Sent, Built
<1>5. ASSUME NEW i \in DOMAIN tx', tx'[i] = e
      PROVE  Queued(tx[i].from, tx[i].frame)'
  BY <1>5 DEF Queued, Sent, Built
<1> QED
  BY <1>2, <1>4, <1>5 DEF TxGenuine

LEMMA SenderMovesTx ==
  ASSUME TypeOK, Fitting, TxGenuine, Next, NEW s \in Senders, Sends(s)
  PROVE  TxGenuine'
<1>1. PICK frame : tx' = Append(tx, [from |-> s, frame |-> frame])
                 /\ Queued(s, frame)'
  BY SendsGenuine
<1>2. frame \in CanFrames
  <2>1. tx' = Append(tx, [from |-> s, frame |-> Built(s)]) /\ pc[s] = "bound"
    BY DEF Sends, SenderSteps, Built
  <2>2. frame = Built(s)'
    BY <1>1 DEF Queued
  <2>3. req' = req
    BY DEF Sends, SenderSteps
  <2>4. Built(s) \in CanFrames
    BY <2>1, BuiltType DEF Fitting, TypeOK
  <2> QED
    BY <2>2, <2>3, <2>4 DEF Built
<1> DEFINE e == [from |-> s, frame |-> frame]
<1>3. e \in Entries /\ e.from = s /\ e.frame = frame
  BY <1>2 DEF Entries
<1>4. tx' = Append(tx, e)
  BY <1>1
<1> HIDE DEF e
<1>5. Queued(e.from, e.frame)'
  BY <1>1, <1>3
<1> QED
  BY <1>3, <1>4, <1>5, TxAppendGenuine

LEMMA TxGenuineStep ==
  ASSUME TypeOK, Fitting, TxGenuine, Next
  PROVE  TxGenuine'
<1>1. \A from, frame : Queued(from, frame) => Queued(from, frame)'
  BY QueuedStays DEF TypeOK
<1>2. CASE tx' = tx
  <2> SUFFICES ASSUME NEW i \in DOMAIN tx
               PROVE  Queued(tx[i].from, tx[i].frame)'
    BY <1>2 DEF TxGenuine
  <2>1. Queued(tx[i].from, tx[i].frame)
    BY DEF TxGenuine
  <2> QED
    BY <1>1, <1>2, <2>1 DEF Queued, Sent, Built
<1>3. CASE tx' = <<>>
  BY <1>3 DEF TxGenuine
<1>4. CASE tx # <<>> /\ tx' = Tail(tx)
  <2>1. \A i \in DOMAIN tx' : i + 1 \in DOMAIN tx /\ tx'[i] = tx[i + 1]
    BY <1>4, QueueShrinks DEF TypeOK, BusTypes
  <2>2. ASSUME NEW i \in DOMAIN tx'
        PROVE  Queued(tx[i].from, tx[i].frame)'
    <3>1. i + 1 \in DOMAIN tx /\ tx'[i] = tx[i + 1]
      BY <2>1
    <3>2. Queued(tx[i + 1].from, tx[i + 1].frame)
      BY <3>1 DEF TxGenuine
    <3> QED
      BY <1>1, <3>1, <3>2 DEF Queued, Sent, Built
  <2> QED
    BY <2>2 DEF TxGenuine
<1>5. CASE FrameQueued
  <2>1. PICK frame \in BusFrames : tx' = Append(tx, [from |-> Bus, frame |-> frame])
    BY <1>5 DEF FrameQueued
  <2>2. BusFrames \subseteq CanFrames
    BY CanBusConstants, Zenon DEF CanBusConstants
  <2> DEFINE e == [from |-> Bus, frame |-> frame]
  <2>3. e \in Entries /\ e.from = Bus
    BY <2>2 DEF Entries
  <2>4. tx' = Append(tx, e)
    BY <2>1
  <2> HIDE DEF e
  <2>5. Queued(e.from, e.frame)'
    BY <2>3, Bounds DEF Queued
  <2> QED
    BY <2>3, <2>4, <2>5, TxAppendGenuine
<1>6. CASE Reader \/ DestroyNode
  BY <1>2, <1>6, ReaderFrame DEF DestroyNode, bus
<1>7. ASSUME NEW s \in Senders, Post(s) \/ Handler(s)
      PROVE  TxGenuine'
  BY <1>2, <1>7, SenderFrame, SenderMovesTx
<1>8. CASE LinkConfigured \/ LinkSetDown \/ EchoArrives \/ FrameArrives
  BY <1>2, <1>3, <1>4, <1>8
  DEF LinkConfigured, LinkSetDown, LinkChanges, EchoArrives, FrameArrives
<1> QED
  BY <1>5, <1>6, <1>7, <1>8 DEF Next, Environment

RcvGenuine == \A i \in DOMAIN rcv : Queued(rcv[i].from, rcv[i].frame)

\* What arrives is the head of the transmit queue, or another node's.
LEMMA ArrivalGenuine ==
  ASSUME TypeOK, TxGenuine, RcvGenuine, Next, TakesAny
  PROVE  RcvGenuine'
<1>1. PICK from \in Senders \cup {Bus}, frame \in CanFrames :
        /\ Takes(from, frame)
        /\ \/ from = Bus
           \/ tx # <<>> /\ from = tx[1].from /\ frame = tx[1].frame
  BY DEF TakesAny
<1> DEFINE item == Item(from, frame)
<1>2. item \in Items /\ item.from = from /\ item.frame = frame
  BY DEF Item, Items, TypeOK, BusTypes
<1>3. rcv' = Append(rcv, item) /\ rcv \in Seq(Items)
  BY <1>1 DEF Takes, TypeOK, ReaderTypes
<1> HIDE DEF item
<1>4. Queued(from, frame)
  <2>1. CASE from = Bus
    BY <2>1, Bounds DEF Queued
  <2>2. CASE tx # <<>> /\ from = tx[1].from /\ frame = tx[1].frame
    <3>1. 1 \in DOMAIN tx
      BY <2>2, QueueShrinks DEF TypeOK, BusTypes
    <3> QED
      BY <2>2, <3>1 DEF TxGenuine
  <2> QED
    BY <1>1, <2>1, <2>2
<1>5. \A f, g : Queued(f, g) => Queued(f, g)'
  BY QueuedStays DEF TypeOK
<1>6. \A i \in DOMAIN rcv' : \/ i \in DOMAIN rcv /\ rcv'[i] = rcv[i]
                            \/ rcv'[i] = item
  BY <1>2, <1>3, QueueGrows
<1>7. ASSUME NEW i \in DOMAIN rcv, rcv'[i] = rcv[i]
      PROVE  Queued(rcv[i].from, rcv[i].frame)'
  <2>1. Queued(rcv[i].from, rcv[i].frame)
    BY DEF RcvGenuine
  <2> QED
    BY <1>5, <1>7, <2>1 DEF Queued, Sent, Built
<1>8. ASSUME NEW i \in DOMAIN rcv', rcv'[i] = item
      PROVE  Queued(rcv[i].from, rcv[i].frame)'
  <2>1. Queued(from, frame)'
    BY <1>4, <1>5
  <2> QED
    BY <1>2, <1>8, <2>1 DEF Queued, Sent, Built
<1> QED
  BY <1>6, <1>7, <1>8 DEF RcvGenuine

LEMMA RcvGenuineStep ==
  ASSUME TypeOK, TxGenuine, RcvGenuine, Next
  PROVE  RcvGenuine'
<1>1. \A from, frame : Queued(from, frame) => Queued(from, frame)'
  BY QueuedStays DEF TypeOK
<1>2. CASE rcv' = rcv
  <2> SUFFICES ASSUME NEW i \in DOMAIN rcv
               PROVE  Queued(rcv[i].from, rcv[i].frame)'
    BY <1>2 DEF RcvGenuine
  <2>1. Queued(rcv[i].from, rcv[i].frame)
    BY DEF RcvGenuine
  <2> QED
    BY <1>1, <1>2, <2>1 DEF Queued, Sent, Built
<1>3. CASE rcv' = <<>>
  BY <1>3 DEF RcvGenuine
<1>4. CASE rcv # <<>> /\ rcv' = Tail(rcv)
  <2>1. \A i \in DOMAIN rcv' : i + 1 \in DOMAIN rcv /\ rcv'[i] = rcv[i + 1]
    BY <1>4, QueueShrinks DEF TypeOK, ReaderTypes
  <2>2. ASSUME NEW i \in DOMAIN rcv'
        PROVE  Queued(rcv[i].from, rcv[i].frame)'
    <3>1. i + 1 \in DOMAIN rcv /\ rcv'[i] = rcv[i + 1]
      BY <2>1
    <3>2. Queued(rcv[i + 1].from, rcv[i + 1].frame)
      BY <3>1 DEF RcvGenuine
    <3> QED
      BY <1>1, <3>1, <3>2 DEF Queued, Sent, Built
  <2> QED
    BY <2>2 DEF RcvGenuine
<1> QED
  BY <1>2, <1>3, <1>4, Moves, ArrivalGenuine DEF Leaves, Drops, Stores

StoreGenuine ==
  \A i \in DOMAIN canFrames : Shown(canFrames[i].from, canFrames[i].row)

LEMMA StoreGenuineStep ==
  ASSUME TypeOK, RcvGenuine, StoreGenuine, Next
  PROVE  StoreGenuine'
<1>1. \A from, row : Shown(from, row) => Shown(from, row)'
  BY ShownStays DEF TypeOK
<1>2. CASE canFrames' = canFrames
  <2> SUFFICES ASSUME NEW i \in DOMAIN canFrames
               PROVE  Shown(canFrames[i].from, canFrames[i].row)'
    BY <1>2 DEF StoreGenuine
  <2>1. Shown(canFrames[i].from, canFrames[i].row)
    BY DEF StoreGenuine
  <2> QED
    BY <1>1, <1>2, <2>1 DEF Shown, Sent, Built
<1>3. CASE Stores
  <2>1. rcv # <<>> /\ canFrames' = AppendsLeft(Row) /\ ReaderTypes
    BY <1>3 DEF Stores, TypeOK
  <2>2. /\ Row \in Stored /\ 1 \in DOMAIN rcv
        /\ Row.from = rcv[1].from
        /\ Row.row = parse_can_frame(rcv[1].frame)
    <3>1. 1 \in DOMAIN rcv /\ Head(rcv) = rcv[1]
      BY <2>1, QueueShrinks DEF ReaderTypes
    <3> QED
      BY <2>1, <3>1, RowType DEF Row
  <2>3. Shown(Row.from, Row.row)
    <3>1. Queued(rcv[1].from, rcv[1].frame)
      BY <2>2 DEF RcvGenuine
    <3> QED
      BY <2>2, <3>1 DEF Queued, Shown
  <2> DEFINE r == AppendsLeft(Row)
  <2>4. /\ r \in Seq(Stored) /\ r[1] = Row
        /\ \A i \in 2..Len(r) : i - 1 \in 1..Len(canFrames)
                                /\ r[i] = canFrames[i - 1]
    BY <2>1, <2>2, AppendsLeftProperties
  <2>5. canFrames' = r
    BY <2>1
  <2> HIDE DEF r
  <2>6. DOMAIN r = 1..Len(r) /\ Len(r) \in Nat
        /\ DOMAIN canFrames = 1..Len(canFrames)
    BY <2>1, <2>4, LenProperties DEF ReaderTypes
  <2>7. ASSUME NEW i \in 2..Len(r)
        PROVE  Shown(canFrames[i].from, canFrames[i].row)'
    <3>1. i - 1 \in DOMAIN canFrames /\ canFrames'[i] = canFrames[i - 1]
      BY <2>4, <2>5, <2>6
    <3>2. Shown(canFrames[i - 1].from, canFrames[i - 1].row)
      BY <3>1 DEF StoreGenuine
    <3> QED
      BY <1>1, <3>1, <3>2 DEF Shown, Sent, Built
  <2>8. Shown(canFrames[1].from, canFrames[1].row)'
    <3>1. canFrames'[1] = Row
      BY <2>4, <2>5
    <3> QED
      BY <1>1, <2>3, <3>1 DEF Shown, Sent, Built
  <2>9. \A i \in DOMAIN r : i = 1 \/ i \in 2..Len(r)
    BY <2>6
  <2> QED
    BY <2>5, <2>7, <2>8, <2>9 DEF StoreGenuine
<1> QED
  BY <1>2, <1>3, Moves DEF Leaves, Drops, TakesAny, Takes

Genuine == TxGenuine /\ RcvGenuine /\ StoreGenuine

LEMMA GenuineInvariance == Spec => [](TypeOK /\ Genuine)
<1>1. Init => Genuine /\ Fitting
  <2> SUFFICES ASSUME Init PROVE Genuine /\ Fitting
    OBVIOUS
  <2>1. DOMAIN tx = {} /\ DOMAIN rcv = {} /\ DOMAIN canFrames = {}
    <3>1. tx = <<>> /\ rcv = <<>> /\ canFrames = <<>>
      BY DEF Init
    <3>2. DOMAIN <<>> = {}
      OBVIOUS
    <3> QED
      BY <3>1, <3>2, Zenon
  <2>2. Fitting
    BY DEF Init, Fitting
  <2> QED
    BY <2>1, <2>2, Zenon DEF Genuine, TxGenuine, RcvGenuine, StoreGenuine
<1>2. TypeOK /\ Fitting /\ Genuine /\ [Next]_vars => (Fitting /\ Genuine)'
  <2> SUFFICES ASSUME TypeOK, Fitting, Genuine, [Next]_vars
               PROVE  (Fitting /\ Genuine)'
    OBVIOUS
  <2>1. CASE Next
    BY <2>1, FittingStep, TxGenuineStep, RcvGenuineStep, StoreGenuineStep
    DEF Genuine, TypeOK
  <2>2. CASE UNCHANGED vars
    <3>1. /\ tx' = tx /\ rcv' = rcv /\ canFrames' = canFrames
          /\ req' = req /\ pc' = pc /\ reply' = reply
      BY <2>2, Zenon DEF vars, bus, store, read, sends
    <3> QED
      BY <3>1
      DEF Fitting, Genuine, TxGenuine, RcvGenuine, StoreGenuine, Queued,
          Shown, Sent, Built
  <2> QED
    BY <2>1, <2>2
<1> QED
  BY <1>1, <1>2, TypeCorrect, PTL DEF Spec

\* Only a request that was answered "ok" is on the bus or in the history, for
\* any number of senders, queues and reconnections (console_node.py:218-231,
\* 540-542).
THEOREM ErrorMeansUnsentTheorem == Spec => []ErrorMeansUnsent
<1>1. Genuine => ErrorMeansUnsent
  BY DEF Genuine, TxGenuine, StoreGenuine, Queued, Shown, Sent,
         ErrorMeansUnsent
<1> QED
  BY <1>1, GenuineInvariance, PTL

\* Whatever becomes of a request on its way through the two queues, a row of
\* the history that stems from it shows the identifier, flags, length and bytes
\* it asked for, if they are in range (canutil.py:18-43,
\* console_node.py:204-213, 218-231).
THEOREM EchoMatchesTheorem == Spec => []EchoMatches
<1>1. TypeOK /\ Genuine => EchoMatches
  <2> SUFFICES ASSUME TypeOK, Genuine, NEW i \in DOMAIN canFrames,
                      NEW s \in Senders, s = canFrames[i].from,
                      InRange(req[s].id, req[s].extended)
               PROVE  canFrames[i].row = Display(req[s].id, req[s].data,
                                                 req[s].extended)
    BY DEF EchoMatches
  <2>1. Sent(s) /\ canFrames[i].row = parse_can_frame(Built(s))
    BY DEF Genuine, StoreGenuine, Shown
  <2>2. req[s] \in Requests /\ ~TooLong(req[s].data)
    BY <2>1 DEF TypeOK, SenderTypes, Sent
  <2>3. /\ req[s].id \in Identifiers /\ req[s].data \in Payloads
        /\ req[s].extended \in SUBSET {"EFF"}
    BY <2>2, RequestType
  <2> QED
    BY <2>1, <2>2, <2>3, RoundTrip DEF Built
<1> QED
  BY <1>1, GenuineInvariance, PTL
=============================================================================
