------------------------------ MODULE CanFrame ------------------------------
(***************************************************************************)
(* The frame codec of canutil.py.  An identifier is the integer a caller   *)
(* asks for, cut where the code's masks cut it: the flags EFF, RTR and ERR *)
(* (bits 31 to 29), the part only an extended identifier has (bits 28 to   *)
(* 11) and the part every identifier has (bits 10 to 0).  It is "wide" if  *)
(* it is negative or needs more than 32 bits.                              *)
(***************************************************************************)
EXTENDS Integers, Sequences

CONSTANTS
  Highs,    \* the values of bits 28 to 11
  Lows,     \* the values of bits 10 to 0
  NoHigh,   \* the value 0 of bits 28 to 11
  Bytes,    \* the bytes of payloads
  Pad,      \* the byte 0
  MaxData   \* 8: the data of a struct can_frame

ASSUME CanFrameConstants ==
  /\ NoHigh \in Highs
  /\ Pad \in Bytes
  /\ MaxData \in Nat

Flags == {"EFF", "RTR", "ERR"}

Identifiers ==
  [width: {"u32", "wide"}, flags: SUBSET Flags, high: Highs, low: Lows]

Payloads == Seq(Bytes)

\* struct can_frame.
CanFrames ==
  [id: Identifiers, dlc: 0..MaxData, data: [1..MaxData -> Bytes]]

\* What the page is given of a frame.
Displays ==
  [id: Seq(Highs \cup Lows), flags: SUBSET Flags, dlc: 0..MaxData,
   data: Payloads]

\* Where build_can_frame raises: ValueError, and struct.error from pack.
TooLong(payload) == Len(payload) > MaxData
Unpackable(id) == id.width = "wide"

\* Seeded fault: the flag of an extended identifier is left out.
FlagForgotten(id, payload, extended) ==
  [id |-> id,
   dlc |-> Len(payload),
   data |-> [i \in 1..MaxData |-> IF i <= Len(payload) THEN payload[i] ELSE Pad]]

\* extended is {"EFF"} or {}.
build_can_frame(id, payload, extended) ==
  [id |-> [id EXCEPT !.flags = @ \cup extended],
   dlc |-> Len(payload),
   data |-> [i \in 1..MaxData |-> IF i <= Len(payload) THEN payload[i] ELSE Pad]]

\* What parse_can_frame makes of a frame for display: hexadecimal digits of a
\* standard or an extended identifier, flags, and the bytes the length counts.
parse_can_frame(frame) ==
  [id |-> IF "EFF" \in frame.id.flags THEN <<frame.id.high, frame.id.low>>
                                      ELSE <<frame.id.low>>,
   flags |-> frame.id.flags,
   dlc |-> frame.dlc,
   data |-> SubSeq(frame.data, 1, frame.dlc)]

\* The identifier is one a CAN frame of the kind asked for can carry.
InRange(id, extended) ==
  /\ id.width = "u32" /\ id.flags = {}
  /\ extended = {} => id.high = NoHigh

\* How a caller who asked for a frame expects to see it displayed.
Display(id, payload, extended) ==
  [id |-> IF extended = {} THEN <<id.low>> ELSE <<id.high, id.low>>,
   flags |-> extended,
   dlc |-> Len(payload),
   data |-> payload]
=============================================================================
