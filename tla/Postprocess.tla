---------------------------- MODULE Postprocess ----------------------------
(***************************************************************************)
(* From one output of the network to the detections published for a frame: *)
(* the letterbox that process() put around the image, decode_yolov8 and    *)
(* nms (trt_detector_node.cpp, postprocess.cpp).  Anchors are numbered; a  *)
(* detection is the number of its anchor.  Network coordinates are whole   *)
(* pixels, and image coordinates 1/(2 * InputSize) of one, in which what   *)
(* the code computes in floating point is exact.                           *)
(***************************************************************************)
EXTENDS Integers, Sequences, FiniteSets

CONSTANTS
  InputSize,   \* kInputW and kInputH
  Images,      \* the sizes <<width, height>> of images
  Anchors,     \* number of anchors
  Boxes,       \* boxes <<cx, cy, w, h>> the network may put out
  Classes,     \* number of classes
  Scores,      \* scores it may put out
  Threshold,   \* score_threshold
  IouPercent   \* 100 * nms_iou

ASSUME PostprocessConstants ==
  /\ InputSize \in Nat \ {0}
  /\ Images \subseteq (Nat \ {0}) \X (Nat \ {0})
  /\ Anchors \in Nat
  /\ Boxes \subseteq Int \X Int \X Nat \X Nat
  /\ Classes \in Nat \ {0}
  /\ Scores \subseteq Nat /\ Threshold \in Nat
  /\ IouPercent \in 0..100

VARIABLES
  image,    \* the size of the image
  pad,      \* <<pad_x, pad_y>>
  out,      \* the output tensor: box and scores of every anchor
  stage,    \* "letterbox", "sort", "suppress", "done"
  dets,     \* dets, sorted
  next,     \* i
  removed,  \* the positions marked in removed
  kept      \* the positions copied to kept

vars == <<image, pad, out, stage, dets, next, removed, kept>>

Tensors == [1..Anchors -> [box : Boxes, score : [1..Classes -> Scores]]]

(***************************************************************************)
(* Letterbox.  The scale is InputSize / LongSide.                          *)
(***************************************************************************)

\* Seeded fault: std::max for std::min.
ShortSide(size) == IF size[1] > size[2] THEN size[2] ELSE size[1]

LongSide(size) == IF size[1] > size[2] THEN size[1] ELSE size[2]

\* Truncation to int, of a product that rounding may have put just below a whole
\* number: 640 / 133 * 133 is 639.
Scaled(size, side) ==
  LET n == (side * InputSize) \div LongSide(size)
  IN  {n} \cup (IF (side * InputSize) % LongSide(size) = 0 THEN {n - 1} ELSE {})

Pads(size, side) == {(InputSize - n) \div 2 : n \in Scaled(size, side)}

(***************************************************************************)
(* decode_yolov8.                                                          *)
(***************************************************************************)
\* The first of the classes with the best score.
Best(a) ==
  CHOOSE c \in 1..Classes : \A k \in 1..Classes :
    /\ out[a].score[k] <= out[a].score[c]
    /\ k < c => out[a].score[k] < out[a].score[c]

BestScore(a) == out[a].score[Best(a)]

\* Seeded fault: the padding is not taken off.
UndonePad(d) == 0

PadOf(d) == pad[d]

Larger(m, n) == IF m > n THEN m ELSE n
Smaller(m, n) == IF m < n THEN m ELSE n

\* The edges of an anchor's box along dimension d, clamped to the image.
Low(a, d) ==
  LET edge == 2 * out[a].box[d] - out[a].box[d + 2]
  IN  Larger(0, (edge - 2 * PadOf(d)) * LongSide(image))

High(a, d) ==
  LET edge == 2 * out[a].box[d] + out[a].box[d + 2]
  IN  Smaller(image[d] * 2 * InputSize, (edge - 2 * PadOf(d)) * LongSide(image))

Decoded ==
  {a \in 1..Anchors :
     BestScore(a) > Threshold /\ \A d \in 1..2 : Low(a, d) < High(a, d)}

(***************************************************************************)
(* nms.                                                                    *)
(***************************************************************************)
Span(low, high) == IF low < high THEN high - low ELSE 0

Area(a) == Span(Low(a, 1), High(a, 1)) * Span(Low(a, 2), High(a, 2))

Side(a, b, d) ==
  Span(Larger(Low(a, d), Low(b, d)), Smaller(High(a, d), High(b, d)))

Inter(a, b) == Side(a, b, 1) * Side(a, b, 2)

Uni(a, b) == (Area(a) + Area(b)) - Inter(a, b)

\* Same class, and an intersection over union above the threshold.
Suppresses(a, b) ==
  /\ Best(a) = Best(b)
  /\ Uni(a, b) > 0 /\ 100 * Inter(a, b) > IouPercent * Uni(a, b)

MayPrecede(a, b) == BestScore(a) >= BestScore(b)

\* What std::sort may leave of a set: equal scores in any order.
Orders(set) ==
  LET n == Cardinality(set)
  IN  {s \in [1..n -> set] :
         /\ \A a \in set : \E i \in 1..n : s[i] = a
         /\ \A i, j \in 1..n : i < j => s[i] # s[j] /\ MayPrecede(s[i], s[j])}

Init ==
  /\ image \in Images /\ out \in Tensors
  /\ pad = <<0, 0>>
  /\ stage = "letterbox"
  /\ dets = <<>> /\ next = 1 /\ removed = {} /\ kept = {}

Letterboxes ==
  /\ stage = "letterbox" /\ stage' = "sort"
  /\ pad' \in Pads(image, image[1]) \X Pads(image, image[2])
  /\ UNCHANGED <<image, out, dets, next, removed, kept>>

Sorts ==
  /\ stage = "sort" /\ stage' = "suppress"
  /\ dets' \in Orders(Decoded)
  /\ UNCHANGED <<image, pad, out, next, removed, kept>>

\* Seeded fault: removed detections are visited like all others.
NeverSkipped(i) == FALSE

Skipped(i) == i \in removed

Overlapped(i) == {j \in DOMAIN dets : j > i /\ Suppresses(dets[i], dets[j])}

\* Seeded fault: removed detections remove others.
MarksAnyway(i) == Overlapped(i)

\* The inner loop: what detection i removes.
Marks(i) == IF Skipped(i) THEN {} ELSE Overlapped(i)

\* One turn of the outer loop.
Visits ==
  /\ stage = "suppress" /\ next \in DOMAIN dets
  /\ kept' = IF Skipped(next) THEN kept ELSE kept \cup {next}
  /\ removed' = removed \cup Marks(next)
  /\ next' = next + 1
  /\ UNCHANGED <<image, pad, out, stage, dets>>

Returns ==
  /\ stage = "suppress" /\ next \notin DOMAIN dets
  /\ stage' = "done"
  /\ UNCHANGED <<image, pad, out, dets, next, removed, kept>>

Next == Letterboxes \/ Sorts \/ Visits \/ Returns

Spec == Init /\ [][Next]_vars

(***************************************************************************)
(* Properties.                                                             *)
(***************************************************************************)

\* The types of the variables; a padding is never negative, for it is where
\* the image is copied to.
TypeOK ==
  /\ image \in Images /\ out \in Tensors
  /\ pad \in (0..InputSize) \X (0..InputSize)
  /\ stage \in {"letterbox", "sort", "suppress", "done"}
  /\ dets \in Seq(1..Anchors)
  /\ next \in 1..(Len(dets) + 1)
  /\ removed \subseteq DOMAIN dets /\ kept \subseteq DOMAIN dets

Output == {dets[i] : i \in kept}

\* No object is reported twice: two detections of one class that remain overlap
\* by the threshold at most, whichever of them was looked at first
\* (postprocess.cpp:46-66).
NoDuplicates == \A i, j \in kept : i # j => ~Suppresses(dets[i], dets[j])

\* No object is lost: a detection that is missing from the result gave way to
\* one of its class that is in it and scores no worse, never to one that was
\* itself removed.
NothingLost ==
  stage = "done" =>
    \A a \in Decoded \ Output :
      \E b \in Output : Suppresses(b, a) /\ BestScore(b) >= BestScore(a)

\* Nothing is detected in the grey border: the inverse of the letterbox takes
\* off what process() put on, up to the pixel that truncation costs
\* (trt_detector_node.cpp:214-219, postprocess.cpp:33-38).
NothingInBorder ==
  stage \in {"suppress", "done"} =>
    \A i \in DOMAIN dets, d \in 1..2 :
      LET box == out[dets[i]].box
      IN  /\ 2 * box[d] + box[d + 2] > 2 * pad[d]
          /\ 2 * box[d] - box[d + 2] < 2 * (InputSize - pad[d] + 1)
=============================================================================
