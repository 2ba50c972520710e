------------------------- MODULE PostprocessProofs -------------------------
(***************************************************************************)
(* Proofs about Postprocess, for any number of anchors, any boxes and any  *)
(* scores: nms is greedy suppression.                                      *)
(***************************************************************************)
EXTENDS Postprocess, FiniteSetTheorems, SequenceTheorems, TLAPS

\* The values the loop compares do not change while it runs.
LEMMA Frozen ==
  ASSUME UNCHANGED <<image, pad, out>>
  PROVE  /\ \A a, b : Suppresses(a, b)' = Suppresses(a, b)
         /\ \A a : BestScore(a)' = BestScore(a)
         /\ Decoded' = Decoded
<1>1. \A a : Best(a)' = Best(a)
  BY DEF Best
<1>2. \A a : BestScore(a)' = BestScore(a)
  BY <1>1 DEF BestScore
<1>3. LongSide(image)' = LongSide(image)
  OBVIOUS
<1>4. \A a, d : Low(a, d)' = Low(a, d)
  BY <1>3 DEF Low, PadOf
<1>5. \A a, d : High(a, d)' = High(a, d)
  BY <1>3 DEF High, PadOf
<1>6. \A a, b, d : Side(a, b, d)' = Side(a, b, d)
  BY <1>4, <1>5 DEF Side
<1>7. \A a : Area(a)' = Area(a)
  BY <1>4, <1>5 DEF Area
<1>8. \A a, b : Suppresses(a, b)' = Suppresses(a, b)
  BY <1>1, <1>6, <1>7 DEF Suppresses, Uni, Inter
<1>9. Decoded' = Decoded
  BY <1>2, <1>4, <1>5 DEF Decoded
<1> QED
  BY <1>2, <1>8, <1>9

\* The image fits into the network's input, so that the padding is not negative.
LEMMA PadRange ==
  ASSUME NEW size \in Images, NEW d \in 1..2, NEW p \in Pads(size, size[d])
  PROVE  p \in 0..InputSize
<1> DEFINE m == LongSide(size)
           q == (size[d] * InputSize) \div m
<1>1. size[d] \in Nat \ {0} /\ m \in Nat \ {0} /\ size[d] <= m
  BY PostprocessConstants DEF PostprocessConstants, LongSide
<1>2. InputSize \in Nat \ {0}
  BY PostprocessConstants DEF PostprocessConstants
<1>3. PICK n \in {q, q - 1} : p = (InputSize - n) \div 2
  BY DEF Pads, Scaled
<1> HIDE DEF m
<1>4. size[d] * InputSize \in Nat /\ size[d] * InputSize <= m * InputSize
  BY <1>1, <1>2
<1>5. q \in Nat /\ m * q <= size[d] * InputSize
  BY <1>1, <1>4
<1> HIDE DEF q
<1>6. m * q <= m * InputSize
  BY <1>1, <1>2, <1>4, <1>5
<1>7. q <= InputSize
  BY <1>1, <1>2, <1>5, <1>6
<1>8. n \in Int /\ n <= InputSize /\ n >= -1
  BY <1>2, <1>5, <1>7
<1> QED
  BY <1>2, <1>3, <1>8

\* Image coordinates are integers.
LEMMA EdgesAreInt ==
  ASSUME TypeOK, NEW a \in 1..Anchors, NEW d \in 1..2
  PROVE  Low(a, d) \in Int /\ High(a, d) \in Int
<1>1. image[d] \in Int /\ LongSide(image) \in Int /\ InputSize \in Int
  BY PostprocessConstants DEF PostprocessConstants, TypeOK, LongSide
<1>2. pad[d] \in Int
  BY <1>1 DEF TypeOK
<1>3. out[a].box \in Int \X Int \X Nat \X Nat
  BY PostprocessConstants DEF PostprocessConstants, TypeOK, Tensors
<1>4. out[a].box[d] \in Int /\ out[a].box[d + 2] \in Int
  BY <1>3
<1> QED
  BY <1>1, <1>2, <1>4 DEF Low, High, PadOf, Larger, Smaller

\* Overlap has no direction.
LEMMA SuppressesSymmetric ==
  ASSUME TypeOK, NEW a \in 1..Anchors, NEW b \in 1..Anchors
  PROVE  Suppresses(a, b) <=> Suppresses(b, a)
<1>1. \A d \in 1..2 : Side(a, b, d) = Side(b, a, d)
  BY EdgesAreInt DEF Side, Larger, Smaller
<1>2. \A e \in 1..Anchors, d \in 1..2 : Span(Low(e, d), High(e, d)) \in Int
  BY EdgesAreInt DEF Span
<1>3. Area(a) \in Int /\ Area(b) \in Int
  BY <1>2 DEF Area
<1>4. Side(a, b, 1) = Side(b, a, 1) /\ Side(a, b, 2) = Side(b, a, 2)
  BY <1>1
<1>5. Inter(a, b) = Inter(b, a)
  BY <1>4 DEF Inter
<1>6. Area(a) + Area(b) = Area(b) + Area(a)
  BY <1>3
<1>7. Uni(a, b) = Uni(b, a)
  BY <1>5, <1>6, Zenon DEF Uni
<1> QED
  BY <1>5, <1>7 DEF Suppresses

(***************************************************************************)
(* The loop.                                                               *)
(***************************************************************************)

\* dets is the sorted list of what was decoded; nothing has been visited before
\* there is one.
Listed ==
  /\ \A i, j \in DOMAIN dets :
       i < j => dets[i] # dets[j] /\ BestScore(dets[i]) >= BestScore(dets[j])
  /\ stage \in {"suppress", "done"} =>
       \A a \in Decoded : \E i \in DOMAIN dets : dets[i] = a
  /\ stage \in {"letterbox", "sort"} =>
       dets = <<>> /\ next = 1 /\ removed = {} /\ kept = {}

\* Of the detections visited every one is kept or removed, and not both; exactly
\* those are removed that a kept one before them suppresses.
Greedy ==
  /\ kept \subseteq 1..(next - 1) /\ kept \cap removed = {}
  /\ 1..(next - 1) \subseteq kept \cup removed
  /\ \A i \in kept, j \in DOMAIN dets :
       i < j /\ Suppresses(dets[i], dets[j]) => j \in removed
  /\ \A j \in removed :
       \E i \in kept : i < j /\ Suppresses(dets[i], dets[j])
  /\ stage = "done" => next = Len(dets) + 1

PInv == TypeOK /\ Listed /\ Greedy

LEMMA InitInv == Init => PInv
BY PostprocessConstants
   DEF PostprocessConstants, Init, PInv, TypeOK, Listed, Greedy

LEMMA LetterboxesInv == ASSUME PInv, Letterboxes PROVE PInv'
<1>1. pad' \in (0..InputSize) \X (0..InputSize)
  BY PadRange DEF Letterboxes, PInv, TypeOK
<1>2. TypeOK'
  BY <1>1 DEF Letterboxes, PInv, TypeOK
<1>3. dets' = <<>> /\ next' = 1 /\ removed' = {} /\ kept' = {} /\ stage' = "sort"
  BY DEF Letterboxes, PInv, Listed
<1>4. Listed' /\ Greedy'
  BY <1>3 DEF Listed, Greedy
<1> QED
  BY <1>2, <1>4 DEF PInv

LEMMA SortsInv == ASSUME PInv, Sorts PROVE PInv'
<1> DEFINE n == Cardinality(Decoded)
<1>1. n \in Nat
  <2>1. IsFiniteSet(1..Anchors)
    BY FS_Interval, PostprocessConstants DEF PostprocessConstants
  <2>2. IsFiniteSet(Decoded)
    BY <2>1, FS_Subset DEF Decoded
  <2> QED
    BY <2>2, FS_CardinalityType
<1>2. /\ dets' \in [1..n -> Decoded]
      /\ \A a \in Decoded : \E i \in 1..n : dets'[i] = a
      /\ \A i, j \in 1..n :
           i < j => dets'[i] # dets'[j] /\ MayPrecede(dets'[i], dets'[j])
  BY DEF Sorts, Orders
<1> HIDE DEF n
<1>3. dets' \in Seq(1..Anchors) /\ DOMAIN dets' = 1..n
  <2>1. Decoded \subseteq 1..Anchors
    BY DEF Decoded
  <2>2. dets' \in [1..n -> 1..Anchors]
    BY <1>2, <2>1
  <2> QED
    BY <1>1, <2>2, SeqDef
<1>4. next = 1 /\ removed = {} /\ kept = {}
  BY DEF Sorts, PInv, Listed
<1>5. TypeOK'
  BY <1>3, <1>4 DEF Sorts, PInv, TypeOK
<1>6. Listed'
  BY <1>2, <1>3, Frozen DEF Sorts, Listed, MayPrecede
<1>7. Greedy'
  BY <1>4 DEF Sorts, Greedy
<1> QED
  BY <1>5, <1>6, <1>7 DEF PInv

LEMMA VisitsInv == ASSUME PInv, Visits PROVE PInv'
<1>1. DOMAIN dets = 1..Len(dets) /\ Len(dets) \in Nat /\ next \in 1..Len(dets)
  BY DEF Visits, PInv, TypeOK
<1>2. TypeOK'
  BY <1>1 DEF Visits, PInv, TypeOK, Marks, Overlapped
<1>3. Listed'
  BY Frozen DEF Visits, PInv, Listed
<1>4. Greedy'
  <2>1. CASE next \in removed
    <3>1. kept' = kept /\ removed' = removed /\ dets' = dets /\ next' = next + 1
      BY <2>1 DEF Visits, Skipped, Marks
    <3>2. \A a, b : Suppresses(a, b)' = Suppresses(a, b)
      BY Frozen DEF Visits
    <3>3. /\ kept' \subseteq 1..(next' - 1) /\ kept' \cap removed' = {}
          /\ 1..(next' - 1) \subseteq kept' \cup removed'
      BY <1>1, <2>1, <3>1 DEF PInv, Greedy
    <3> QED
      BY <3>1, <3>2, <3>3 DEF Visits, PInv, Greedy
  <2>2. CASE next \notin removed
    <3>1. /\ kept' = kept \cup {next} /\ dets' = dets /\ next' = next + 1
          /\ removed' = removed \cup
               {j \in DOMAIN dets : j > next /\ Suppresses(dets[next], dets[j])}
      BY <2>2 DEF Visits, Skipped, Marks, Overlapped
    <3>2. \A a, b : Suppresses(a, b)' = Suppresses(a, b)
      BY Frozen DEF Visits
    <3>3. /\ kept' \subseteq 1..(next' - 1) /\ kept' \cap removed' = {}
          /\ 1..(next' - 1) \subseteq kept' \cup removed'
      BY <1>1, <2>2, <3>1 DEF PInv, Greedy
    <3>4. \A i \in kept', j \in DOMAIN dets :
            i < j /\ Suppresses(dets[i], dets[j]) => j \in removed'
      BY <1>1, <3>1 DEF PInv, Greedy
    <3>5. \A j \in removed' :
            \E i \in kept' : i < j /\ Suppresses(dets[i], dets[j])
      BY <1>1, <3>1 DEF PInv, Greedy
    <3> QED
      BY <3>1, <3>2, <3>3, <3>4, <3>5 DEF Visits, Greedy
  <2> QED
    BY <2>1, <2>2
<1> QED
  BY <1>2, <1>3, <1>4 DEF PInv

LEMMA ReturnsInv == ASSUME PInv, Returns PROVE PInv'
<1>1. DOMAIN dets = 1..Len(dets) /\ Len(dets) \in Nat
  BY DEF PInv, TypeOK
<1>2. TypeOK' /\ Listed'
  BY Frozen DEF Returns, PInv, TypeOK, Listed
<1>3. Greedy'
  BY <1>1, Frozen DEF Returns, PInv, TypeOK, Greedy
<1> QED
  BY <1>2, <1>3 DEF PInv

LEMMA StutterInv == ASSUME PInv, UNCHANGED vars PROVE PInv'
BY Frozen DEF vars, PInv, TypeOK, Listed, Greedy

\* Every state of every behaviour satisfies the invariant.
THEOREM Invariance == Spec => []PInv
<1>1. PInv /\ [Next]_vars => PInv'
  BY LetterboxesInv, SortsInv, VisitsInv, ReturnsInv, StutterInv DEF Next
<1> QED
  BY InitInv, <1>1, PTL DEF Spec

\* Every state has the declared types: in particular the image is copied to a
\* place inside the network's input (trt_detector_node.cpp:214-225).
THEOREM TypeCorrect == Spec => []TypeOK
BY Invariance, PTL DEF PInv

\* No object is reported twice (postprocess.cpp:46-66).
THEOREM NoDuplicatesTheorem == Spec => []NoDuplicates
<1>1. PInv => NoDuplicates
  <2> SUFFICES ASSUME PInv, NEW i \in kept, NEW j \in kept, i # j
               PROVE  ~Suppresses(dets[i], dets[j])
    BY DEF NoDuplicates
  <2>1. /\ i \in DOMAIN dets /\ j \in DOMAIN dets /\ i \in Nat /\ j \in Nat
        /\ dets[i] \in 1..Anchors /\ dets[j] \in 1..Anchors
    <3>1. DOMAIN dets = 1..Len(dets) /\ Len(dets) \in Nat
      BY DEF PInv, TypeOK
    <3>2. i \in 1..Len(dets) /\ j \in 1..Len(dets)
      BY <3>1 DEF PInv, TypeOK
    <3>3. \A k \in 1..Len(dets) : dets[k] \in 1..Anchors
      BY ElementOfSeq DEF PInv, TypeOK
    <3> QED
      BY <3>1, <3>2, <3>3
  <2>2. CASE i < j
    BY <2>1, <2>2 DEF PInv, Greedy
  <2>3. CASE j < i
    <3>1. ~Suppresses(dets[j], dets[i])
      BY <2>1, <2>3 DEF PInv, Greedy
    <3> QED
      BY <2>1, <3>1, SuppressesSymmetric DEF PInv
  <2> QED
    BY <2>1, <2>2, <2>3
<1> QED
  BY Invariance, <1>1, PTL

\* No object is lost (postprocess.cpp:46-66).
THEOREM NothingLostTheorem == Spec => []NothingLost
<1>1. PInv => NothingLost
  <2> SUFFICES ASSUME PInv, stage = "done", NEW a \in Decoded, a \notin Output
               PROVE  \E b \in Output :
                        Suppresses(b, a) /\ BestScore(b) >= BestScore(a)
    BY DEF NothingLost
  <2>1. PICK j \in DOMAIN dets : dets[j] = a
    BY DEF PInv, Listed
  <2>2. j \notin kept /\ j \in 1..Len(dets) /\ Len(dets) \in Nat
    BY <2>1 DEF Output, PInv, TypeOK
  <2>3. j \in removed
    BY <2>2 DEF PInv, Greedy
  <2>4. PICK i \in kept : i < j /\ Suppresses(dets[i], dets[j])
    BY <2>3 DEF PInv, Greedy
  <2>5. i \in DOMAIN dets /\ BestScore(dets[i]) >= BestScore(dets[j])
    BY <2>4, <2>1 DEF PInv, TypeOK, Listed
  <2> QED
    BY <2>1, <2>4, <2>5 DEF Output
<1> QED
  BY Invariance, <1>1, PTL

(***************************************************************************)
(* The border.                                                             *)
(***************************************************************************)

\* What is compared with a larger product is smaller.
LEMMA Cancelled ==
  ASSUME NEW m \in Nat \ {0}, NEW x \in Int, NEW y \in Int
  PROVE  /\ x * m < y * m => x < y
         /\ 0 < x * m => 0 < x
OBVIOUS

\* Integer division.
LEMMA Divided ==
  ASSUME NEW x \in Nat, NEW m \in Nat \ {0}
  PROVE  /\ x \div m \in Nat
         /\ x <= (x \div m + 1) * m
         /\ x % m = 0 => x <= (x \div m) * m
<1>1. x \div m \in Nat /\ x % m \in 0..(m - 1)
  OBVIOUS
<1>2. x % m = x - m * (x \div m)
  OBVIOUS
<1> DEFINE q == x \div m
           r == x % m
<1>3. q \in Nat /\ r \in 0..(m - 1) /\ r = x - m * q
  BY <1>1, <1>2
<1> HIDE DEF q, r
<1>4. (q + 1) * m = m * q + m /\ q * m = m * q
  BY <1>3
<1>5. m * q \in Int
  BY <1>3
<1>6. x <= (q + 1) * m /\ (r = 0 => x <= q * m)
  BY <1>3, <1>4, <1>5
<1> QED
  BY <1>3, <1>6 DEF q, r

\* The image is at most a pixel longer than what it is scaled to, and the
\* paddings together do not exceed what that leaves of the input.
LEMMA PadFits ==
  ASSUME NEW size \in Images, NEW d \in 1..2, NEW p \in Pads(size, size[d])
  PROVE  \E n \in Int : /\ size[d] * InputSize <= (n + 1) * LongSide(size)
                        /\ 2 * p <= InputSize - n
<1> DEFINE m == LongSide(size)
           x == size[d] * InputSize
           q == x \div m
<1>1. m \in Nat \ {0} /\ size[d] \in Nat /\ InputSize \in Nat
  BY PostprocessConstants DEF PostprocessConstants, LongSide
<1>2. x \in Nat
  BY <1>1
<1>3. PICK n \in {q} \cup (IF x % m = 0 THEN {q - 1} ELSE {}) :
        p = (InputSize - n) \div 2
  BY DEF Pads, Scaled
<1> HIDE DEF m, x
<1>4. q \in Nat /\ x <= (q + 1) * m /\ (x % m = 0 => x <= q * m)
  BY <1>1, <1>2, Divided
<1>5. n \in Int /\ 2 * p <= InputSize - n
  BY <1>1, <1>3, <1>4
<1>6. x <= (n + 1) * m
  <2> HIDE DEF q
  <2>1. n = q \/ (x % m = 0 /\ n + 1 = q)
    BY <1>3, <1>4
  <2> QED
    BY <1>4, <2>1
<1> QED
  BY <1>5, <1>6 DEF m, x

\* A decoded box reaches into the image.
LEMMA DecodedInside ==
  ASSUME TypeOK, NEW a \in Decoded, NEW d \in 1..2,
         pad[d] \in Pads(image, image[d])
  PROVE  /\ 2 * out[a].box[d] + out[a].box[d + 2] > 2 * pad[d]
         /\ 2 * out[a].box[d] - out[a].box[d + 2]
              < 2 * (InputSize - pad[d] + 1)
<1> DEFINE m == LongSide(image)
           far == 2 * out[a].box[d] + out[a].box[d + 2]
           near == 2 * out[a].box[d] - out[a].box[d + 2]
<1>1. m \in Nat \ {0} /\ image[d] \in Nat /\ InputSize \in Nat /\ pad[d] \in Nat
  BY PostprocessConstants DEF PostprocessConstants, TypeOK, LongSide
<1>2. far \in Int /\ near \in Int
  <2>1. out[a].box \in Int \X Int \X Nat \X Nat
    BY PostprocessConstants DEF PostprocessConstants, TypeOK, Tensors, Decoded
  <2>2. out[a].box[d] \in Int /\ out[a].box[d + 2] \in Int
    BY <2>1
  <2> QED
    BY <2>2
<1> HIDE DEF m, far, near
<1>3. /\ (near - 2 * pad[d]) * m \in Int /\ (far - 2 * pad[d]) * m \in Int
      /\ image[d] * 2 * InputSize \in Int
  BY <1>1, <1>2
<1>4. Low(a, d) < High(a, d)
  BY DEF Decoded
<1>5. /\ Low(a, d) = Larger(0, (near - 2 * pad[d]) * m)
      /\ High(a, d) = Smaller(image[d] * 2 * InputSize, (far - 2 * pad[d]) * m)
  BY DEF Low, High, PadOf, m, far, near
<1>6. /\ 0 < (far - 2 * pad[d]) * m
      /\ (near - 2 * pad[d]) * m < image[d] * 2 * InputSize
  BY <1>3, <1>4, <1>5 DEF Larger, Smaller
<1>7. far > 2 * pad[d]
  BY <1>1, <1>2, <1>6, Cancelled
<1>8. PICK n \in Int : /\ image[d] * InputSize <= (n + 1) * m
                       /\ 2 * pad[d] <= InputSize - n
  <2>1. image \in Images
    BY DEF TypeOK
  <2> QED
    BY <2>1, PadFits DEF m
<1>9. (near - 2 * pad[d]) * m < (2 * (n + 1)) * m
  <2>1. image[d] * 2 * InputSize = 2 * (image[d] * InputSize)
    BY <1>1
  <2>2. (2 * (n + 1)) * m = 2 * ((n + 1) * m)
    BY <1>1, <1>8
  <2>3. image[d] * InputSize \in Int /\ (n + 1) * m \in Int
    BY <1>1
  <2> QED
    BY <1>3, <1>6, <1>8, <2>1, <2>2, <2>3
<1>10. near - 2 * pad[d] < 2 * (n + 1)
  BY <1>1, <1>2, <1>9, Cancelled
<1>11. near < 2 * (InputSize - pad[d] + 1)
  BY <1>1, <1>2, <1>8, <1>10
<1> QED
  BY <1>7, <1>11 DEF far, near

\* The paddings are those of process(), and what is listed was decoded.
Framed ==
  /\ stage # "letterbox" => \A d \in 1..2 : pad[d] \in Pads(image, image[d])
  /\ \A i \in DOMAIN dets : dets[i] \in Decoded

LEMMA FramedStep ==
  ASSUME PInv, Framed, [Next]_vars
  PROVE  Framed'
<1>1. ASSUME UNCHANGED <<image, out>>
      PROVE  \A d \in 1..2 : \A p :
               p \in Pads(image, image[d])' <=> p \in Pads(image, image[d])
  BY <1>1 DEF Pads, Scaled, LongSide
<1>2. CASE Letterboxes
  <2>1. dets' = <<>>
    BY <1>2 DEF Letterboxes, PInv, Listed
  <2>2. \A d \in 1..2 : pad'[d] \in Pads(image, image[d])
    BY <1>2 DEF Letterboxes
  <2> QED
    BY <1>1, <1>2, <2>1, <2>2 DEF Letterboxes, Framed
<1>3. CASE Sorts
  <2>1. dets' \in [1..Cardinality(Decoded) -> Decoded]
    BY <1>3 DEF Sorts, Orders
  <2>2. Decoded' = Decoded
    BY <1>3, Frozen DEF Sorts
  <2> QED
    BY <1>1, <1>3, <2>1, <2>2 DEF Sorts, Framed
<1>4. CASE Visits \/ Returns \/ UNCHANGED vars
  <2>1. UNCHANGED <<image, pad, out, dets>>
    BY <1>4 DEF Visits, Returns, vars
  <2>2. stage' # "letterbox" => stage # "letterbox"
    BY <1>4 DEF Visits, Returns, vars
  <2>3. Decoded' = Decoded
    BY <2>1, Frozen
  <2> QED
    BY <1>1, <2>1, <2>2, <2>3 DEF Framed
<1> QED
  BY <1>2, <1>3, <1>4 DEF Next

\* Nothing is detected in the grey border, whatever the size of the image and
\* wherever a product is rounded (trt_detector_node.cpp:214-219,
\* postprocess.cpp:33-38).
THEOREM NothingInBorderTheorem == Spec => []NothingInBorder
<1>1. Init => Framed
  BY DEF Init, Framed
<1>2. PInv /\ Framed /\ [Next]_vars => Framed'
  BY FramedStep
<1>3. PInv /\ Framed => NothingInBorder
  <2> SUFFICES ASSUME PInv, Framed, stage \in {"suppress", "done"},
                      NEW i \in DOMAIN dets, NEW d \in 1..2
               PROVE  LET box == out[dets[i]].box
                      IN  /\ 2 * box[d] + box[d + 2] > 2 * pad[d]
                          /\ 2 * box[d] - box[d + 2]
                               < 2 * (InputSize - pad[d] + 1)
    BY DEF NothingInBorder
  <2>1. TypeOK /\ dets[i] \in Decoded /\ pad[d] \in Pads(image, image[d])
    BY DEF PInv, Framed
  <2> QED
    BY <2>1, DecodedInside
<1> QED
  BY Invariance, <1>1, <1>2, <1>3, PTL DEF Spec
=============================================================================
