----------------------------- MODULE ImageMasking -----------------------------
(***************************************************************************)
(* The geometry of qaptr-privacy: recognize.rs maps what a recognizer      *)
(* reports into pixels, mask.rs blackens it, coverage.rs checks the result *)
(* and recall.rs measures detections against labels.  Pure definitions; a  *)
(* pixel is a pair.  Coordinates are f32 numbers, counted in units of      *)
(* 1/Grid of an image's side: with Grid = 2^149 every finite f32 is a      *)
(* whole number of them, one of at most Significand = 2^24 steps of a      *)
(* power of two.                                                           *)
(***************************************************************************)
EXTENDS Integers, SequencesExt

CONSTANTS
  Grid,        \* units in 1.0
  Significand, \* steps a significand counts
  Spacings,    \* the widths of a step
  NoRect

ASSUME GridAssumption ==
  /\ Grid \in Nat \ {0} /\ NoRect \notin [x : Nat, y : Nat, w : Nat, h : Nat]
  /\ Significand \in Nat /\ Significand > 1
  /\ Spacings \subseteq Nat \ {0} /\ 1 \in Spacings
  /\ \A u \in Spacings : /\ u # 1 => \E v \in Spacings : u = 2 * v
                         /\ u <= Grid => Grid % u = 0
  /\ \E u \in Spacings : u >= 2 * Grid

-----------------------------------------------------------------------------
(* Arithmetic of f32: the exact result, rounded to the nearest number the  *)
(* format holds, to the even step when two are as near.                    *)

Holds(u, n) == n < u * Significand
Spacing(n) == CHOOSE u \in Spacings : Holds(u, n) /\ \A v \in Spacings : Holds(v, n) => u <= v

Round(n) ==
  LET u == Spacing(n)
      q == n \div u
      rest == n % u
  IN IF 2 * rest > u \/ (2 * rest = u /\ q % 2 = 1) THEN (q + 1) * u ELSE q * u

Plus(a, b) == Round(a + b)
OneMinus(a) == Round(Grid - a)
Scaled(a, side) == Round(a * side)

Orientation == {"up", "down", "left", "right"}

-----------------------------------------------------------------------------
(* recognize.rs *)

(* NormalizedRect::new: within the unit square, as far as the rounded sums *)
(* tell, though it may have no extent.                                     *)
F32 == {n \in 0..Grid : Round(n) = n}
NormalizedRect ==
  {r \in [x : F32, y : F32, w : F32, h : F32] : Plus(r.x, r.w) <= Grid /\ Plus(r.y, r.h) <= Grid}

TransformPoint(x, y, o) ==
  CASE o = "up" -> <<x, y>>
    [] o = "down" -> <<OneMinus(x), OneMinus(y)>>
    [] o = "left" -> <<y, OneMinus(x)>>
    [] o = "right" -> <<OneMinus(y), x>>

(* A quarter turn swaps the sides of the frame. *)
Frame(size, o) == IF o \in {"left", "right"} THEN [w |-> size.h, h |-> size.w] ELSE size

Corners(r, o) ==
  {TransformPoint(x, y, o) : x \in {r.x, Plus(r.x, r.w)}, y \in {r.y, Plus(r.y, r.h)}}
Floor(n) == n \div Grid
Ceil(n) == (n + Grid - 1) \div Grid
Clamped(n, side) == IF n > side THEN side ELSE n
Monus(a, b) == IF a > b THEN a - b ELSE 0

(* map_normalized_rect: from a lower-left to a top-left origin, outwards   *)
(* to whole pixels; but an edge that the arithmetic has moved over a       *)
(* pixel's border is rounded from there.  A side is an f32 as it is.       *)
MapNormalizedRect(r, size, o) ==
  LET f == Frame(size, o)
      xs == {c[1] : c \in Corners(r, o)}
      ys == {c[2] : c \in Corners(r, o)}
      left == Clamped(Floor(Scaled(Min(xs), f.w)), f.w)
      right == Clamped(Ceil(Scaled(Max(xs), f.w)), f.w)
      top == Clamped(Floor(Scaled(OneMinus(Max(ys)), f.h)), f.h)
      bottom == Clamped(Ceil(Scaled(OneMinus(Min(ys)), f.h)), f.h)
  IN [x |-> left, y |-> top, w |-> Monus(right, left), h |-> Monus(bottom, top)]

-----------------------------------------------------------------------------
(* mask.rs.  An image is where it came from, its size and its black        *)
(* pixels; its hash is the image itself.                                   *)

Pixels(r) == (r.x .. r.x + r.w - 1) \X (r.y .. r.y + r.h - 1)
Frameful(size) == (0 .. size.w - 1) \X (0 .. size.h - 1)

ValidRect(r, size) ==
  /\ r.w > 0 /\ r.h > 0
  /\ r.x + r.w <= size.w /\ r.y + r.h <= size.h

(* Plausible bug: what was mapped is masked, and nothing around it. *)
UndilatedRect(r, size) == r

(* dilated_rect: one pixel on every side, within the image. *)
DilatedRect(r, size) ==
  LET left == IF r.x = 0 THEN 0 ELSE r.x - 1
      top == IF r.y = 0 THEN 0 ELSE r.y - 1
      right == IF r.x + r.w + 1 > size.w THEN size.w ELSE r.x + r.w + 1
      bottom == IF r.y + r.h + 1 > size.h THEN size.h ELSE r.y + r.h + 1
  IN [x |-> left, y |-> top, w |-> right - left, h |-> bottom - top]

MaskImage(image, detections) ==
  [image EXCEPT !.black = @ \cup UNION {Pixels(DilatedRect(d.rect, image.size)) : d \in Range(detections)}]

-----------------------------------------------------------------------------
(* coverage.rs *)

CoverageProof(masked, detections) == [hash |-> masked, entries |-> detections]

(* CoverageProof::verify *)
Verifies(proof, image, detections) ==
  /\ proof.hash = image
  /\ proof.entries = detections
  /\ \A e \in Range(proof.entries) : Pixels(e.rect) \subseteq image.black

RectanglesOverlap(a, b) ==
  /\ a.x < b.x + b.w /\ b.x < a.x + a.w
  /\ a.y < b.y + b.h /\ b.y < a.y + a.h

(* Plausible bug: a region counts as residual only where it was before. *)
ResidualExact(proof, rerun) ==
  {i \in DOMAIN rerun : \E e \in Range(proof.entries) : e.kind = rerun[i].kind /\ e.rect = rerun[i].rect}

(* verify_masked_recognition: what is found again where it was masked. *)
Residual(proof, rerun) ==
  {i \in DOMAIN rerun : \E e \in Range(proof.entries) :
     e.kind = rerun[i].kind /\ RectanglesOverlap(e.rect, rerun[i].rect)}

-----------------------------------------------------------------------------
(* recall.rs *)

Shared(a, b) == Cardinality(Pixels(a.rect) \cap Pixels(b.rect))
Joint(a, b) == Cardinality(Pixels(a.rect) \cup Pixels(b.rect))

(* The iou threshold is t[1] / t[2]. *)
Reaches(a, b, t) == Shared(a, b) * t[2] >= t[1] * Joint(a, b)
Better(label, d, e) == Shared(label, d) * Joint(label, e) > Shared(label, e) * Joint(label, d)

(* The first of the best unused detections of the label's own kind. *)
BestMatch(truth, found, used, t) ==
  LET able == {i \in DOMAIN found \ used : found[i].kind = truth.kind /\ Reaches(truth, found[i], t)}
      best == {i \in able : \A j \in able : ~ Better(truth, found[j], found[i])}
  IN IF able = {} THEN {} ELSE {Min(best)}

(* measure_recall_with_threshold walks the labels in order. *)
MeasureRecall(labels, found, t) ==
  FoldLeft(LAMBDA report, i :
             LET match == BestMatch(labels[i], found, report.used, t)
             IN [used |-> report.used \cup match,
                 matched |-> report.matched + Cardinality(match),
                 missed |-> IF match = {} THEN report.missed \cup {i} ELSE report.missed],
           [used |-> {}, matched |-> 0, missed |-> {}],
           [i \in DOMAIN labels |-> i])

=============================================================================
