-------------------------- MODULE MergeDetections ---------------------------
(***************************************************************************)
(* The detections of a page are merged before they are drawn               *)
(* (redaction/anchor.py, merge_page_detections): in reading order, each    *)
(* one widens the first merged detection it overlaps, or is kept.          *)
(***************************************************************************)
EXTENDS PixelMath, Sequences

CONSTANTS
  Detections, \* detections to merge
  Groups,     \* pairs of a page and a category
  Side        \* thousandths of a page, scaled down

ASSUME MergeAssumption ==
  Detections \in Nat \ {0} /\ Groups \in Nat \ {0} /\ Side \in Nat \ {0}

Id == 1 .. Detections

Box == {b \in [x1 : 0 .. Side, y1 : 0 .. Side, x2 : 0 .. Side, y2 : 0 .. Side] :
          b.x1 < b.x2 /\ b.y1 < b.y2}

\* A detection keeps the id of the first that was merged into it.
Detection == [id : Id, group : 1 .. Groups, box : Box]

VARIABLES
  input,  \* the detections, by id
  left,   \* ids still to be looked at
  merged  \* merged so far

mergeVars == <<input, left, merged>>

MergeTypeOK ==
  /\ input \in [Id -> [group : 1 .. Groups, box : Box]]
  /\ left \subseteq Id
  /\ merged \in Seq(Detection)

MergeInit ==
  /\ input \in [Id -> [group : 1 .. Groups, box : Box]]
  /\ left = Id
  /\ merged = <<>>

Overlaps(a, b) == ~ (a.x2 < b.x1 \/ b.x2 < a.x1 \/ a.y2 < b.y1 \/ b.y2 < a.y1)

\* The box around both.
Hull(a, b) ==
  [x1 |-> Least(a.x1, b.x1), y1 |-> Least(a.y1, b.y1),
   x2 |-> Most(a.x2, b.x2), y2 |-> Most(a.y2, b.y2)]

\* The order of sorted(): by page and category, then y1, then x1, then stable.
Before(i, j) ==
  LET a == input[i] b == input[j] IN
    \/ a.group < b.group
    \/ a.group = b.group /\ a.box.y1 < b.box.y1
    \/ a.group = b.group /\ a.box.y1 = b.box.y1 /\ a.box.x1 < b.box.x1
    \/ a.group = b.group /\ a.box.y1 = b.box.y1 /\ a.box.x1 = b.box.x1 /\ i < j

IsNext(i) == i \in left /\ \A j \in left \ {i} : Before(i, j)

\* Mutant: the category and the page are not looked at.
MeetsAny(i, k) == Overlaps(merged[k].box, input[i].box)

\* merged[k] is of the same page and category and overlaps the detection.
Meets(i, k) == merged[k].group = input[i].group /\ Overlaps(merged[k].box, input[i].box)

FirstMet(i, k) ==
  /\ k \in DOMAIN merged /\ Meets(i, k)
  /\ \A l \in DOMAIN merged : l < k => ~ Meets(i, l)

\* target.model_copy with the wider box.
Widened(m, b) == [m EXCEPT !.box = Hull(@, b)]

Widen(i, k) ==
  /\ IsNext(i) /\ FirstMet(i, k)
  /\ merged' = [merged EXCEPT ![k] = Widened(@, input[i].box)]
  /\ left' = left \ {i}
  /\ UNCHANGED input

Keep(i) ==
  /\ IsNext(i) /\ \A k \in DOMAIN merged : ~ Meets(i, k)
  /\ merged' = Append(merged, [id |-> i, group |-> input[i].group, box |-> input[i].box])
  /\ left' = left \ {i}
  /\ UNCHANGED input

MergeNext == \E i \in Id : Keep(i) \/ \E k \in DOMAIN merged : Widen(i, k)

MergeSpec == MergeInit /\ [][MergeNext]_mergeVars

-----------------------------------------------------------------------------

Inside(b, c) == c.x1 <= b.x1 /\ c.y1 <= b.y1 /\ b.x2 <= c.x2 /\ b.y2 <= c.y2

\* What was detected stays covered, on its page and under its category,
\* however the boxes are merged.
Covered ==
  \A i \in Id \ left : \E k \in DOMAIN merged :
    merged[k].group = input[i].group /\ Inside(input[i].box, merged[k].box)

\* A merged box ends where detections of its page and category end: merging
\* blacks out nothing beyond the hull of what was detected.
NothingBeyondHull ==
  \A k \in DOMAIN merged : LET m == merged[k] IN
    \A side \in {"x1", "y1", "x2", "y2"} : \E i \in Id \ left :
      input[i].group = m.group /\ input[i].box[side] = m.box[side]

\* The reviewer edits detections by id: each merged one has an id of its own.
IdsDistinct ==
  \A k, l \in DOMAIN merged : merged[k].id = merged[l].id => k = l

\* merge_page_detections loses no detection, adds nothing, keeps the ids apart.
MergeSafe == MergeTypeOK /\ Covered /\ NothingBeyondHull /\ IdsDistinct

=============================================================================
