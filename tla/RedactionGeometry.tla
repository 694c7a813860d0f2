------------------------- MODULE RedactionGeometry --------------------------
(***************************************************************************)
(* Where a box of the manifest lands (redaction/document.py,               *)
(* _normalized_box; redaction/renderer.py): a word found on the raster, or *)
(* a box the reviewer drew, in thousandths of the page, is painted on the  *)
(* raster, the raster is turned, and the output is rendered once more to   *)
(* check that the turned box is black.  A word OCR found lies on whole     *)
(* pixels, one of the text layer on fractions of them.                     *)
(***************************************************************************)
EXTENDS PixelMath

CONSTANTS
  Units,    \* a box counts in these fractions of a page (1000)
  Sizes,    \* widths and heights of rasters, in pixels
  Grain,    \* the edges of words lie on such fractions of a pixel
  Dpi,      \* render_dpi
  CheckDpi, \* resolution of the check (scale 2 of 72)
  Padding,  \* padding_pixels
  MinBox    \* MIN_BOX_THOUSANDTHS

ASSUME GeometryAssumption ==
  /\ {Units, Grain, Dpi, CheckDpi} \subseteq Nat \ {0}
  /\ {Padding, MinBox} \subseteq Nat
  /\ Sizes \subseteq [width : Nat \ {0}, height : Nat \ {0}]

VARIABLES
  size,     \* of the raster
  word,     \* where the word is the box is for, in fractions of a pixel
  box,      \* the box of the detection
  rotation, \* the rotation of the manifest
  painted,  \* the pixels painted black, on the turned raster
  crop,     \* the pixels looked at, on the turned page at CheckDpi
  verdict   \* how far the document is

geometryVars == <<size, word, box, rotation, painted, crop, verdict>>

\* The raster in fractions of a pixel.
Fine(s) == [width |-> Grain * s.width, height |-> Grain * s.height]

\* From the first to the last, without the last.
Area(width, height) ==
  {a \in [x1 : 0 .. width, y1 : 0 .. height, x2 : 0 .. width, y2 : 0 .. height] :
     a.x1 < a.x2 /\ a.y1 < a.y2}

GeometryTypeOK ==
  /\ size \in Sizes /\ rotation \in {0, 90, 180, 270}
  /\ box.x1 \in 0 .. Units - 1 /\ box.y1 \in 0 .. Units - 1
  /\ box.x2 \in box.x1 + 1 .. Units /\ box.y2 \in box.y1 + 1 .. Units
  /\ verdict \in {"found", "painted", "degenerate", "empty", "checked"}

\* The box of a word that lies there, never without an area.
NormalizedEdge(first, last, extent) ==
  LET low  == Most(0, Least(Units - 1, Rounded(Units * first, extent)))
      high == Most(low + 1, Least(Units, Rounded(Units * last, extent)))
  IN <<low, high>>

NormalizedBox(w, s) ==
  LET x == NormalizedEdge(w.x1, w.x2, s.width) y == NormalizedEdge(w.y1, w.y2, s.height) IN
    [x1 |-> x[1], y1 |-> y[1], x2 |-> x[2], y2 |-> y[2]]

\* rotate_box: where a box lands after the page is turned clockwise.
RotateBox(b, turn) ==
  CASE turn = 0   -> b
    [] turn = 90  -> [x1 |-> Units - b.y2, y1 |-> b.x1, x2 |-> Units - b.y1, y2 |-> b.x2]
    [] turn = 180 -> [x1 |-> Units - b.x2, y1 |-> Units - b.y2, x2 |-> Units - b.x1, y2 |-> Units - b.y1]
    [] turn = 270 -> [x1 |-> b.y1, y1 |-> Units - b.x2, x2 |-> b.y2, y2 |-> Units - b.x1]

\* _pixel_box, between the edges it gives.
PixelBox(b, width, height, padding) ==
  [x1 |-> Most(0, Rounded(b.x1 * width, Units) - padding),
   y1 |-> Most(0, Rounded(b.y1 * height, Units) - padding),
   x2 |-> Least(width, Rounded(b.x2 * width, Units) + padding),
   y2 |-> Least(height, Rounded(b.y2 * height, Units) + padding)]

\* draw.rectangle paints its far edges too, within the raster.
Rectangle(a, s) ==
  [a EXCEPT !.x2 = Least(@ + 1, s.width), !.y2 = Least(@ + 1, s.height)]

\* The raster is turned clockwise, its pixels with it.
TurnPixels(a, s, turn) ==
  CASE turn = 0   -> a
    [] turn = 90  -> [x1 |-> s.height - a.y2, y1 |-> a.x1, x2 |-> s.height - a.y1, y2 |-> a.x2]
    [] turn = 180 -> [x1 |-> s.width - a.x2, y1 |-> s.height - a.y2,
                      x2 |-> s.width - a.x1, y2 |-> s.height - a.y1]
    [] turn = 270 -> [x1 |-> a.y1, y1 |-> s.width - a.x2, x2 |-> a.y2, y2 |-> s.width - a.x1]

TurnedSize(s, turn) ==
  IF turn \in {90, 270} THEN [width |-> s.height, height |-> s.width] ELSE s

\* PDFium renders a page on as many whole pixels as it takes.
CheckPixels(extent) == Ceiling(extent * CheckDpi, Dpi)

-----------------------------------------------------------------------------

Nothing == [x1 |-> 0, y1 |-> 0, x2 |-> 0, y2 |-> 0]

GeometryInit ==
  /\ size \in Sizes /\ rotation \in {0, 90, 180, 270}
  /\ word \in Area(Fine(size).width, Fine(size).height)
  /\ box = NormalizedBox(word, Fine(size))
  /\ painted = Nothing /\ crop = Nothing /\ verdict = "found"

\* Mutant: boxes are painted without padding.
PaintBare ==
  /\ verdict = "found" /\ verdict' = "painted"
  /\ painted' = TurnPixels(Rectangle(PixelBox(box, size.width, size.height, 0), size), size, rotation)
  /\ UNCHANGED <<size, word, box, rotation, crop>>

\* redact_image, then the turn of render_redacted_pdf.
Paint ==
  /\ verdict = "found" /\ verdict' = "painted"
  /\ painted' =
       TurnPixels(Rectangle(PixelBox(box, size.width, size.height, Padding), size), size, rotation)
  /\ UNCHANGED <<size, word, box, rotation, crop>>

Degenerate == box.x2 - box.x1 < MinBox \/ box.y2 - box.y1 < MinBox

\* validate_flattened_pdf: broken boxes are refused, and what was painted is
\* looked at on a page of its own resolution.
Check ==
  /\ verdict = "painted"
  /\ LET s == TurnedSize(size, rotation)
         c == PixelBox(RotateBox(box, rotation), CheckPixels(s.width), CheckPixels(s.height), 0)
     IN /\ crop' = c
        /\ verdict' = IF Degenerate THEN "degenerate"
                      ELSE IF c.x1 = c.x2 \/ c.y1 = c.y2 THEN "empty" ELSE "checked"
  /\ UNCHANGED <<size, word, box, rotation, painted>>

GeometryNext == Paint \/ Check

GeometrySpec == GeometryInit /\ [][GeometryNext]_geometryVars

-----------------------------------------------------------------------------

\* The painted pixels hide the word they are for, with every pixel it has a
\* part of, though its box was rounded to thousandths and back.
WordPainted ==
  verdict # "found" =>
    LET w == TurnPixels(word, Fine(size), rotation) IN
      /\ Grain * painted.x1 <= w.x1 /\ Grain * painted.y1 <= w.y1
      /\ w.x2 <= Grain * painted.x2 /\ w.y2 <= Grain * painted.y2

\* On the scale of the raster, what the check looks at is painted: a document
\* whose boxes were painted does not fail for where it was looked at.
CheckSeesPaint ==
  verdict = "checked" =>
    LET s == TurnedSize(size, rotation)
        cw == CheckPixels(s.width) ch == CheckPixels(s.height)
    IN /\ painted.x1 * cw <= crop.x1 * s.width  /\ crop.x2 * s.width  <= painted.x2 * cw
       /\ painted.y1 * ch <= crop.y1 * s.height /\ crop.y2 * s.height <= painted.y2 * ch

\* A word is hidden by its box, and the check of the output finds it so.
GeometrySafe == GeometryTypeOK /\ WordPainted /\ CheckSeesPaint

=============================================================================
