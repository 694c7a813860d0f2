---------------------------- MODULE LoadDocument ----------------------------
(***************************************************************************)
(* A document becomes pages with words (redaction/document.py,             *)
(* load_document; redaction/textgate.py): its pages are counted, their     *)
(* text layer is read as a whole, they are rendered one by one against a   *)
(* pixel budget, and those whose text cannot be trusted are read by OCR.   *)
(***************************************************************************)
EXTENDS Naturals, Sequences, SequencesExt, FiniteSetsExt, Functions

CONSTANTS
  MaxPages,  \* max_pages
  MaxPage,   \* MAX_PAGE_RENDER_PIXELS
  MaxTotal,  \* MAX_DOCUMENT_RENDER_PIXELS
  MorePages, \* bound: pages of a document beyond max_pages
  OcrModes   \* the values of ocr_enabled that are looked at

ASSUME LoadAssumption ==
  /\ {MaxPages, MaxPage, MaxTotal} \subseteq Nat \ {0} /\ MorePages \in Nat
  /\ OcrModes \subseteq BOOLEAN

VARIABLES
  file,     \* what the document is like
  ocr,      \* ocr_enabled
  step,     \* what load_document does next
  layer,    \* per page: its text layer is "read", "unusable" or "absent"
  counted,  \* pixels counted against the budget
  rendered, \* pixels of the pages rendered
  toRead,   \* pages OCR has still to read
  source    \* where the words of each page come from

loadVars == <<file, ocr, step, layer, counted, rendered, toRead, source>>

\* paints: an annotation or a form field paints text; garbled: the text layer
\* is mojibake, too short or without heights; broken: reading it raises.
Page == [paints : BOOLEAN, garbled : BOOLEAN, broken : BOOLEAN, pixels : 0 .. MaxPage + 1]

\* agrees: pdfplumber and PDFium count the same pages.
File ==
  [kind : {"pdf", "image"}, agrees : BOOLEAN,
   pages : BoundedSeq(Page, MaxPages + MorePages)]

Index == DOMAIN file.pages
Refused == {"document_empty", "too_many_pages", "page_dimensions_too_large",
            "document_dimensions_too_large", "undecodable", "ocr_unavailable"}

LoadTypeOK ==
  /\ step \in {"count", "extract", "render", "frames", "trust", "read", "loaded"} \cup Refused
  /\ layer \in [Index -> {"read", "unusable", "absent"}]
  /\ Len(source) <= Len(file.pages)
  /\ \A i \in DOMAIN source : source[i] \in {"layer", "none", "ocr"}
  /\ toRead \subseteq Index
  /\ counted \in Nat /\ rendered \in Nat

LoadInit ==
  /\ file \in File /\ ocr \in OcrModes
  /\ file.kind = "image" => file.agrees /\ \A i \in Index : ~ file.pages[i].paints
  /\ step = "count"
  /\ layer = [i \in Index |-> "absent"]
  /\ counted = 0 /\ rendered = 0 /\ toRead = {} /\ source = <<>>

-----------------------------------------------------------------------------

CountPages ==
  /\ step = "count"
  /\ step' = IF file.kind = "image" THEN "frames"
             ELSE IF file.pages = <<>> THEN "document_empty"
             ELSE IF Len(file.pages) > MaxPages THEN "too_many_pages"
             ELSE "extract"
  /\ UNCHANGED <<file, ocr, layer, counted, rendered, toRead, source>>

\* A page that paints text of its own is passed over before it is read.
Raises(p) == p.broken /\ ~ p.paints

PageLayer(p) == IF p.paints THEN "unusable" ELSE "read"

\* _pdf_words: if any page raises, or the pages are not those PDFium counts,
\* no page has a text layer, and none is marked.
TextLayers ==
  [i \in Index |-> IF ~ file.agrees \/ \E k \in Index : Raises(file.pages[k])
                   THEN "absent" ELSE PageLayer(file.pages[i])]

ExtractWords ==
  /\ step = "extract" /\ step' = "render"
  /\ layer' = TextLayers
  /\ UNCHANGED <<file, ocr, counted, rendered, toRead, source>>

\* _add_pixel_budget.
Budget(pixels) ==
  IF pixels \notin 1 .. MaxPage THEN "page_dimensions_too_large"
  ELSE IF counted + pixels > MaxTotal THEN "document_dimensions_too_large"
  ELSE "within"

RenderPage(i) ==
  /\ step = "render" /\ i = Len(source) + 1 /\ i \in Index
  /\ LET verdict == Budget(file.pages[i].pixels) IN
       IF verdict = "within"
         THEN /\ counted' = counted + file.pages[i].pixels
              /\ rendered' = rendered + file.pages[i].pixels
              /\ source' = Append(source, IF layer[i] = "read" THEN "layer" ELSE "none")
              /\ UNCHANGED step
         ELSE step' = verdict /\ UNCHANGED <<counted, rendered, source>>
  /\ UNCHANGED <<file, ocr, layer, toRead>>

\* _render_image: a frame is decoded before its pixels are counted.
DecodeFrame(i) ==
  /\ step = "frames" /\ i = Len(source) + 1 /\ i \in Index
  /\ IF i > MaxPages THEN step' = "too_many_pages" /\ UNCHANGED <<counted, rendered, source>>
     ELSE IF file.pages[i].broken
       THEN step' = "undecodable" /\ UNCHANGED <<counted, rendered, source>>
     ELSE /\ rendered' = rendered + file.pages[i].pixels
          /\ LET verdict == Budget(file.pages[i].pixels) IN
               IF verdict = "within"
                 THEN /\ counted' = counted + file.pages[i].pixels
                      /\ source' = Append(source, "none") /\ UNCHANGED step
                 ELSE step' = verdict /\ UNCHANGED <<counted, source>>
  /\ UNCHANGED <<file, ocr, layer, toRead>>

AllRendered ==
  /\ step \in {"render", "frames"} /\ Len(source) = Len(file.pages)
  /\ step' = IF file.pages = <<>> THEN "document_empty" ELSE "trust"
  /\ UNCHANGED <<file, ocr, layer, counted, rendered, toRead, source>>

\* Mutant: a page without a word is taken to have nothing to read.
GarbageUnlessEmpty(i) == source[i] = "layer" /\ file.pages[i].garbled

\* text_layer_is_garbage: too few characters, none among them.
Garbage(i) == source[i] = "none" \/ file.pages[i].garbled

TrustLayers ==
  /\ step = "trust"
  /\ LET marked == {i \in Index : layer[i] = "unusable"} IN
       /\ toRead' = IF ocr THEN marked \cup {i \in Index : Garbage(i)} ELSE {}
       /\ step' = IF ocr THEN "read" ELSE IF marked # {} THEN "ocr_unavailable" ELSE "loaded"
  /\ UNCHANGED <<file, ocr, layer, counted, rendered, source>>

OcrPage(i) ==
  /\ step = "read" /\ i \in toRead
  /\ \/ /\ toRead' = toRead \ {i}
        /\ source' = [source EXCEPT ![i] = "ocr"]
        /\ UNCHANGED step
     \/ step' = "ocr_unavailable" /\ UNCHANGED <<toRead, source>>
  /\ UNCHANGED <<file, ocr, layer, counted, rendered>>

AllRead ==
  /\ step = "read" /\ toRead = {} /\ step' = "loaded"
  /\ UNCHANGED <<file, ocr, layer, counted, rendered, toRead, source>>

LoadNext ==
  \/ CountPages \/ ExtractWords \/ AllRendered \/ TrustLayers \/ AllRead
  \/ \E i \in Index : RenderPage(i) \/ DecodeFrame(i) \/ OcrPage(i)

LoadSpec == LoadInit /\ [][LoadNext]_loadVars

-----------------------------------------------------------------------------

\* A PDF never has more pixels rendered than the budget, an image no more than
\* one frame past it; and what is loaded is within every limit.
BudgetHolds ==
  /\ rendered <= (IF file.kind = "pdf" THEN MaxTotal ELSE MaxTotal + MaxPage + 1)
  /\ step = "loaded" =>
       /\ Len(source) = Len(file.pages) /\ Len(source) \in 1 .. MaxPages
       /\ rendered = counted /\ counted <= MaxTotal

\* With OCR, no page goes on with a text layer that is not all that is painted
\* on it, nor with one that cannot be read, whatever went wrong reading it.
PaintedTextRead ==
  step = "loaded" /\ ocr => \A i \in Index :
    file.pages[i].paints \/ file.pages[i].garbled \/ Raises(file.pages[i]) => source[i] = "ocr"

\* load_document keeps to its budget, and no painted text goes unread.
LoadSafe == LoadTypeOK /\ BudgetHolds /\ PaintedTextRead

=============================================================================
