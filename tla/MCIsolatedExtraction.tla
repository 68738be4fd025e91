----------------------- MODULE MCIsolatedExtraction -----------------------
(***************************************************************************)
(* Instances of IsolatedExtraction for TLC: documents of up to three pages *)
(* of every kind, three bytes of text a page and five a document.          *)
(***************************************************************************)
EXTENDS IsolatedExtraction

Text(chars, width, json) == [chars |-> chars, width |-> width, json |-> json, blank |-> FALSE]

Short   == Text(2, 1, 1)
Long    == Text(4, 1, 1)    \* more than a page may have
Wide    == Text(2, 2, 2)    \* two bytes a character
Control == Text(3, 1, 6)    \* characters that JSON escapes
White   == [Text(2, 1, 2) EXCEPT !.blank = TRUE]

\* A page with this text layer, of ordinary size, and what OCR makes of it.
Page(native, image, recognised) ==
  [parses |-> TRUE, native |-> native, image |-> image, pixels |-> 1, ocr |-> "reads",
   text |-> recognised]

Native(text) == Page(text, FALSE, NoText)
Scan(text) == Page(Short, TRUE, text)
Unread(native) == [Page(native, TRUE, NoText) EXCEPT !.ocr = "fails"]

Pages ==
  {Native(Short), Native(Long), Native(Wide), Native(Control), Scan(Long), Scan(Wide),
   Page(White, FALSE, NoText), Unread(Wide), Unread(White),
   [Scan(Long) EXCEPT !.pixels = 0], [Scan(Long) EXCEPT !.pixels = 2],
   [Native(Short) EXCEPT !.parses = FALSE]}

AllDocuments ==
  [opens : {TRUE}, pages : UNION {[1 .. n -> Pages] : n \in 1 .. 3}]
    \cup {[opens |-> FALSE, pages |-> <<>>], [opens |-> TRUE, pages |-> <<>>],
          [opens |-> TRUE, pages |-> [i \in 1 .. 4 |-> Native(Short)]]}
=============================================================================
