------------------------ MODULE IsolatedExtraction ------------------------
(***************************************************************************)
(* The extraction of one uploaded document (ingestion.py): a child process *)
(* reads the pages one after the other and leaves its result in a file,    *)
(* and the request that started it waits, kills it when it takes too long, *)
(* checks what it left and removes it.                                     *)
(*                                                                         *)
(* A text is so many characters of one kind: how many bytes each takes in  *)
(* UTF-8 and in the JSON of the result.                                    *)
(***************************************************************************)
EXTENDS Naturals, Sequences

CONSTANTS
  Documents,        \* the uploads there may be
  OcrChoices,       \* whether the OCR engine is installed
  MaxPages,         \* max_pages
  MaxPageText,      \* max_text_bytes_per_page
  MaxTotalText,     \* max_total_text_bytes
  MaxRenderPixels,  \* pixels a page may have when it is rendered
  MinNativeChars,   \* characters that make a text layer believable
  ResultAllowance   \* what the result may be larger than its texts

VARIABLES
  document,  \* the document
  ocr,       \* whether pages can be read by OCR
  child,     \* the child process: where it is, and what it has extracted
  parent,    \* the request: where it is, and what it will raise or return
  pipe,      \* the status the child has sent
  disk       \* what is in the file system: the directory, the files in it

vars == <<document, ocr, child, parent, pipe, disk>>

\* A text, and what there is of a page: its text layer, and what OCR makes of it.
Texts == [chars : Nat, width : Nat \ {0}, json : Nat, blank : BOOLEAN]
PageKinds == [parses : BOOLEAN, native : Texts, image : BOOLEAN, pixels : Nat,
              ocr : {"reads", "fails"}, text : Texts]

ASSUME ExtractionAssumption ==
  /\ Documents \subseteq [opens : BOOLEAN, pages : Seq(PageKinds)]
  /\ {MaxPages, MaxPageText, MaxTotalText} \subseteq Nat \ {0}
  /\ {MaxRenderPixels, MinNativeChars, ResultAllowance} \subseteq Nat
  /\ OcrChoices \subseteq BOOLEAN

-----------------------------------------------------------------------------
(***************************************************************************)
(* Texts and their bounds.                                                 *)
(***************************************************************************)

NoText == [chars |-> 0, width |-> 1, json |-> 1, blank |-> FALSE]

Bytes(text) == text.chars * text.width

\* Without the white space at its ends.
Stripped(text) == IF text.blank THEN NoText ELSE text

Smaller(a, b) == IF a <= b THEN a ELSE b

\* Cut to a number of bytes, never inside a character.
Cut(text, limit) == [text EXCEPT !.chars = Smaller(@, limit \div text.width)]

\* MUTANT: only the limit of a page is applied.
CutToPage(text, total) == Cut(text, MaxPageText)

\* _bounded_page_text: cut to the limit of a page and to what is left of the document's.
BoundedText(text, total) == Cut(text, Smaller(MaxPageText, MaxTotalText - total))

-----------------------------------------------------------------------------
(***************************************************************************)
(* One page (the body of extract_pages' loop).                             *)
(***************************************************************************)

\* A page that is mostly image, or whose text layer is thin.
LooksLikeScan(page) == page.image \/ Stripped(page.native).chars < MinNativeChars

\* Why a page is not rendered, if it is not.
Precheck(page, available) ==
  IF page.pixels = 0                    THEN "invalid_media_box"
  ELSE IF page.pixels > MaxRenderPixels THEN "pixel_limit"
  ELSE IF ~available                    THEN "ocr_unavailable"
  ELSE "none"

\* MUTANT: a text that is cut is not said to be.
KeepUnsaid(method, text, total, code) ==
  [method |-> method, text |-> BoundedText(text, total), truncated |-> FALSE, code |-> code]

Keep(method, text, total, code) ==
  LET kept == BoundedText(text, total)
  IN  [method |-> method, text |-> kept, truncated |-> kept # text, code |-> code]

\* The text a page of a scan gives: OCR's, and where that fails its text layer's.
Scanned(page, total, available) ==
  LET refusal == Precheck(page, available)
      native  == Stripped(page.native)
  IN  IF refusal # "none"        THEN Keep("failed", native, total, refusal)
      ELSE IF page.ocr = "fails" THEN Keep("failed", native, total, "ocr")
      ELSE Keep("ocr", page.text, total, "none")

\* What is recorded of a page when so much text is recorded already.
Extracted(page, total, available) ==
  IF total >= MaxTotalText      THEN Keep("failed", NoText, 0, "total_text_budget_exhausted")
  ELSE IF ~page.parses          THEN Keep("failed", NoText, 0, "page_parse_error")
  ELSE IF ~LooksLikeScan(page)  THEN Keep("native", page.native, total, "none")
  ELSE Scanned(page, total, available)

\* A page is handed to Poppler and Tesseract, which run beside the child.
Rendered(page, total) ==
  /\ total < MaxTotalText /\ page.parses
  /\ LooksLikeScan(page) /\ Precheck(page, ocr) = "none"

-----------------------------------------------------------------------------
(***************************************************************************)
(* The child (_child_main).                                                *)
(***************************************************************************)

Alive == child.at # "none" /\ child.at # "gone"

ChildGoes(label) == child' = [child EXCEPT !.at = label]
OnlyChild == UNCHANGED <<document, ocr, parent, pipe, disk>>

\* It becomes the leader of a process group.
LeadGroup ==
  /\ child.at = "starting"
  /\ child' = [child EXCEPT !.at = "open", !.group = TRUE]
  /\ OnlyChild

OpenDocument ==
  /\ child.at = "open"
  /\ child' = [child EXCEPT
       !.at     = IF document.opens /\ Len(document.pages) \in 1 .. MaxPages THEN "page" ELSE "send",
       !.status = "unreadable"]
  /\ OnlyChild

NextPage == document.pages[Len(child.pages) + 1]

StartHelper ==
  /\ child.at = "page" /\ Len(child.pages) < Len(document.pages)
  /\ Rendered(NextPage, child.total)
  /\ ~child.helper
  /\ child' = [child EXCEPT !.helper = TRUE]
  /\ OnlyChild

ExtractPage ==
  LET page == Extracted(NextPage, child.total, ocr)
  IN  /\ child.at = "page" /\ Len(child.pages) < Len(document.pages)
      /\ Rendered(NextPage, child.total) => child.helper
      /\ child' = [child EXCEPT
           !.pages  = Append(@, [number |-> Len(@) + 1, method |-> page.method, text |-> page.text,
                                 truncated |-> page.truncated, code |-> page.code]),
           !.total  = @ + Bytes(page.text),
           !.helper = FALSE]
      /\ OnlyChild

\* The result is written beside its place; without its directory that fails.
CreateResult ==
  /\ child.at = "page" /\ Len(child.pages) = Len(document.pages)
  /\ IF "dir" \in disk
     THEN ChildGoes("written") /\ disk' = disk \cup {"tmp"}
     ELSE child' = [child EXCEPT !.at = "send", !.status = "error"] /\ UNCHANGED disk
  /\ UNCHANGED <<document, ocr, parent, pipe>>

RenameResult ==
  /\ child.at = "written"
  /\ IF "tmp" \in disk
     THEN /\ disk' = (disk \ {"tmp"}) \cup {"out"}
          /\ child' = [child EXCEPT !.at = "send", !.status = "ok"]
     ELSE /\ UNCHANGED disk
          /\ child' = [child EXCEPT !.at = "send", !.status = "error"]
  /\ UNCHANGED <<document, ocr, parent, pipe>>

SendStatus ==
  /\ child.at = "send"
  /\ pipe' = child.status
  /\ ChildGoes("exiting")
  /\ UNCHANGED <<document, ocr, parent, disk>>

ExitChild ==
  /\ child.at = "exiting"
  /\ ChildGoes("gone")
  /\ OnlyChild

\* A limit or the system ends it at any point; what it started goes on.
ChildDies ==
  /\ Alive
  /\ child' = [child EXCEPT !.at = "gone", !.died = TRUE]
  /\ OnlyChild

\* What runs beside a child that is gone comes to its end.
HelperEnds ==
  /\ child.at = "gone" /\ child.helper
  /\ child' = [child EXCEPT !.helper = FALSE]
  /\ OnlyChild

-----------------------------------------------------------------------------
(***************************************************************************)
(* The request (run_isolated_extraction).                                  *)
(***************************************************************************)

ParentGoes(label) == parent' = [parent EXCEPT !.at = label]

\* It ends with this outcome, after it has cleaned up.
Conclude(outcome) == parent' = [parent EXCEPT !.at = "clean", !.outcome = outcome]

\* The directory is made, then the child is started.
StartChild ==
  /\ parent.at = "start"
  /\ disk' = {"dir"}
  /\ \/ ParentGoes("poll") /\ child' = [child EXCEPT !.at = "starting"]
     \/ Conclude("failed") /\ UNCHANGED child
  /\ UNCHANGED <<document, ocr, pipe>>

\* MUTANT: the wait for a status has no end.
AwaitStatusForever ==
  /\ parent.at = "poll"
  /\ pipe # "empty" \/ ~Alive
  /\ parent' = [parent EXCEPT !.at = "join", !.status = pipe]
  /\ UNCHANGED <<document, ocr, child, pipe, disk>>

\* A status, the end of the pipe, or the end of the time.
AwaitStatus ==
  /\ parent.at = "poll"
  /\ parent' = [parent EXCEPT !.at = "join", !.status = pipe]
  /\ UNCHANGED <<document, ocr, child, pipe, disk>>

\* MUTANT: the child alone is killed.
KillChildOnly ==
  IF child.group THEN child' = [child EXCEPT !.at = "gone"] ELSE UNCHANGED child

\* The child and what runs beside it, once it leads a group: before that there is
\* no group to signal, and nobody is killed.
KillGroup ==
  IF child.group THEN child' = [child EXCEPT !.at = "gone", !.helper = FALSE]
                 ELSE UNCHANGED child

\* The child is given a moment to end; one that has not is killed.
JoinChild ==
  /\ parent.at = "join"
  /\ \/ ~Alive /\ ParentGoes("check") /\ UNCHANGED child
     \/ /\ Alive
        /\ parent' = [parent EXCEPT !.at = "clean", !.outcome = "exceeded", !.missed = ~child.group]
        /\ KillGroup
  /\ UNCHANGED <<document, ocr, pipe, disk>>

Total(sizes) ==
  LET upTo[i \in 0 .. Len(sizes)] == IF i = 0 THEN 0 ELSE upTo[i - 1] + sizes[i]
  IN  upTo[Len(sizes)]

TextBytes(pages) == Total([i \in 1 .. Len(pages) |-> Bytes(pages[i].text)])
ResultSize(pages) == Total([i \in 1 .. Len(pages) |-> pages[i].text.chars * pages[i].text.json])

\* _parse_result_payload.
WellFormed(pages) ==
  /\ Len(pages) \in 1 .. MaxPages
  /\ TextBytes(pages) <= MaxTotalText
  /\ \A i \in 1 .. Len(pages) :
       /\ pages[i].number = i
       /\ pages[i].method \in {"native", "ocr", "failed"}
       /\ Bytes(pages[i].text) <= MaxPageText

SizeAllowed(pages) == ResultSize(pages) <= MaxTotalText + ResultAllowance

\* What the request makes of what the child left.
Verdict ==
  IF parent.status = "unreadable"                                    THEN "unreadable"
  ELSE IF parent.status # "ok" \/ child.died \/ "out" \notin disk THEN "failed"
  ELSE IF ~SizeAllowed(child.pages)                                  THEN "too large"
  ELSE IF ~WellFormed(child.pages)                                   THEN "malformed"
  ELSE "extracted"

CheckResult ==
  /\ parent.at = "check"
  /\ Conclude(Verdict)
  /\ UNCHANGED <<document, ocr, child, pipe, disk>>

KillLateChild ==
  /\ parent.at = "clean"
  /\ IF Alive THEN /\ parent' = [parent EXCEPT !.at = "unlink out", !.missed = ~child.group]
                   /\ KillGroup
              ELSE ParentGoes("unlink out") /\ UNCHANGED child
  /\ UNCHANGED <<document, ocr, pipe, disk>>

\* The result, what was to become it, and the directory if it is empty.
RemoveFiles ==
  \/ /\ parent.at = "unlink out"
     /\ ParentGoes("unlink tmp") /\ disk' = disk \ {"out"}
     /\ UNCHANGED <<document, ocr, child, pipe>>
  \/ /\ parent.at = "unlink tmp"
     /\ ParentGoes("rmdir") /\ disk' = disk \ {"tmp"}
     /\ UNCHANGED <<document, ocr, child, pipe>>
  \/ /\ parent.at = "rmdir"
     /\ ParentGoes("done")
     /\ disk' = IF disk = {"dir"} THEN {} ELSE disk
     /\ UNCHANGED <<document, ocr, child, pipe>>

-----------------------------------------------------------------------------
Init ==
  /\ document \in Documents
  /\ ocr \in OcrChoices
  /\ child = [at |-> "none", group |-> FALSE, helper |-> FALSE, died |-> FALSE,
              pages |-> <<>>, total |-> 0, status |-> "error"]
  /\ parent = [at |-> "start", status |-> "empty", outcome |-> "none", missed |-> FALSE]
  /\ pipe = "empty"
  /\ disk = {}

ChildStep ==
  \/ LeadGroup
  \/ OpenDocument
  \/ StartHelper
  \/ ExtractPage
  \/ CreateResult
  \/ RenameResult
  \/ SendStatus
  \/ ExitChild
  \/ ChildDies
  \/ HelperEnds

ParentStep ==
  \/ StartChild
  \/ AwaitStatus
  \/ JoinChild
  \/ CheckResult
  \/ KillLateChild
  \/ RemoveFiles

Next == ChildStep \/ ParentStep

Spec == Init /\ [][Next]_vars

\* The request is run by a thread of the server, and every wait of its is bounded
\* by a timeout; of the child nothing is assumed.
FairSpec == Spec /\ WF_vars(ParentStep)

-----------------------------------------------------------------------------
(***************************************************************************)
(* Properties.                                                             *)
(***************************************************************************)

Done == parent.at = "done"

TypeOK ==
  /\ document \in Documents /\ ocr \in OcrChoices
  /\ child.total = TextBytes(child.pages) /\ child.total <= MaxTotalText
  /\ disk \subseteq {"dir", "tmp", "out"}
  /\ pipe \in {"empty", "ok", "unreadable", "error"}
  /\ parent.outcome \in {"none", "unreadable", "failed", "exceeded", "too large", "malformed",
                         "extracted"}

\* The text there was to extract of a page: OCR's where the page is a scan.
TextThere(page) ==
  IF LooksLikeScan(page) /\ Precheck(page, ocr) = "none" /\ page.ocr = "reads"
  THEN page.text ELSE page.native

\* An extraction that is accepted has every page of the document, in its order,
\* and no page has lost text without a word: what a page does not hold whole is
\* marked as truncated or failed (extract_pages, _bounded_page_text).
NothingLostUnsaid ==
  parent.outcome = "extracted" =>
    /\ Len(child.pages) = Len(document.pages)
    /\ \A i \in 1 .. Len(child.pages) :
         LET kept == child.pages[i]
         IN  kept.truncated \/ kept.method = "failed" \/ kept.text = TextThere(document.pages[i])

\* What the child extracts passes every check the request makes again: a result is
\* refused only for its size, and only when its texts grow in JSON by more than
\* the allowance (_parse_result_payload against extract_pages).
HonestResultsPass ==
  /\ parent.outcome # "malformed"
  /\ parent.outcome = "too large" => ResultSize(child.pages) - child.total > ResultAllowance

\* After the request nothing the child started still runs, except when the child was
\* killed by something else or before it led a group (_kill_process_group); and no
\* extracted text is left on disk, unless the child was still starting when it
\* should have been killed (run_isolated_extraction).
NothingLeftBehind ==
  Done => /\ Alive \/ child.helper => child.died \/ parent.missed
          /\ disk # {} => parent.missed

\* Every extraction ends, whatever the child does.
EveryExtractionEnds == <>Done
=============================================================================
