--------------------- MODULE IsolatedExtractionProofs ---------------------
(***************************************************************************)
(* What IsolatedExtraction promises holds for any documents and any        *)
(* bounds.  Totals are recursive: that one more page adds its size is      *)
(* shown first, by the least length at which it could fail.  The invariant *)
(* then says what the child has recorded of the pages it has passed, where *)
(* the child and the request can be when a status has been sent, and what  *)
(* a child that is gone can have left.                                     *)
(***************************************************************************)
EXTENDS IsolatedExtraction, SequenceTheorems, WellFoundedInduction, TLAPS

-----------------------------------------------------------------------------
(***************************************************************************)
(* Totals.                                                                 *)
(***************************************************************************)

\* A set of numbers has a least one.
LEMMA Least ==
  ASSUME NEW S, S \subseteq Nat, S # {}
  PROVE  \E x \in S : \A y \in S : x <= y
<1> DEFINE Less == {p \in Nat \X Nat : p[1] < p[2]}
<1>1. IsWellFoundedOn(Less, Nat)
  BY NatLessThanWellFounded DEF OpToRel
<1> HIDE DEF Less
<1>2. PICK x \in S : \A y \in S : ~ (<<y, x>> \in Less)
  BY <1>1, WFMin
<1>3. ASSUME NEW y \in S PROVE x <= y
  <2>1. x \in Nat /\ y \in Nat /\ <<y, x>> \notin Less
    BY <1>2
  <2>2. ~ (y < x)
    BY <2>1 DEF Less
  <2> QED
    BY <2>1, <2>2
<1> QED
  BY <1>3

\* The totals of the first sizes, one after the other.
Running(g, n, sizes) ==
  /\ g \in [0 .. n -> Nat]
  /\ g[0] = 0
  /\ \A i \in 1 .. n : g[i] = g[i - 1] + sizes[i]

\* There are running totals of any sizes.
LEMMA RunningTotals ==
  ASSUME NEW k \in Nat, NEW sizes \in [1 .. k -> Nat]
  PROVE  \E g : Running(g, k, sizes)
<1> DEFINE Without == {n \in 0 .. k : ~ \E g : Running(g, n, sizes)}
<1> SUFFICES Without = {}
  <2>1. k \in 0 .. k
    OBVIOUS
  <2> QED
    BY <2>1
<1>1. SUFFICES ASSUME Without # {} PROVE FALSE
  OBVIOUS
<1>2. PICK n \in Without : \A m \in Without : n <= m
  <2>1. Without \subseteq Nat
    OBVIOUS
  <2> HIDE DEF Without
  <2> QED
    BY <1>1, <2>1, Least
<1>3. n # 0
  <2>1. Running([i \in 0 .. 0 |-> 0], 0, sizes)
    BY DEF Running
  <2> QED
    BY <2>1
<1>4. n - 1 \in 0 .. k /\ n \in 1 .. k /\ n - 1 \notin Without
  BY <1>2, <1>3
<1>5. PICK g : Running(g, n - 1, sizes)
  BY <1>4
<1> DEFINE h == [i \in 0 .. n |-> IF i = n THEN g[n - 1] + sizes[n] ELSE g[i]]
<1>6. g[n - 1] \in Nat /\ sizes[n] \in Nat
  BY <1>4, <1>5 DEF Running
<1>7. \A i \in 0 .. n - 1 : h[i] = g[i] /\ g[i] \in Nat
  BY <1>4, <1>5 DEF Running
<1>8. h \in [0 .. n -> Nat] /\ h[0] = 0 /\ h[n] = g[n - 1] + sizes[n]
  <2>1. ASSUME NEW i \in 0 .. n PROVE h[i] \in Nat
    <3>1. i = n \/ i \in 0 .. n - 1
      BY <1>4
    <3>2. CASE i = n
      BY <3>2, <1>6
    <3>3. CASE i \in 0 .. n - 1
      <4>1. h[i] = g[i] /\ g[i] \in Nat
        BY <3>3, <1>7
      <4> QED
        BY <4>1
    <3> QED
      BY <3>1, <3>2, <3>3
  <2>2. h[0] = 0
    BY <1>4, <1>5, <1>7 DEF Running
  <2> QED
    BY <1>4, <2>1, <2>2
<1>9. \A i \in 1 .. n : h[i] = h[i - 1] + sizes[i]
  <2> SUFFICES ASSUME NEW i \in 1 .. n PROVE h[i] = h[i - 1] + sizes[i]
    OBVIOUS
  <2>1. CASE i = n
    BY <2>1, <1>4, <1>7, <1>8
  <2>2. CASE i # n
    <3>1. i \in 1 .. n - 1 /\ i - 1 \in 0 .. n - 1 /\ i \in 0 .. n - 1
      BY <2>2, <1>4
    <3> HIDE DEF h
    <3> QED
      BY <3>1, <1>5, <1>7 DEF Running
  <2> QED
    BY <2>1, <2>2
<1>10. Running(h, n, sizes)
  <2> HIDE DEF h
  <2> QED
    BY <1>8, <1>9 DEF Running
<1> QED
  BY <1>2, <1>10

\* The total is the last of the running totals, whichever they are.
LEMMA TotalIs ==
  ASSUME NEW k \in Nat, NEW sizes \in [1 .. k -> Nat], NEW g, Running(g, k, sizes)
  PROVE  Total(sizes) = g[k]
<1> DEFINE Recursive(u) == u = [i \in 0 .. k |-> IF i = 0 THEN 0 ELSE u[i - 1] + sizes[i]]
           upTo == CHOOSE u : Recursive(u)
<1>1. Len(sizes) = k
  <2>1. sizes \in Seq(Nat)
    BY SeqDef
  <2> QED
    BY <2>1, LenProperties
<1>2. Recursive(g)
  BY DEF Running
<1>3. Recursive(upTo)
  <2> HIDE DEF Recursive
  <2> QED
    BY <1>2
<1>4. Total(sizes) = upTo[k]
  BY <1>1 DEF Total
<1> HIDE DEF upTo
<1>5. upTo[0] = 0 /\ \A i \in 1 .. k : upTo[i] = upTo[i - 1] + sizes[i]
  BY <1>3
<1> HIDE DEF Recursive
<1> DEFINE Apart == {i \in 0 .. k : upTo[i] # g[i]}
<1>6. Apart = {}
  <2>1. SUFFICES ASSUME Apart # {} PROVE FALSE
    OBVIOUS
  <2>2. PICK n \in Apart : \A m \in Apart : n <= m
    <3>1. Apart \subseteq Nat
      OBVIOUS
    <3> HIDE DEF Apart
    <3> QED
      BY <2>1, <3>1, Least
  <2>3. n # 0
    BY <1>5 DEF Running
  <2>4. n \in 1 .. k /\ n - 1 \in 0 .. k /\ n - 1 \notin Apart
    BY <2>2, <2>3
  <2>5. upTo[n - 1] = g[n - 1]
    BY <2>4
  <2> QED
    BY <1>5, <2>4, <2>5 DEF Running
<1> QED
  BY <1>4, <1>6

\* A total is a number, and one more size adds itself.
LEMMA TotalGrows ==
  ASSUME NEW k \in Nat, NEW a \in [1 .. k -> Nat], NEW b \in [1 .. k + 1 -> Nat],
         \A i \in 1 .. k : b[i] = a[i]
  PROVE  Total(b) = Total(a) + b[k + 1]
<1>1. PICK g : Running(g, k + 1, b)
  BY RunningTotals
<1> DEFINE h == [i \in 0 .. k |-> g[i]]
<1>2. Running(h, k, a)
  <2>1. h \in [0 .. k -> Nat] /\ h[0] = 0
    BY <1>1 DEF Running
  <2>2. ASSUME NEW i \in 1 .. k PROVE h[i] = h[i - 1] + a[i]
    <3>1. i \in 1 .. k + 1 /\ i - 1 \in 0 .. k /\ i \in 0 .. k
      OBVIOUS
    <3> QED
      BY <3>1, <1>1 DEF Running
  <2> HIDE DEF h
  <2> QED
    BY <2>1, <2>2 DEF Running
<1>3. Total(a) = h[k]
  <2> HIDE DEF h
  <2> QED
    BY <1>2, TotalIs
<1>4. Total(b) = g[k + 1]
  BY <1>1, TotalIs
<1> QED
  BY <1>1, <1>3, <1>4 DEF Running

LEMMA TotalIsNat ==
  ASSUME NEW k \in Nat, NEW sizes \in [1 .. k -> Nat]
  PROVE  Total(sizes) \in Nat
<1>1. PICK g : Running(g, k, sizes)
  BY RunningTotals
<1>2. Total(sizes) = g[k]
  BY <1>1, TotalIs
<1> QED
  BY <1>1, <1>2 DEF Running

LEMMA TotalOfNone ==
  ASSUME NEW k \in Nat, NEW sizes \in [1 .. k -> Nat], k = 0
  PROVE  Total(sizes) = 0
<1>1. PICK g : Running(g, k, sizes)
  BY RunningTotals
<1>2. Total(sizes) = g[k]
  BY <1>1, TotalIs
<1> QED
  BY <1>1, <1>2 DEF Running

-----------------------------------------------------------------------------
(***************************************************************************)
(* The invariant.                                                          *)
(***************************************************************************)

Statuses == {"ok", "unreadable", "error"}

Methods == {"native", "ocr", "failed"}
Codes == {"none", "invalid_media_box", "pixel_limit", "ocr_unavailable", "ocr",
          "total_text_budget_exhausted", "page_parse_error"}

\* What is recorded of a page.
Recorded ==
  [number : Nat, method : Methods, text : Texts, truncated : BOOLEAN, code : Codes]

ChildIs ==
  child \in [at : {"none", "starting", "open", "page", "written", "send", "exiting", "gone"},
             group : BOOLEAN, helper : BOOLEAN, died : BOOLEAN, pages : Seq(Recorded),
             total : Nat, status : Statuses]

ParentIs ==
  parent \in [at : {"start", "poll", "join", "check", "clean", "unlink out", "unlink tmp",
                    "rmdir", "done"},
              status : Statuses \cup {"empty"},
              outcome : {"none", "unreadable", "failed", "exceeded", "too large", "malformed",
                         "extracted"},
              missed : BOOLEAN]

Typed ==
  /\ document \in Documents /\ ocr \in OcrChoices
  /\ ChildIs /\ ParentIs
  /\ pipe \in Statuses \cup {"empty"}
  /\ disk \subseteq {"dir", "tmp", "out"}

\* What is recorded of a page is in its place and within its limit, and says when it
\* does not hold the page whole.
InPlace(i) ==
  LET kept == child.pages[i]
  IN  /\ kept.number = i
      /\ Bytes(kept.text) <= MaxPageText
      /\ kept.truncated \/ kept.method = "failed" \/ kept.text = TextThere(document.pages[i])

\* The pages passed are recorded, and their texts are within the document's limit.
PagesPassed ==
  /\ Len(child.pages) <= Len(document.pages)
  /\ child.total = TextBytes(child.pages)
  /\ child.total <= MaxTotalText
  /\ \A i \in 1 .. Len(child.pages) : InPlace(i)

Countable == Len(document.pages) \in 1 .. MaxPages
Whole == Countable /\ Len(child.pages) = Len(document.pages)

\* A child says that all is well only with every page recorded, and then records no more.
StatusEarned ==
  /\ child.at \in {"page", "written"} => Countable
  /\ child.at = "written" => Whole
  /\ child.status = "ok" => Whole /\ child.at \in {"send", "exiting", "gone"}
  /\ pipe = "ok" => Whole /\ child.at \in {"exiting", "gone"}
  /\ parent.status = "ok" => pipe = "ok"

\* What the request concludes of a result, it concludes of a whole one.
ConcludedOfWhole ==
  /\ parent.at \in {"start", "poll", "join", "check"} => parent.outcome = "none"
  /\ parent.at = "start" => child.at = "none"
  /\ parent.outcome \in {"extracted", "too large"} => parent.status = "ok"
  /\ HonestResultsPass

AfterKill == {"unlink out", "unlink tmp", "rmdir", "done"}

\* What runs beside the child runs while it reads a page, or is left by its death; a
\* child that reads pages leads a group.
HelperBesides ==
  /\ child.at \in {"open", "page", "written", "send", "exiting"} => child.group
  /\ child.helper => /\ child.group
                     /\ \/ child.at = "page" /\ Len(child.pages) < Len(document.pages)
                        \/ child.at = "gone" /\ child.died

\* After the request has killed what it could, a child that was not missed is gone,
\* and what is removed stays removed.
CleanedUp ==
  parent.at \in AfterKill /\ ~parent.missed =>
    /\ ~Alive
    /\ parent.at # "unlink out" => "out" \notin disk
    /\ parent.at \in {"rmdir", "done"} => "tmp" \notin disk
    /\ parent.at = "done" => disk = {}

IInv ==
  /\ Typed
  /\ PagesPassed
  /\ StatusEarned
  /\ ConcludedOfWhole
  /\ HelperBesides
  /\ CleanedUp

-----------------------------------------------------------------------------
(***************************************************************************)
(* Texts and pages.                                                        *)
(***************************************************************************)

LEMMA Bounds ==
  /\ MaxPages \in Nat \ {0} /\ MaxPageText \in Nat \ {0} /\ MaxTotalText \in Nat \ {0}
  /\ MaxRenderPixels \in Nat /\ MinNativeChars \in Nat /\ ResultAllowance \in Nat
  /\ OcrChoices \subseteq BOOLEAN
  /\ Documents \subseteq [opens : BOOLEAN, pages : Seq(PageKinds)]
BY ExtractionAssumption

\* So many characters as fit in a limit fit in it.
LEMMA Fitting ==
  ASSUME NEW n \in Nat, NEW w \in Nat \ {0}, NEW limit \in Nat
  PROVE  /\ Smaller(n, limit \div w) \in Nat
         /\ Smaller(n, limit \div w) * w \in Nat
         /\ Smaller(n, limit \div w) * w <= limit
<1> DEFINE q == limit \div w
<1>1. q \in Nat /\ q * w <= limit
  OBVIOUS
<1> HIDE DEF q
<1>2. Smaller(n, q) \in Nat /\ Smaller(n, q) <= q
  BY <1>1 DEF Smaller
<1>3. \A a \in Nat : a <= q => a * w \in Nat /\ a * w <= q * w
  BY <1>1
<1>4. Smaller(n, q) * w \in Nat /\ Smaller(n, q) * w <= q * w /\ q * w \in Nat
  BY <1>1, <1>2, <1>3
<1>5. Smaller(n, q) * w <= limit
  BY <1>1, <1>4
<1> QED
  BY <1>2, <1>4, <1>5 DEF q

LEMMA CutFits ==
  ASSUME NEW text \in Texts, NEW limit \in Nat
  PROVE  /\ Cut(text, limit) \in Texts
         /\ Bytes(Cut(text, limit)) \in Nat
         /\ Bytes(Cut(text, limit)) <= limit
<1>1. text.chars \in Nat /\ text.width \in Nat \ {0}
  BY DEF Texts
<1> DEFINE n == Smaller(text.chars, limit \div text.width)
<1>2. n \in Nat /\ n * text.width \in Nat /\ n * text.width <= limit
  BY <1>1, Fitting
<1> HIDE DEF n
<1>3. Cut(text, limit) = [text EXCEPT !.chars = n]
  BY DEF Cut, n
<1>4. /\ Cut(text, limit) \in Texts
      /\ Cut(text, limit).chars = n /\ Cut(text, limit).width = text.width
  BY <1>2, <1>3 DEF Texts
<1> QED
  BY <1>2, <1>4 DEF Bytes

\* What is kept of a page when so much text is recorded already is within its limit
\* and what is left of the document's.
Fits(kept, total) ==
  /\ kept \in [method : Methods, text : Texts, truncated : BOOLEAN, code : Codes]
  /\ Bytes(kept.text) \in Nat
  /\ Bytes(kept.text) <= MaxPageText
  /\ total + Bytes(kept.text) <= MaxTotalText

LEMMA KeepFits ==
  ASSUME NEW method \in Methods, NEW text \in Texts, NEW total \in Nat,
         total <= MaxTotalText, NEW code \in Codes
  PROVE  LET kept == Keep(method, text, total, code)
         IN  /\ Fits(kept, total)
             /\ kept.method = method
             /\ kept.text = Cut(text, Smaller(MaxPageText, MaxTotalText - total))
             /\ kept.truncated \/ kept.text = text
<1> DEFINE limit == Smaller(MaxPageText, MaxTotalText - total)
           cut   == Cut(text, limit)
           kept  == Keep(method, text, total, code)
<1>1. limit \in Nat /\ limit <= MaxPageText /\ limit <= MaxTotalText - total
  BY Bounds DEF Smaller
<1>2. BoundedText(text, total) = cut
  BY DEF BoundedText
<1>3. kept = [method |-> method, text |-> cut, truncated |-> cut # text, code |-> code]
  BY <1>2 DEF Keep
<1> HIDE DEF limit
<1>4. cut \in Texts /\ Bytes(cut) \in Nat /\ Bytes(cut) <= limit
  BY <1>1, CutFits
<1> HIDE DEF cut, kept
<1>5. Bytes(cut) <= MaxPageText /\ total + Bytes(cut) <= MaxTotalText
  BY <1>1, <1>4, Bounds
<1>6. kept.method = method /\ kept.text = cut /\ kept.truncated = (cut # text)
  BY <1>3
<1>7. kept \in [method : Methods, text : Texts, truncated : BOOLEAN, code : Codes]
  BY <1>3, <1>4
<1>8. kept.truncated \/ kept.text = text
  <2>1. CASE cut = text
    BY <2>1, <1>6
  <2>2. CASE cut # text
    BY <2>2, <1>6
  <2> QED
    BY <2>1, <2>2
<1>9. Fits(kept, total)
  BY <1>4, <1>5, <1>6, <1>7 DEF Fits
<1> QED
  BY <1>6, <1>8, <1>9 DEF kept, cut, limit

LEMMA NoTextIs == NoText \in Texts /\ NoText.chars = 0 /\ NoText.width = 1
BY DEF NoText, Texts

LEMMA StrippedIs == ASSUME NEW text \in Texts PROVE Stripped(text) \in Texts
BY NoTextIs DEF Stripped

LEMMA KeepNothing ==
  ASSUME NEW total \in Nat, total <= MaxTotalText, NEW code \in Codes
  PROVE  /\ Fits(Keep("failed", NoText, 0, code), total)
         /\ Keep("failed", NoText, 0, code).method = "failed"
<1> DEFINE kept  == Keep("failed", NoText, 0, code)
           limit == Smaller(MaxPageText, MaxTotalText - 0)
<1>1. 0 \in Nat /\ 0 <= MaxTotalText /\ "failed" \in Methods
  BY Bounds DEF Methods
<1>2. Fits(kept, 0) /\ kept.method = "failed" /\ kept.text = Cut(NoText, limit)
  BY <1>1, NoTextIs, KeepFits
<1>3. limit \in Nat
  BY Bounds DEF Smaller
<1> HIDE DEF kept, limit
<1>4. limit \div NoText.width \in Nat
  BY <1>3, NoTextIs
<1>5. Smaller(NoText.chars, limit \div NoText.width) = 0
  BY <1>4, NoTextIs DEF Smaller
<1>6. kept.text = [NoText EXCEPT !.chars = 0]
  BY <1>2, <1>5 DEF Cut
<1>7. kept.text.chars = 0 /\ kept.text.width = 1
  BY <1>6, NoTextIs DEF Texts
<1>8. Bytes(kept.text) = 0
  BY <1>7 DEF Bytes
<1> QED
  BY <1>2, <1>8 DEF Fits, kept

\* What is recorded of a page is within the limits, whatever is recorded already,
\* and holds the text there was unless it is said not to.
LEMMA PageRecorded ==
  ASSUME NEW page \in PageKinds, NEW total \in Nat, total <= MaxTotalText
  PROVE  LET kept == Extracted(page, total, ocr)
         IN  /\ Fits(kept, total)
             /\ kept.truncated \/ kept.method = "failed" \/ kept.text = TextThere(page)
<1> DEFINE kept == Extracted(page, total, ocr)
<1>1. /\ page.native \in Texts /\ page.text \in Texts /\ page.ocr \in {"reads", "fails"}
      /\ Stripped(page.native) \in Texts
  BY StrippedIs DEF PageKinds
<1>2. /\ "failed" \in Methods /\ "native" \in Methods /\ "ocr" \in Methods
      /\ \A code \in {"none", "ocr", "total_text_budget_exhausted", "page_parse_error"} :
           code \in Codes
      /\ Precheck(page, ocr) \in Codes
  BY DEF Methods, Codes, Precheck
<1>3. CASE total >= MaxTotalText \/ ~page.parses
  <2>1. PICK code \in Codes : kept = Keep("failed", NoText, 0, code)
    BY <1>2, <1>3 DEF Extracted
  <2> HIDE DEF kept
  <2> QED
    BY <2>1, KeepNothing DEF kept
<1>4. CASE ~ (total >= MaxTotalText) /\ page.parses /\ ~LooksLikeScan(page)
  <2>1. kept = Keep("native", page.native, total, "none")
    BY <1>4 DEF Extracted
  <2>2. TextThere(page) = page.native
    BY <1>4 DEF TextThere
  <2> HIDE DEF kept
  <2>3. Fits(kept, total) /\ (kept.truncated \/ kept.text = page.native)
    BY <1>1, <1>2, <2>1, KeepFits
  <2> QED
    BY <2>2, <2>3 DEF kept
<1>5. CASE ~ (total >= MaxTotalText) /\ page.parses /\ LooksLikeScan(page)
  <2>1. kept = Scanned(page, total, ocr)
    BY <1>5 DEF Extracted
  <2>2. CASE Precheck(page, ocr) # "none" \/ page.ocr = "fails"
    <3>1. PICK code \in Codes : kept = Keep("failed", Stripped(page.native), total, code)
      BY <1>2, <2>1, <2>2 DEF Scanned
    <3> HIDE DEF kept
    <3>2. Fits(kept, total) /\ kept.method = "failed"
      BY <1>1, <1>2, <3>1, KeepFits
    <3> QED
      BY <3>2 DEF kept
  <2>3. CASE ~ (Precheck(page, ocr) # "none" \/ page.ocr = "fails")
    <3>1. kept = Keep("ocr", page.text, total, "none")
      BY <2>1, <2>3 DEF Scanned
    <3>2. TextThere(page) = page.text
      BY <1>1, <1>5, <2>3 DEF TextThere
    <3> HIDE DEF kept
    <3>3. Fits(kept, total) /\ (kept.truncated \/ kept.text = page.text)
      BY <1>1, <1>2, <3>1, KeepFits
    <3> QED
      BY <3>2, <3>3 DEF kept
  <2> QED
    BY <2>2, <2>3
<1> QED
  BY <1>3, <1>4, <1>5

\* The sizes of the records of so many pages.
LEMMA SizesAre ==
  ASSUME NEW pages \in Seq(Recorded)
  PROVE  /\ Len(pages) \in Nat
         /\ [i \in 1 .. Len(pages) |-> Bytes(pages[i].text)] \in [1 .. Len(pages) -> Nat]
         /\ [i \in 1 .. Len(pages) |-> pages[i].text.chars * pages[i].text.json]
              \in [1 .. Len(pages) -> Nat]
<1>1. ASSUME NEW i \in 1 .. Len(pages)
      PROVE  Bytes(pages[i].text) \in Nat /\ pages[i].text.chars * pages[i].text.json \in Nat
  <2>1. pages[i] \in Recorded
    BY ElementOfSeq
  <2>2. pages[i].text.chars \in Nat /\ pages[i].text.width \in Nat /\ pages[i].text.json \in Nat
    BY <2>1 DEF Recorded, Texts
  <2>3. \A a, b \in Nat : a * b \in Nat
    OBVIOUS
  <2> QED
    BY <2>2, <2>3 DEF Bytes
<1> QED
  BY <1>1, LenProperties

\* One more page recorded adds its bytes.
LEMMA TextBytesGrow ==
  ASSUME NEW pages \in Seq(Recorded), NEW record \in Recorded
  PROVE  TextBytes(Append(pages, record)) = TextBytes(pages) + Bytes(record.text)
<1> DEFINE more == Append(pages, record)
           k == Len(pages)
<1>1. k \in Nat /\ more \in Seq(Recorded) /\ Len(more) = k + 1 /\ more[k + 1] = record
      /\ \A i \in 1 .. k : more[i] = pages[i]
  BY AppendProperties, LenProperties
<1> DEFINE a == [i \in 1 .. k |-> Bytes(pages[i].text)]
           b == [i \in 1 .. Len(more) |-> Bytes(more[i].text)]
<1>2. TextBytes(pages) = Total(a) /\ TextBytes(more) = Total(b)
  BY DEF TextBytes
<1> HIDE DEF more
<1>3. a \in [1 .. k -> Nat] /\ b \in [1 .. k + 1 -> Nat]
  BY <1>1, SizesAre
<1>4. \A i \in 1 .. k : b[i] = a[i]
  BY <1>1
<1>5. b[k + 1] = Bytes(record.text)
  BY <1>1
<1>6. Total(b) = Total(a) + b[k + 1]
  <2> HIDE DEF a, b, k
  <2> QED
    BY <1>1, <1>3, <1>4, TotalGrows
<1> QED
  BY <1>2, <1>5, <1>6 DEF more

LEMMA NoBytes == TextBytes(<<>>) = 0
<1> DEFINE none == [i \in 1 .. 0 |-> Bytes((<<>>)[i].text)]
<1>1. none \in [1 .. 0 -> Nat]
  OBVIOUS
<1>2. TextBytes(<<>>) = Total(none)
  BY DEF TextBytes
<1> HIDE DEF none
<1> QED
  BY <1>1, <1>2, TotalOfNone
-----------------------------------------------------------------------------
(***************************************************************************)
(* Each step keeps the invariant.                                          *)
(***************************************************************************)

\* What changes no record.
SameRecords ==
  /\ UNCHANGED <<document, ocr>>
  /\ child'.pages = child.pages /\ child'.total = child.total

LEMMA RecordsStay ==
  ASSUME PagesPassed, SameRecords
  PROVE  /\ PagesPassed'
         /\ Countable' <=> Countable
         /\ Whole' <=> Whole
         /\ parent'.outcome = parent.outcome /\ HonestResultsPass => HonestResultsPass'
<1>1. \A page : TextThere(page)' = TextThere(page)
  BY DEF SameRecords, TextThere, LooksLikeScan, Precheck, Stripped
<1>2. \A i : InPlace(i) => InPlace(i)'
  BY <1>1 DEF SameRecords, InPlace, Bytes
<1>3. PagesPassed'
  BY <1>2 DEF PagesPassed, SameRecords, TextBytes
<1> QED
  BY <1>3 DEF SameRecords, Countable, Whole, HonestResultsPass, ResultSize

LEMMA LengthsAre ==
  ASSUME IInv PROVE Len(child.pages) \in Nat /\ Len(document.pages) \in Nat
<1>1. child.pages \in Seq(Recorded)
  BY DEF IInv, Typed, ChildIs
<1>2. document.pages \in Seq(PageKinds)
  BY Bounds DEF IInv, Typed
<1> QED
  BY <1>1, <1>2, LenProperties

LEMMA Initially == Init => IInv
<1> SUFFICES ASSUME Init PROVE IInv
  OBVIOUS
<1>1. Typed
  <2>1. <<>> \in Seq(Recorded)
    OBVIOUS
  <2> QED
    BY <2>1 DEF Init, Typed, ChildIs, ParentIs, Statuses
<1>2. PagesPassed
  <2>1. child.pages = <<>> /\ child.total = 0 /\ Len(child.pages) = 0
    BY DEF Init
  <2>2. document.pages \in Seq(PageKinds)
    BY Bounds DEF Init
  <2>3. Len(document.pages) \in Nat
    BY <2>2, LenProperties
  <2> QED
    BY <2>1, <2>3, NoBytes, Bounds DEF PagesPassed
<1>3. StatusEarned /\ ConcludedOfWhole /\ HelperBesides /\ CleanedUp
  BY DEF Init, StatusEarned, ConcludedOfWhole, HelperBesides, CleanedUp, HonestResultsPass,
         AfterKill
<1> QED
  BY <1>1, <1>2, <1>3 DEF IInv

\* The child leads its own process group (setsid).
LEMMA StepLeadGroup == ASSUME IInv, LeadGroup PROVE IInv'
<1>1. Typed'
  <2>1. ChildIs'
    BY DEF IInv, Typed, ChildIs, LeadGroup
  <2>2. ParentIs'
    BY DEF IInv, Typed, ParentIs, LeadGroup, OnlyChild
  <2>3. pipe' \in Statuses \cup {"empty"} /\ disk' \subseteq {"dir", "tmp", "out"}
    BY DEF IInv, Typed, LeadGroup, OnlyChild
  <2>4. UNCHANGED <<document, ocr>>
    BY DEF LeadGroup, OnlyChild
  <2> QED
    BY <2>1, <2>2, <2>3, <2>4 DEF IInv, Typed
<1>2. SameRecords
  BY DEF IInv, LeadGroup, OnlyChild, SameRecords
<1>3. StatusEarned'
  BY <1>2 DEF IInv, StatusEarned, LeadGroup, OnlyChild
<1>4. ConcludedOfWhole'
  BY <1>2, RecordsStay DEF IInv, ConcludedOfWhole, LeadGroup, OnlyChild
<1>5. HelperBesides'
  BY <1>2 DEF IInv, HelperBesides, LeadGroup
<1>6. CleanedUp'
  BY DEF IInv, CleanedUp, AfterKill, Alive, LeadGroup, OnlyChild
<1> QED
  BY <1>1, <1>2, <1>3, <1>4, <1>5, <1>6, RecordsStay DEF IInv

\* A document whose pages can be read one after the other has between one and the limit.
LEMMA StepOpenDocument == ASSUME IInv, OpenDocument PROVE IInv'
<1>1. Typed'
  <2>1. ChildIs'
    BY DEF IInv, Typed, ChildIs, Statuses, OpenDocument
  <2>2. ParentIs'
    BY DEF IInv, Typed, ParentIs, OpenDocument, OnlyChild
  <2>3. pipe' \in Statuses \cup {"empty"} /\ disk' \subseteq {"dir", "tmp", "out"}
    BY DEF IInv, Typed, OpenDocument, OnlyChild
  <2>4. UNCHANGED <<document, ocr>>
    BY DEF OpenDocument, OnlyChild
  <2> QED
    BY <2>1, <2>2, <2>3, <2>4 DEF IInv, Typed
<1>2. SameRecords
  BY DEF IInv, OpenDocument, OnlyChild, SameRecords
<1>3. StatusEarned'
  BY <1>2 DEF IInv, StatusEarned, OpenDocument, OnlyChild, Countable
<1>4. ConcludedOfWhole'
  BY <1>2, RecordsStay DEF IInv, ConcludedOfWhole, OpenDocument, OnlyChild
<1>5. HelperBesides'
  BY <1>2 DEF IInv, HelperBesides, OpenDocument
<1>6. CleanedUp'
  BY DEF IInv, CleanedUp, AfterKill, Alive, OpenDocument, OnlyChild
<1> QED
  BY <1>1, <1>2, <1>3, <1>4, <1>5, <1>6, RecordsStay DEF IInv

\* Poppler and Tesseract run beside the child.
LEMMA StepStartHelper == ASSUME IInv, StartHelper PROVE IInv'
<1>1. Typed'
  <2>1. ChildIs'
    BY DEF IInv, Typed, ChildIs, StartHelper
  <2>2. ParentIs'
    BY DEF IInv, Typed, ParentIs, StartHelper, OnlyChild
  <2>3. pipe' \in Statuses \cup {"empty"} /\ disk' \subseteq {"dir", "tmp", "out"}
    BY DEF IInv, Typed, StartHelper, OnlyChild
  <2>4. UNCHANGED <<document, ocr>>
    BY DEF StartHelper, OnlyChild
  <2> QED
    BY <2>1, <2>2, <2>3, <2>4 DEF IInv, Typed
<1>2. SameRecords
  BY DEF IInv, StartHelper, OnlyChild, SameRecords
<1>3. StatusEarned'
  BY <1>2, RecordsStay DEF IInv, StatusEarned, StartHelper, OnlyChild
<1>4. ConcludedOfWhole'
  BY <1>2, RecordsStay DEF IInv, ConcludedOfWhole, StartHelper, OnlyChild
<1>5. HelperBesides'
  BY <1>2 DEF SameRecords, IInv, HelperBesides, StartHelper
<1>6. CleanedUp'
  BY DEF IInv, CleanedUp, AfterKill, Alive, StartHelper, OnlyChild
<1> QED
  BY <1>1, <1>2, <1>3, <1>4, <1>5, <1>6, RecordsStay DEF IInv

\* The result is written when every page is recorded.
LEMMA StepCreateResult == ASSUME IInv, CreateResult PROVE IInv'
<1>1. Typed'
  <2>1. ChildIs'
    BY DEF IInv, Typed, ChildIs, Statuses, CreateResult, ChildGoes
  <2>2. ParentIs'
    BY DEF IInv, Typed, ParentIs, CreateResult
  <2>3. pipe' \in Statuses \cup {"empty"} /\ disk' \subseteq {"dir", "tmp", "out"}
    BY DEF IInv, Typed, CreateResult
  <2>4. UNCHANGED <<document, ocr>>
    BY DEF CreateResult
  <2> QED
    BY <2>1, <2>2, <2>3, <2>4 DEF IInv, Typed
<1>2. SameRecords
  BY DEF IInv, Typed, ChildIs, CreateResult, ChildGoes, SameRecords
<1>3. StatusEarned'
  BY <1>2, RecordsStay DEF IInv, Typed, ChildIs, StatusEarned, CreateResult, ChildGoes, Whole
<1>4. ConcludedOfWhole'
  BY <1>2, RecordsStay DEF IInv, ConcludedOfWhole, CreateResult
<1>5. HelperBesides'
  <2>1. ~child.helper /\ child.group
    BY LengthsAre DEF IInv, HelperBesides, CreateResult
  <2>2. child'.helper = child.helper /\ child'.group = child.group
    BY DEF IInv, Typed, ChildIs, CreateResult, ChildGoes
  <2> QED
    BY <2>1, <2>2 DEF HelperBesides
<1>6. CleanedUp'
  BY DEF IInv, CleanedUp, AfterKill, Alive, CreateResult
<1> QED
  BY <1>1, <1>2, <1>3, <1>4, <1>5, <1>6, RecordsStay DEF IInv

\* Only a result in its place is reported.
LEMMA StepRenameResult == ASSUME IInv, RenameResult PROVE IInv'
<1>1. Typed'
  <2>1. ChildIs'
    BY DEF IInv, Typed, ChildIs, Statuses, RenameResult
  <2>2. ParentIs'
    BY DEF IInv, Typed, ParentIs, RenameResult
  <2>3. pipe' \in Statuses \cup {"empty"} /\ disk' \subseteq {"dir", "tmp", "out"}
    BY DEF IInv, Typed, RenameResult
  <2>4. UNCHANGED <<document, ocr>>
    BY DEF RenameResult
  <2> QED
    BY <2>1, <2>2, <2>3, <2>4 DEF IInv, Typed
<1>2. SameRecords
  BY DEF IInv, Typed, ChildIs, RenameResult, SameRecords
<1>3. StatusEarned'
  BY <1>2, RecordsStay DEF IInv, Typed, ChildIs, StatusEarned, RenameResult
<1>4. ConcludedOfWhole'
  BY <1>2, RecordsStay DEF IInv, ConcludedOfWhole, RenameResult
<1>5. HelperBesides'
  BY <1>2 DEF IInv, Typed, ChildIs, HelperBesides, RenameResult
<1>6. CleanedUp'
  BY DEF IInv, CleanedUp, AfterKill, Alive, RenameResult
<1> QED
  BY <1>1, <1>2, <1>3, <1>4, <1>5, <1>6, RecordsStay DEF IInv

\* A status is sent once.
LEMMA StepSendStatus == ASSUME IInv, SendStatus PROVE IInv'
<1>1. Typed'
  <2>1. ChildIs'
    BY DEF IInv, Typed, ChildIs, SendStatus, ChildGoes
  <2>2. ParentIs'
    BY DEF IInv, Typed, ParentIs, SendStatus
  <2>3. pipe' \in Statuses \cup {"empty"} /\ disk' \subseteq {"dir", "tmp", "out"}
    BY DEF IInv, Typed, ChildIs, SendStatus
  <2>4. UNCHANGED <<document, ocr>>
    BY DEF SendStatus
  <2> QED
    BY <2>1, <2>2, <2>3, <2>4 DEF IInv, Typed
<1>2. SameRecords
  BY DEF IInv, SendStatus, ChildGoes, SameRecords
<1>3. StatusEarned'
  BY <1>2, RecordsStay DEF IInv, StatusEarned, SendStatus, ChildGoes
<1>4. ConcludedOfWhole'
  BY <1>2, RecordsStay DEF IInv, ConcludedOfWhole, SendStatus
<1>5. HelperBesides'
  BY <1>2 DEF IInv, HelperBesides, SendStatus, ChildGoes
<1>6. CleanedUp'
  BY DEF IInv, CleanedUp, AfterKill, Alive, SendStatus
<1> QED
  BY <1>1, <1>2, <1>3, <1>4, <1>5, <1>6, RecordsStay DEF IInv

\* The child ends.
LEMMA StepExitChild == ASSUME IInv, ExitChild PROVE IInv'
<1>1. Typed'
  <2>1. ChildIs'
    BY DEF IInv, Typed, ChildIs, ExitChild, ChildGoes
  <2>2. ParentIs'
    BY DEF IInv, Typed, ParentIs, ExitChild, OnlyChild
  <2>3. pipe' \in Statuses \cup {"empty"} /\ disk' \subseteq {"dir", "tmp", "out"}
    BY DEF IInv, Typed, ExitChild, OnlyChild
  <2>4. UNCHANGED <<document, ocr>>
    BY DEF ExitChild, OnlyChild
  <2> QED
    BY <2>1, <2>2, <2>3, <2>4 DEF IInv, Typed
<1>2. SameRecords
  BY DEF IInv, ExitChild, ChildGoes, OnlyChild, SameRecords
<1>3. StatusEarned'
  BY <1>2, RecordsStay DEF IInv, StatusEarned, ExitChild, ChildGoes, OnlyChild
<1>4. ConcludedOfWhole'
  BY <1>2, RecordsStay DEF IInv, ConcludedOfWhole, ExitChild, OnlyChild
<1>5. HelperBesides'
  BY <1>2 DEF IInv, HelperBesides, ExitChild, ChildGoes
<1>6. CleanedUp'
  BY DEF IInv, CleanedUp, AfterKill, Alive, ExitChild, OnlyChild
<1> QED
  BY <1>1, <1>2, <1>3, <1>4, <1>5, <1>6, RecordsStay DEF IInv

\* The child is ended.
LEMMA StepChildDies == ASSUME IInv, ChildDies PROVE IInv'
<1>1. Typed'
  <2>1. ChildIs'
    BY DEF IInv, Typed, ChildIs, ChildDies
  <2>2. ParentIs'
    BY DEF IInv, Typed, ParentIs, ChildDies, OnlyChild
  <2>3. pipe' \in Statuses \cup {"empty"} /\ disk' \subseteq {"dir", "tmp", "out"}
    BY DEF IInv, Typed, ChildDies, OnlyChild
  <2>4. UNCHANGED <<document, ocr>>
    BY DEF ChildDies, OnlyChild
  <2> QED
    BY <2>1, <2>2, <2>3, <2>4 DEF IInv, Typed
<1>2. SameRecords
  BY DEF IInv, ChildDies, OnlyChild, SameRecords
<1>3. StatusEarned'
  BY <1>2, RecordsStay DEF IInv, StatusEarned, ChildDies, OnlyChild
<1>4. ConcludedOfWhole'
  BY <1>2, RecordsStay DEF IInv, ConcludedOfWhole, ChildDies, OnlyChild, Alive
<1>5. HelperBesides'
  BY <1>2 DEF IInv, HelperBesides, ChildDies
<1>6. CleanedUp'
  BY DEF IInv, CleanedUp, AfterKill, ChildDies, OnlyChild
<1> QED
  BY <1>1, <1>2, <1>3, <1>4, <1>5, <1>6, RecordsStay DEF IInv

\* What a dead child left ends.
LEMMA StepHelperEnds == ASSUME IInv, HelperEnds PROVE IInv'
<1>1. Typed'
  <2>1. ChildIs'
    BY DEF IInv, Typed, ChildIs, HelperEnds
  <2>2. ParentIs'
    BY DEF IInv, Typed, ParentIs, HelperEnds, OnlyChild
  <2>3. pipe' \in Statuses \cup {"empty"} /\ disk' \subseteq {"dir", "tmp", "out"}
    BY DEF IInv, Typed, HelperEnds, OnlyChild
  <2>4. UNCHANGED <<document, ocr>>
    BY DEF HelperEnds, OnlyChild
  <2> QED
    BY <2>1, <2>2, <2>3, <2>4 DEF IInv, Typed
<1>2. SameRecords
  BY DEF IInv, HelperEnds, OnlyChild, SameRecords
<1>3. StatusEarned'
  BY <1>2, RecordsStay DEF IInv, StatusEarned, HelperEnds, OnlyChild
<1>4. ConcludedOfWhole'
  BY <1>2, RecordsStay DEF IInv, ConcludedOfWhole, HelperEnds, OnlyChild
<1>5. HelperBesides'
  BY <1>2 DEF IInv, HelperBesides, HelperEnds
<1>6. CleanedUp'
  BY DEF IInv, Typed, ChildIs, CleanedUp, AfterKill, Alive, HelperEnds, OnlyChild
<1> QED
  BY <1>1, <1>2, <1>3, <1>4, <1>5, <1>6, RecordsStay DEF IInv

\* The request starts the child, or fails.
LEMMA StepStartChild == ASSUME IInv, StartChild PROVE IInv'
<1>1. Typed'
  <2>1. ChildIs'
    BY DEF IInv, Typed, ChildIs, StartChild
  <2>2. ParentIs'
    BY DEF IInv, Typed, ParentIs, StartChild, ParentGoes, Conclude
  <2>3. pipe' \in Statuses \cup {"empty"} /\ disk' \subseteq {"dir", "tmp", "out"}
    BY DEF IInv, Typed, StartChild
  <2>4. UNCHANGED <<document, ocr>>
    BY DEF StartChild
  <2> QED
    BY <2>1, <2>2, <2>3, <2>4 DEF IInv, Typed
<1>2. SameRecords
  BY DEF IInv, Typed, ChildIs, StartChild, SameRecords
<1>3. StatusEarned'
  BY <1>2 DEF IInv, Typed, ChildIs, ParentIs, StatusEarned, ConcludedOfWhole, StartChild,
              ParentGoes, Conclude
<1>4. ConcludedOfWhole'
  BY <1>2 DEF IInv, Typed, ParentIs, ConcludedOfWhole, HonestResultsPass, StartChild,
              ParentGoes, Conclude
<1>5. HelperBesides'
  BY <1>2 DEF ConcludedOfWhole, IInv, Typed, ChildIs, HelperBesides, StartChild
<1>6. CleanedUp'
  BY DEF IInv, Typed, ParentIs, CleanedUp, AfterKill, StartChild, ParentGoes, Conclude
<1> QED
  BY <1>1, <1>2, <1>3, <1>4, <1>5, <1>6, RecordsStay DEF IInv

\* The request has a status, or no more time.
LEMMA StepAwaitStatus == ASSUME IInv, AwaitStatus PROVE IInv'
<1>1. Typed'
  <2>1. ChildIs'
    BY DEF IInv, Typed, ChildIs, AwaitStatus
  <2>2. ParentIs'
    BY DEF IInv, Typed, ParentIs, AwaitStatus
  <2>3. pipe' \in Statuses \cup {"empty"} /\ disk' \subseteq {"dir", "tmp", "out"}
    BY DEF IInv, Typed, AwaitStatus
  <2>4. UNCHANGED <<document, ocr>>
    BY DEF AwaitStatus
  <2> QED
    BY <2>1, <2>2, <2>3, <2>4 DEF IInv, Typed
<1>2. SameRecords
  BY DEF IInv, AwaitStatus, SameRecords
<1>3. StatusEarned'
  BY <1>2, RecordsStay DEF IInv, StatusEarned, AwaitStatus
<1>4. ConcludedOfWhole'
  BY <1>2, RecordsStay DEF IInv, Typed, ParentIs, ConcludedOfWhole, AwaitStatus
<1>5. HelperBesides'
  BY <1>2 DEF IInv, HelperBesides, AwaitStatus
<1>6. CleanedUp'
  BY DEF IInv, CleanedUp, AfterKill, AwaitStatus
<1> QED
  BY <1>1, <1>2, <1>3, <1>4, <1>5, <1>6, RecordsStay DEF IInv

\* The child is gone, or killed.
LEMMA StepJoinChild == ASSUME IInv, JoinChild PROVE IInv'
<1>1. Typed'
  <2>1. ChildIs'
    BY DEF IInv, Typed, ChildIs, JoinChild, KillGroup
  <2>2. ParentIs'
    BY DEF IInv, Typed, ParentIs, JoinChild, ParentGoes
  <2>3. pipe' \in Statuses \cup {"empty"} /\ disk' \subseteq {"dir", "tmp", "out"}
    BY DEF IInv, Typed, JoinChild
  <2>4. UNCHANGED <<document, ocr>>
    BY DEF JoinChild
  <2> QED
    BY <2>1, <2>2, <2>3, <2>4 DEF IInv, Typed
<1>2. SameRecords
  BY DEF IInv, Typed, ChildIs, JoinChild, KillGroup, SameRecords
<1>3. StatusEarned'
  BY <1>2, RecordsStay DEF IInv, Typed, ChildIs, ParentIs, StatusEarned, JoinChild, ParentGoes,
                           KillGroup
<1>4. ConcludedOfWhole'
  BY <1>2 DEF IInv, Typed, ParentIs, ConcludedOfWhole, HonestResultsPass, JoinChild, ParentGoes
<1>5. HelperBesides'
  BY <1>2 DEF IInv, Typed, ChildIs, HelperBesides, JoinChild, KillGroup
<1>6. CleanedUp'
  BY DEF IInv, Typed, ParentIs, CleanedUp, AfterKill, JoinChild, ParentGoes
<1> QED
  BY <1>1, <1>2, <1>3, <1>4, <1>5, <1>6, RecordsStay DEF IInv

\* The child is killed if it still runs.
LEMMA StepKillLateChild == ASSUME IInv, KillLateChild PROVE IInv'
<1>1. Typed'
  <2>1. ChildIs'
    BY DEF IInv, Typed, ChildIs, KillLateChild, KillGroup
  <2>2. ParentIs'
    BY DEF IInv, Typed, ParentIs, KillLateChild, ParentGoes
  <2>3. pipe' \in Statuses \cup {"empty"} /\ disk' \subseteq {"dir", "tmp", "out"}
    BY DEF IInv, Typed, KillLateChild
  <2>4. UNCHANGED <<document, ocr>>
    BY DEF KillLateChild
  <2> QED
    BY <2>1, <2>2, <2>3, <2>4 DEF IInv, Typed
<1>2. SameRecords
  BY DEF IInv, Typed, ChildIs, KillLateChild, KillGroup, SameRecords
<1>3. StatusEarned'
  BY <1>2, RecordsStay DEF IInv, Typed, ChildIs, ParentIs, StatusEarned, KillLateChild,
                           ParentGoes, KillGroup
<1>4. ConcludedOfWhole'
  BY <1>2, RecordsStay DEF IInv, Typed, ParentIs, ConcludedOfWhole, KillLateChild, ParentGoes
<1>5. HelperBesides'
  BY <1>2 DEF IInv, Typed, ChildIs, HelperBesides, KillLateChild, KillGroup
<1>6. CleanedUp'
  BY DEF IInv, Typed, ChildIs, ParentIs, CleanedUp, AfterKill, Alive, KillLateChild, ParentGoes,
         KillGroup, Alive
<1> QED
  BY <1>1, <1>2, <1>3, <1>4, <1>5, <1>6, RecordsStay DEF IInv

\* The files are removed, one after the other.
LEMMA StepRemoveFiles == ASSUME IInv, RemoveFiles PROVE IInv'
<1>1. Typed'
  <2>1. ChildIs'
    BY DEF IInv, Typed, ChildIs, RemoveFiles
  <2>2. ParentIs'
    BY DEF IInv, Typed, ParentIs, RemoveFiles, ParentGoes
  <2>3. pipe' \in Statuses \cup {"empty"} /\ disk' \subseteq {"dir", "tmp", "out"}
    BY DEF IInv, Typed, RemoveFiles
  <2>4. UNCHANGED <<document, ocr>>
    BY DEF RemoveFiles
  <2> QED
    BY <2>1, <2>2, <2>3, <2>4 DEF IInv, Typed
<1>2. SameRecords
  BY DEF IInv, RemoveFiles, SameRecords
<1>3. StatusEarned'
  BY <1>2, RecordsStay DEF IInv, Typed, ParentIs, StatusEarned, RemoveFiles, ParentGoes
<1>4. ConcludedOfWhole'
  BY <1>2, RecordsStay DEF IInv, Typed, ParentIs, ConcludedOfWhole, RemoveFiles, ParentGoes
<1>5. HelperBesides'
  BY <1>2 DEF IInv, HelperBesides, RemoveFiles
<1>6. CleanedUp'
  <2>1. /\ child' = child /\ parent'.missed = parent.missed
        /\ \/ /\ parent.at = "unlink out" /\ parent'.at = "unlink tmp"
              /\ disk' = disk \ {"out"}
           \/ /\ parent.at = "unlink tmp" /\ parent'.at = "rmdir"
              /\ disk' = disk \ {"tmp"}
           \/ /\ parent.at = "rmdir" /\ parent'.at = "done"
              /\ disk' = IF disk = {"dir"} THEN {} ELSE disk
    BY DEF IInv, Typed, ParentIs, RemoveFiles, ParentGoes
  <2>2. Alive' <=> Alive
    BY <2>1 DEF Alive
  <2>3. disk \subseteq {"dir", "tmp", "out"} /\ CleanedUp
    BY DEF IInv, Typed
  <2>4. CASE parent.at = "unlink out"
    BY <2>1, <2>2, <2>3, <2>4 DEF CleanedUp, AfterKill
  <2>5. CASE parent.at = "unlink tmp"
    BY <2>1, <2>2, <2>3, <2>5 DEF CleanedUp, AfterKill
  <2>6. CASE parent.at = "rmdir"
    <3>1. ~parent.missed => disk' = {}
      BY <2>1, <2>3, <2>6 DEF CleanedUp, AfterKill
    <3> QED
      BY <2>1, <2>2, <2>3, <2>6, <3>1 DEF CleanedUp, AfterKill
  <2> QED
    BY <2>1, <2>4, <2>5, <2>6
<1> QED
  BY <1>1, <1>2, <1>3, <1>4, <1>5, <1>6, RecordsStay DEF IInv

\* One page is recorded.
LEMMA StepExtractPage == ASSUME IInv, ExtractPage PROVE IInv'
<1> DEFINE k      == Len(child.pages)
           kept   == Extracted(NextPage, child.total, ocr)
           record == [number |-> k + 1, method |-> kept.method, text |-> kept.text,
                      truncated |-> kept.truncated, code |-> kept.code]
<1>1. /\ child.pages \in Seq(Recorded) /\ k \in Nat /\ child.total \in Nat
      /\ document.pages \in Seq(PageKinds) /\ Len(document.pages) \in Nat
      /\ child.total <= MaxTotalText
  <2>1. child.pages \in Seq(Recorded) /\ child.total \in Nat /\ child.total <= MaxTotalText
    BY DEF IInv, Typed, ChildIs, PagesPassed
  <2>2. document \in [opens : BOOLEAN, pages : Seq(PageKinds)]
    BY Bounds DEF IInv, Typed
  <2> QED
    BY <2>1, <2>2, LenProperties
<1>2. child.at = "page" /\ k < Len(document.pages)
  BY DEF ExtractPage
<1>3. NextPage \in PageKinds /\ NextPage = document.pages[k + 1]
  <2>1. k + 1 \in 1 .. Len(document.pages)
    BY <1>1, <1>2
  <2> QED
    BY <1>1, <2>1, ElementOfSeq DEF NextPage
<1>4. /\ Fits(kept, child.total)
      /\ kept.truncated \/ kept.method = "failed" \/ kept.text = TextThere(NextPage)
  BY <1>1, <1>3, PageRecorded
<1>5. /\ child' = [child EXCEPT !.pages = Append(child.pages, record),
                               !.total = child.total + Bytes(kept.text), !.helper = FALSE]
      /\ UNCHANGED <<document, ocr, parent, pipe, disk>>
  BY DEF ExtractPage, OnlyChild
<1> HIDE DEF kept
<1>6. /\ record \in Recorded
      /\ record.number = k + 1 /\ record.text = kept.text /\ record.method = kept.method
      /\ record.truncated = kept.truncated
  BY <1>1, <1>4 DEF Fits, Recorded
<1> HIDE DEF record
<1> DEFINE more == Append(child.pages, record)
<1>7. /\ more \in Seq(Recorded) /\ Len(more) = k + 1 /\ more[k + 1] = record
      /\ \A i \in 1 .. k : more[i] = child.pages[i]
  BY <1>1, <1>6, AppendProperties
<1>8. TextBytes(more) = TextBytes(child.pages) + Bytes(record.text)
  BY <1>1, <1>6, TextBytesGrow
<1> HIDE DEF more
<1>9. /\ child'.pages = more /\ child'.total = child.total + Bytes(kept.text)
      /\ child'.at = "page" /\ child'.helper = FALSE /\ child'.status = child.status
      /\ child'.died = child.died /\ child'.group = child.group
  BY <1>2, <1>5 DEF IInv, Typed, ChildIs, more
<1>10. Typed'
  <2>1. child.total + Bytes(kept.text) \in Nat
    BY <1>1, <1>4 DEF Fits
  <2>2. ChildIs'
    BY <1>5, <1>7, <2>1 DEF IInv, Typed, ChildIs, more
  <2> QED
    BY <1>5, <2>2 DEF IInv, Typed, ParentIs
<1>11. PagesPassed'
  <2>1. Len(child'.pages) <= Len(document'.pages)
    BY <1>1, <1>2, <1>5, <1>7, <1>9
  <2>2. child'.total = TextBytes(child'.pages)
    BY <1>6, <1>8, <1>9 DEF IInv, PagesPassed
  <2>3. child'.total <= MaxTotalText
    BY <1>1, <1>4, <1>9 DEF Fits
  <2>4. \A page : TextThere(page)' = TextThere(page)
    BY <1>5 DEF TextThere, LooksLikeScan, Precheck, Stripped
  <2>5. ASSUME NEW i \in 1 .. Len(child'.pages) PROVE InPlace(i)'
    <3>1. CASE i = k + 1
      <4>1. child'.pages[i] = record /\ document'.pages[i] = NextPage
        BY <1>3, <1>5, <1>7, <1>9, <3>1
      <4> QED
        BY <1>4, <1>6, <2>4, <3>1, <4>1 DEF InPlace, Fits, Bytes
    <3>2. CASE i # k + 1
      <4>1. i \in 1 .. k
        BY <1>1, <1>7, <1>9, <3>2
      <4>2. child'.pages[i] = child.pages[i] /\ InPlace(i)
        BY <1>7, <1>9, <4>1 DEF IInv, PagesPassed
      <4> QED
        BY <1>5, <2>4, <4>2 DEF InPlace, Bytes
    <3> QED
      BY <3>1, <3>2
  <2>6. TextBytes(child'.pages) = TextBytes(child.pages)'
    BY DEF TextBytes, Bytes
  <2> QED
    BY <2>1, <2>2, <2>3, <2>5 DEF PagesPassed
<1>12. StatusEarned'
  BY <1>2, <1>5, <1>9 DEF IInv, StatusEarned, Countable
<1>13. ConcludedOfWhole'
  BY <1>2, <1>5, <1>9 DEF IInv, StatusEarned, ConcludedOfWhole, HonestResultsPass
<1>14. HelperBesides'
  BY <1>2, <1>9 DEF IInv, HelperBesides
<1>15. CleanedUp'
  BY <1>2, <1>5 DEF IInv, CleanedUp, AfterKill, Alive
<1> QED
  BY <1>10, <1>11, <1>12, <1>13, <1>14, <1>15 DEF IInv

\* A whole result is well formed, and as large as its texts are in JSON.
LEMMA WholeIsWellFormed ==
  ASSUME IInv, Whole, ~WellFormed(child.pages)
  PROVE  FALSE
<1>1. child.pages \in Seq(Recorded)
  BY DEF IInv, Typed, ChildIs
<1>2. Len(child.pages) \in 1 .. MaxPages
  BY DEF Whole, Countable
<1>3. TextBytes(child.pages) <= MaxTotalText
  BY DEF IInv, PagesPassed
<1>4. ASSUME NEW i \in 1 .. Len(child.pages)
      PROVE  /\ child.pages[i].number = i
             /\ child.pages[i].method \in {"native", "ocr", "failed"}
             /\ Bytes(child.pages[i].text) <= MaxPageText
  <2>1. child.pages[i] \in Recorded
    BY <1>1, ElementOfSeq
  <2>2. InPlace(i)
    BY DEF IInv, PagesPassed
  <2> QED
    BY <2>1, <2>2 DEF InPlace, Recorded, Methods
<1> QED
  BY <1>2, <1>3, <1>4 DEF WellFormed

LEMMA LargerByMore ==
  ASSUME NEW size \in Nat, NEW total \in Nat, NEW limit \in Nat, NEW more \in Nat,
         ~ (size <= limit + more), total <= limit
  PROVE  size - total > more
OBVIOUS

\* The request checks what the child left.
LEMMA StepCheckResult == ASSUME IInv, CheckResult PROVE IInv'
<1>1. /\ parent' = [parent EXCEPT !.at = "clean", !.outcome = Verdict]
      /\ UNCHANGED <<document, ocr, child, pipe, disk>> /\ parent.at = "check"
  BY DEF CheckResult, Conclude
<1>2. SameRecords
  BY <1>1 DEF SameRecords
<1>3. Verdict \in {"unreadable", "failed", "too large", "malformed", "extracted"}
  BY DEF Verdict
<1>4. Verdict \in {"too large", "malformed", "extracted"} => parent.status = "ok"
  BY DEF Verdict
<1>5. Verdict # "malformed"
  <2> SUFFICES ASSUME Verdict = "malformed" PROVE FALSE
    OBVIOUS
  <2>1. ~WellFormed(child.pages)
    BY DEF Verdict
  <2>2. Whole
    BY <1>4 DEF IInv, StatusEarned
  <2> QED
    BY <2>1, <2>2, WholeIsWellFormed
<1>6. Verdict = "too large" => ResultSize(child.pages) - child.total > ResultAllowance
  <2> SUFFICES ASSUME Verdict = "too large"
               PROVE  ResultSize(child.pages) - child.total > ResultAllowance
    OBVIOUS
  <2>1. ~SizeAllowed(child.pages)
    BY DEF Verdict
  <2>2. child.pages \in Seq(Recorded) /\ child.total \in Nat
    BY DEF IInv, Typed, ChildIs
  <2>3. ResultSize(child.pages) \in Nat
    BY <2>2, SizesAre, TotalIsNat DEF ResultSize
  <2>4. child.total <= MaxTotalText
    BY DEF IInv, PagesPassed
  <2>5. ~ (ResultSize(child.pages) <= MaxTotalText + ResultAllowance)
    BY <2>1 DEF SizeAllowed
  <2>7. MaxTotalText \in Nat /\ ResultAllowance \in Nat
    BY Bounds
  <2> QED
    BY ONLY <2>2, <2>3, <2>4, <2>5, <2>7, LargerByMore
<1> HIDE DEF Verdict
<1>7. Typed'
  <2>1. ParentIs'
    BY <1>1, <1>3 DEF IInv, Typed, ParentIs
  <2> QED
    BY <1>1, <2>1 DEF IInv, Typed, ChildIs
<1>8. /\ parent'.outcome = Verdict /\ parent'.at = "clean" /\ parent'.status = parent.status
      /\ parent'.missed = parent.missed
  BY <1>1 DEF IInv, Typed, ParentIs
<1>9. StatusEarned'
  BY <1>1, <1>2, <1>8, RecordsStay DEF IInv, StatusEarned
<1>10. ConcludedOfWhole'
  BY <1>1, <1>4, <1>5, <1>6, <1>8 DEF IInv, ConcludedOfWhole, HonestResultsPass, ResultSize
<1>11. HelperBesides' /\ CleanedUp'
  BY <1>1, <1>8 DEF IInv, HelperBesides, CleanedUp, AfterKill
<1> QED
  BY <1>2, <1>7, <1>9, <1>10, <1>11, RecordsStay DEF IInv

\* The invariant is inductive.
LEMMA Stepwise == IInv /\ [Next]_vars => IInv'
<1> SUFFICES ASSUME IInv, [Next]_vars PROVE IInv'
  OBVIOUS
<1>1. CASE ChildStep
  BY <1>1, StepLeadGroup, StepOpenDocument, StepStartHelper, StepExtractPage, StepCreateResult,
     StepRenameResult, StepSendStatus, StepExitChild, StepChildDies, StepHelperEnds DEF ChildStep
<1>2. CASE ParentStep
  BY <1>2, StepStartChild, StepAwaitStatus, StepJoinChild, StepCheckResult, StepKillLateChild,
     StepRemoveFiles DEF ParentStep
<1>3. CASE UNCHANGED vars
  <2>1. SameRecords /\ UNCHANGED <<parent, pipe, disk, child>>
    BY <1>3 DEF vars, SameRecords
  <2>2. Typed'
    <3>1. ChildIs'
      BY <2>1 DEF IInv, Typed, ChildIs
    <3>2. ParentIs'
      BY <2>1 DEF IInv, Typed, ParentIs
    <3>3. pipe' = pipe /\ disk' = disk /\ document' = document /\ ocr' = ocr
      BY <2>1 DEF SameRecords
    <3> QED
      BY <3>1, <3>2, <3>3 DEF IInv, Typed
  <2>3. HelperBesides' /\ CleanedUp'
    BY <2>1 DEF IInv, HelperBesides, CleanedUp, Alive, SameRecords
  <2>4. StatusEarned' /\ ConcludedOfWhole'
    BY <2>1, RecordsStay DEF IInv, StatusEarned, ConcludedOfWhole
  <2> QED
    BY <2>1, <2>2, <2>3, <2>4, RecordsStay DEF IInv
<1> QED
  BY <1>1, <1>2, <1>3 DEF Next

LEMMA Always == Spec => []IInv
<1>1. Init => IInv
  BY Initially
<1>2. IInv /\ [Next]_vars => IInv'
  BY Stepwise
<1> QED
  BY <1>1, <1>2, PTL DEF Spec

-----------------------------------------------------------------------------
(***************************************************************************)
(* Theorems.                                                               *)
(***************************************************************************)

\* The variables have their types, and the texts recorded are counted and within
\* the limit of the document (extract_pages).
THEOREM ExtractionTyped == Spec => []TypeOK
<1>1. IInv => TypeOK
  BY DEF IInv, Typed, ParentIs, PagesPassed, Statuses, TypeOK
<1> QED
  BY <1>1, Always, PTL

\* An extraction that is accepted has every page of the document, in its order, and
\* no page has lost text without being marked as truncated or failed, for any
\* documents and bounds (extract_pages, _bounded_page_text).
THEOREM LosesNothingUnsaid == Spec => []NothingLostUnsaid
<1>1. IInv => NothingLostUnsaid
  BY DEF IInv, PagesPassed, InPlace, StatusEarned, Whole, ConcludedOfWhole, NothingLostUnsaid
<1> QED
  BY <1>1, Always, PTL

\* The checks the request makes again refuse nothing that a child extracted, but
\* what grows in JSON by more than the allowance (_parse_result_payload).
THEOREM PassesHonestResults == Spec => []HonestResultsPass
<1>1. IInv => HonestResultsPass
  BY DEF IInv, ConcludedOfWhole
<1> QED
  BY <1>1, Always, PTL

\* After the request nothing the child started still runs and no extracted text is
\* left on disk, but for a child that died by itself or could not be killed when it
\* should have been (_kill_process_group, run_isolated_extraction).
THEOREM LeavesNothingBehind == Spec => []NothingLeftBehind
<1>1. IInv => NothingLeftBehind
  BY DEF IInv, HelperBesides, CleanedUp, AfterKill, Alive, Done, NothingLeftBehind
<1> QED
  BY <1>1, Always, PTL
=============================================================================
