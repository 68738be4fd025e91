------------------------ MODULE CaseIntegrityProofs ------------------------
(***************************************************************************)
(* Proofs about CaseIntegrity.                                             *)
(*                                                                         *)
(* The invariant speaks of what a reader will have read if nothing changes *)
(* any more (View): the tables he has got to as he read them, the others   *)
(* as they are now.  His own steps leave it as it is; what operations and  *)
(* damage do to it is all there is to prove.                               *)
(***************************************************************************)
EXTENDS CaseIntegrity, FiniteSetTheorems, SequenceTheorems, TLAPS

-----------------------------------------------------------------------------
(***************************************************************************)
(* What a reader will have read.                                           *)
(***************************************************************************)

PagesFor(d, runs)  == {page \in d.pages : \E run \in runs : page.run = run.id}
FilesFor(d, runs)  == {file \in d.files : file.source \in SourcesOf(runs)}
HashesFor(d, runs) == {<<f.source, f.hash>> : f \in FilesFor(d, runs)}

\* What is read of the history d by a reader at a step who has read so much: the
\* tables he has not got to as they are in d.
View(at, read, d) ==
  LET runs == IF at > 5 THEN read.runs ELSE d.runs
  IN  [audit     |-> IF at > 1 THEN read.audit     ELSE d.audit,
       packets   |-> IF at > 2 THEN read.packets   ELSE d.packets,
       revisions |-> IF at > 3 THEN read.revisions ELSE d.revisions,
       decisions |-> IF at > 4 THEN read.decisions ELSE d.decisions,
       runs      |-> runs,
       pages     |-> IF at > 6 THEN read.pages     ELSE PagesFor(d, runs),
       hashes    |-> IF at > 7 THEN read.hashes    ELSE HashesFor(d, runs),
       files     |-> IF at > 8 THEN read.files     ELSE FilesFor(d, runs)]

Snapshot(d) == View(1, NothingRead, d)

Fields(read) ==
  read = [audit |-> read.audit, packets |-> read.packets, revisions |-> read.revisions,
          decisions |-> read.decisions, runs |-> read.runs, pages |-> read.pages,
          hashes |-> read.hashes, files |-> read.files]

IsRead(v, n) ==
  /\ Fields(v)
  /\ EventTable(v.audit) /\ PacketTable(v.packets) /\ EventTable(v.decisions)
  /\ RevisionTable(v.revisions)
  /\ RunTable(v.runs, n) /\ PageTable(v.pages) /\ FileTable(v.files, n)
  /\ \A page \in v.pages : \E run \in v.runs : page.run = run.id
  /\ \A file \in v.files : file.source \in SourcesOf(v.runs)
  /\ \A h \in v.hashes : h = <<h[1], "written">> /\ h[1] \in SourcesOf(v.runs)

-----------------------------------------------------------------------------
(***************************************************************************)
(* The invariant, of whose parts those about a reader x are written with   *)
(* the history d of n operations and the checkpoint files an.              *)
(***************************************************************************)

Done(an) == {i \in DOMAIN an : an[i].complete}

\* What a checkpoint file says, if it is complete, is of a history that was verified.
AnchorTrue(a, n) ==
  /\ {"complete", "there", "by"} \subseteq DOMAIN a
  /\ a.complete => /\ {"checkpoint", "signed"} \subseteq DOMAIN a
                   /\ a.checkpoint = Checkpoint(a.signed)
                   /\ IsRead(a.signed, n) /\ VerifiesInternally(a.signed)

\* A job has one file, which is there as long as the job writes it.
JobsFile(r, x, an) ==
  /\ x.at \in 1 .. 9 => \A i \in DOMAIN an : an[i].by # r
  /\ x.at \in {10, 11} =>
       /\ \E i \in DOMAIN an : an[i].by = r
       /\ \A i \in DOMAIN an : an[i].by = r => an[i].there /\ (x.at = 10 => ~an[i].complete)
       /\ VerifiesInternally(x.read)

\* A file comes to be complete, and then stays so; one that is removed stays away.
Knew(x, an) ==
  /\ DOMAIN x.files \subseteq DOMAIN an
  /\ \A i \in DOMAIN x.files : /\ x.files[i].complete => an[i].complete
                               /\ an[i].there => x.files[i].there

\* The checkpoints that were there when x began, and are there yet.
Before(x, an) ==
  {i \in DOMAIN x.files : x.files[i] = [complete |-> TRUE, there |-> TRUE] /\ an[i].there}

NoneAfter(x, an, i) == i \in DOMAIN an /\ \A j \in Before(x, an) : j <= i

Retained(x, an) ==
  \E i \in DOMAIN an :
    an[i].complete /\ NoneAfter(x, an, i) /\ Within(an[i].signed, x.read)

IsReader(x) ==
  x = [at |-> x.at, read |-> x.read, damage |-> x.damage, files |-> x.files,
       found |-> x.found, status |-> x.status]

\* damaged is how often the history has been altered or restored.
GoodReader(r, x, d, n, damaged, an) ==
  /\ IsReader(x)
  /\ x.at \in 0 .. 11 /\ x.damage \in 0 .. damaged
  /\ Knew(x, an)
  /\ Fields(x.read)
  /\ x.at # 0 => x.status = "none" /\ IsRead(View(x.at, x.read, d), n)
  /\ r \in Jobs => JobsFile(r, x, an)
  /\ r \in Verifiers /\ x.at = 10 => x.found = 0 \/ NoneAfter(x, an, x.found)
  /\ r \in Verifiers /\ x.status \in Fine => Retained(x, an)

Ground ==
  /\ minted \in Nat /\ IsHistory(db, minted)
  /\ damage \in Seq({"alter", "lose", "rewrite", "restore"})
  /\ IsTable(anchors)
  /\ \A i \in DOMAIN anchors : AnchorTrue(anchors[i], minted)
  /\ reader = [r \in Readers |-> reader[r]]

Core ==
  /\ Ground
  /\ \A r \in Readers : GoodReader(r, reader[r], db, minted, Len(damage), anchors)

\* Of a history nobody has touched: it is in order, and whatever a reader will have
\* read, and whatever was signed, verifies and is contained in it.

Contained(v, w) == Within(v, w) /\ v.hashes \subseteq w.hashes

Sound(v) ==
  /\ VerifiesInternally(v)
  /\ \A name \in {"revisions", "runs", "pages"} :
       IsFiniteSet(v[name]) /\ \A a, b \in v[name] : a.id = b.id => a = b
  /\ v.hashes = {<<source, "written">> : source \in SourcesOf(v.runs)}

FilesOf(an) == [i \in DOMAIN an |-> [complete |-> an[i].complete, there |-> an[i].there]]

Last(an) == {i \in DOMAIN an : an[i].there /\ \A j \in DOMAIN an : an[j].there => j <= i}

Signed(a, d) == Sound(a.signed) /\ Contained(a.signed, Snapshot(d))

Following(r, x, d, an) ==
  /\ x.at # 0 =>
       /\ Sound(View(x.at, x.read, d)) /\ Contained(View(x.at, x.read, d), Snapshot(d))
       /\ x.files = FilesOf(an) =>
            \A i \in Done(an) : Contained(an[i].signed, View(x.at, x.read, d))
  /\ r \in Verifiers /\ x.at = 10 /\ x.files = FilesOf(an) /\ Last(an) # {} => x.found \in Last(an)
  /\ r \in Verifiers /\ x.at = 0 /\ x.files = FilesOf(an) /\ (\E i \in Last(an) : an[i].complete) =>
       x.status \in Fine \cup {"refused"}

Untouched ==
  damage = <<>> =>
    /\ InOrder(db, minted)
    /\ \A i \in Done(anchors) : Signed(anchors[i], db)
    /\ \A r \in Readers : Following(r, reader[r], db, anchors)

\* Of a history that was altered, or lost files: whatever a reader who began after that
\* will have read has a fault, that is, a row that is not the one hashed.

ChainFault(chain)      == \E i \in DOMAIN chain : chain[i].hash[2] # EventContent(chain[i])
PacketFault(chain)     == \E i \in DOMAIN chain : \/ chain[i].document # chain[i].recorded
                                                  \/ chain[i].pdf # chain[i].pdfHash
RevisionFault(rows)    == \E row \in rows : row.text # row.textHash
RunFault(runs)         == \E run \in runs : run.manifest[4] # run.text
PageFault(pages, runs) == \E page \in pages : /\ page.text # page.hash
                                              /\ \E run \in runs : page.run = run.id
FileFault(files, runs) ==
  \E run \in runs : \A file \in files : file.source = run.source => file.content # file.hash

Faulty(v) ==
  \/ ChainFault(v.audit) \/ PacketFault(v.packets) \/ RevisionFault(v.revisions)
  \/ ChainFault(v.decisions) \/ RunFault(v.runs)
  \/ PageFault(v.pages, v.runs) \/ FileFault(v.files, v.runs)

\* Hashes are those of what was written.
Authentic(d) ==
  /\ \A name \in {"audit", "decisions"} : \A i \in DOMAIN d[name] :
       d[name][i].hash[2] = <<d[name][i].id, "written">>
  /\ \A run \in d.runs : run.manifest[4] = "written"
  /\ \A page \in d.pages : \E run \in d.runs : page.run = run.id
  /\ \A file \in d.files : file.source \in SourcesOf(d.runs)

Found(x, d) ==
  x.damage > 0 =>
    /\ x.at # 0 => Faulty(View(x.at, x.read, d))
    /\ x.status \notin Fine \cup {"signed"}

Altered ==
  (\A i \in DOMAIN damage : damage[i] \in {"alter", "lose"}) =>
    /\ Authentic(db)
    /\ damage # <<>> => Faulty(Snapshot(db))
    /\ \A r \in Readers : Found(reader[r], db)

IInv == Core /\ Untouched /\ Altered

-----------------------------------------------------------------------------
(***************************************************************************)
(* Tables.                                                                 *)
(***************************************************************************)

LEMMA TableLength ==
  ASSUME NEW c, IsTable(c)
  PROVE  Len(c) \in Nat /\ DOMAIN c = 1 .. Len(c)
<1>1. c \in Seq({c[i] : i \in DOMAIN c})
  BY DEF IsTable
<1> QED
  BY <1>1, LenProperties

\* A sequence is a table.
LEMMA TableOf ==
  ASSUME NEW S, NEW c \in Seq(S)
  PROVE  IsTable(c)
<1>1. Len(c) \in Nat /\ c \in [1 .. Len(c) -> S] /\ DOMAIN c = 1 .. Len(c)
  BY LenProperties
<1> DEFINE T == {c[i] : i \in DOMAIN c}
<1>2. c \in [1 .. Len(c) -> T]
  BY <1>1
<1> HIDE DEF T
<1>3. c \in Seq(T)
  BY <1>1, <1>2, SeqDef
<1> QED
  BY <1>3 DEF T, IsTable

LEMMA TableOfFunction ==
  ASSUME NEW n \in Nat, NEW c, NEW S, c \in [1 .. n -> S]
  PROVE  IsTable(c) /\ Len(c) = n
<1>1. c \in Seq(S)
  BY SeqDef
<1> QED
  BY <1>1, TableOf, LenProperties

LEMMA TableGrows ==
  ASSUME NEW c, IsTable(c), NEW e
  PROVE  LET f == Append(c, e)
         IN  /\ IsTable(f) /\ Len(f) = Len(c) + 1
             /\ DOMAIN f = 1 .. Len(c) + 1
             /\ \A i \in 1 .. Len(c) : f[i] = c[i]
             /\ f[Len(c) + 1] = e
<1> DEFINE S == {c[i] : i \in DOMAIN c} \cup {e}
<1>1. c \in Seq({c[i] : i \in DOMAIN c})
  BY DEF IsTable
<1>2. c \in Seq(S)
  BY <1>1, SeqMonotonic
<1> HIDE DEF S
<1>3. e \in S
  BY DEF S
<1>4. Append(c, e) \in Seq(S)
  BY <1>2, <1>3, AppendProperties
<1>5. /\ Len(Append(c, e)) = Len(c) + 1
      /\ \A i \in 1 .. Len(c) : Append(c, e)[i] = c[i]
      /\ Append(c, e)[Len(c) + 1] = e
  BY <1>2, <1>3, AppendProperties
<1>6. IsTable(Append(c, e))
  BY <1>4, TableOf
<1>7. DOMAIN Append(c, e) = 1 .. Len(c) + 1
  BY <1>5, <1>6, TableLength
<1> QED
  BY <1>5, <1>6, <1>7

LEMMA TableAltered ==
  ASSUME NEW c, IsTable(c), NEW i \in DOMAIN c, NEW e
  PROVE  LET f == [c EXCEPT ![i] = e]
         IN  /\ IsTable(f) /\ DOMAIN f = DOMAIN c /\ Len(f) = Len(c)
             /\ f[i] = e /\ \A j \in DOMAIN c : j # i => f[j] = c[j]
<1>1. Len(c) \in Nat /\ DOMAIN c = 1 .. Len(c)
  BY TableLength
<1>0. c \in [1 .. Len(c) -> {c[j] : j \in DOMAIN c}]
  BY LenProperties DEF IsTable
<1> DEFINE f == [c EXCEPT ![i] = e]
           S == {c[j] : j \in DOMAIN c} \cup {e}
<1>2. f \in [1 .. Len(c) -> S]
  BY <1>0, <1>1
<1>3. IsTable(f) /\ Len(f) = Len(c)
  <2> HIDE DEF f, S
  <2> QED
    BY <1>1, <1>2, TableOfFunction
<1>4. DOMAIN f = DOMAIN c /\ f[i] = e /\ \A j \in DOMAIN c : j # i => f[j] = c[j]
  BY <1>0, <1>1
<1> QED
  BY <1>3, <1>4

LEMMA TableShortened ==
  ASSUME NEW c, IsTable(c), NEW n
  PROVE  LET f == Earlier(c, n)
         IN  /\ IsTable(f) /\ DOMAIN f \subseteq DOMAIN c
             /\ \A i \in DOMAIN f : f[i] = c[i]
<1> DEFINE K == {i \in DOMAIN c : c[i].id <= n}
           k == Cardinality(K)
           S == {c[i] : i \in DOMAIN c}
<1>1. Len(c) \in Nat /\ DOMAIN c = 1 .. Len(c)
  BY TableLength
<1>2. IsFiniteSet(1 .. Len(c)) /\ Cardinality(1 .. Len(c)) = Len(c)
  <2>1. 1 \in Int /\ Len(c) \in Int
    BY <1>1
  <2>2. IsFiniteSet(1 .. Len(c)) /\ Cardinality(1 .. Len(c)) = IF 1 > Len(c) THEN 0 ELSE Len(c) - 1 + 1
    BY ONLY <2>1, FS_Interval
  <2> QED
    BY <1>1, <2>2
<1>3. K \in SUBSET (1 .. Len(c))
  BY <1>1
<1> HIDE DEF K
<1>4. k \in Nat /\ k <= Len(c)
  BY <1>2, <1>3, FS_Subset, FS_CardinalityType
<1>5. Earlier(c, n) = SubSeq(c, 1, k)
  BY DEF Earlier, K
<1> HIDE DEF k
<1>6. \A i \in 1 .. k : c[i] \in S
  BY <1>1, <1>4
<1> HIDE DEF S
<1>k. 1 \in Int /\ k \in Int
  BY <1>4
<1>7. /\ SubSeq(c, 1, k) \in Seq(S)
      /\ Len(SubSeq(c, 1, k)) = IF 1 <= k THEN k - 1 + 1 ELSE 0
      /\ \A i \in 1 .. k - 1 + 1 : SubSeq(c, 1, k)[i] = c[1 + i - 1]
  BY <1>k, <1>6, SubSeqProperties
<1>8. /\ DOMAIN SubSeq(c, 1, k) = 1 .. k
      /\ \A i \in 1 .. k : SubSeq(c, 1, k)[i] = c[i]
  BY <1>4, <1>7, LenProperties
<1>9. IsTable(SubSeq(c, 1, k))
  BY <1>7, TableOf
<1> QED
  BY <1>1, <1>4, <1>5, <1>8, <1>9

LEMMA EventsGrow ==
  ASSUME NEW c, EventTable(c), NEW id
  PROVE  EventTable(Append(c, Event(c, id)))
<1> DEFINE e == Event(c, id)
           f == Append(c, e)
<1>1. IsTable(c)
  BY DEF EventTable
<1>2. e = [id |-> e.id, text |-> e.text, prev |-> e.prev, hash |-> e.hash]
  BY DEF Event
<1> HIDE DEF e
<1>3. /\ IsTable(f) /\ DOMAIN f = 1 .. Len(c) + 1 /\ f[Len(c) + 1] = e
      /\ \A i \in 1 .. Len(c) : f[i] = c[i]
  BY <1>1, TableGrows
<1>4. Len(c) \in Nat /\ DOMAIN c = 1 .. Len(c)
  BY <1>1, TableLength
<1> HIDE DEF f
<1>5. ASSUME NEW i \in DOMAIN f
      PROVE  f[i] = [id |-> f[i].id, text |-> f[i].text, prev |-> f[i].prev, hash |-> f[i].hash]
  <2>1. CASE i \in 1 .. Len(c)
    BY <1>3, <1>4, <2>1 DEF EventTable
  <2>2. CASE i = Len(c) + 1
    BY <1>2, <1>3, <2>2
  <2> QED
    BY <1>3, <1>4, <2>1, <2>2
<1>6. EventTable(f)
  BY <1>3, <1>5 DEF EventTable
<1> QED
  BY <1>6 DEF f, e

LEMMA EventsShortened ==
  ASSUME NEW c, EventTable(c), NEW n
  PROVE  EventTable(Earlier(c, n))
BY TableShortened DEF EventTable

LEMMA PacketsShortened ==
  ASSUME NEW c, PacketTable(c), NEW n
  PROVE  PacketTable(Earlier(c, n))
BY TableShortened DEF PacketTable

\* One row is changed, which keeps its columns.
LEMMA EventsAltered ==
  ASSUME NEW c, EventTable(c), NEW i \in DOMAIN c, NEW e,
         e = [id |-> e.id, text |-> e.text, prev |-> e.prev, hash |-> e.hash]
  PROVE  EventTable([c EXCEPT ![i] = e])
<1> DEFINE f == [c EXCEPT ![i] = e]
<1>1. /\ IsTable(f) /\ DOMAIN f = DOMAIN c
      /\ f[i] = e /\ \A j \in DOMAIN c : j # i => f[j] = c[j]
  BY TableAltered DEF EventTable
<1> HIDE DEF f
<1>2. ASSUME NEW j \in DOMAIN f
      PROVE  f[j] = [id |-> f[j].id, text |-> f[j].text, prev |-> f[j].prev, hash |-> f[j].hash]
  BY <1>1 DEF EventTable
<1>3. EventTable(f)
  BY <1>1, <1>2 DEF EventTable
<1> QED
  BY <1>3 DEF f

LEMMA PacketsAltered ==
  ASSUME NEW c, PacketTable(c), NEW i \in DOMAIN c, NEW e,
         e = [id |-> e.id, document |-> e.document, recorded |-> "written",
              pdf |-> e.pdf, pdfHash |-> "written", prev |-> e.prev, hash |-> e.hash]
  PROVE  PacketTable([c EXCEPT ![i] = e])
<1> DEFINE f == [c EXCEPT ![i] = e]
<1>1. /\ IsTable(f) /\ DOMAIN f = DOMAIN c
      /\ f[i] = e /\ \A j \in DOMAIN c : j # i => f[j] = c[j]
  BY TableAltered DEF PacketTable
<1> HIDE DEF f
<1>2. ASSUME NEW j \in DOMAIN f
      PROVE  f[j] = [id |-> f[j].id, document |-> f[j].document, recorded |-> "written",
                     pdf |-> f[j].pdf, pdfHash |-> "written", prev |-> f[j].prev,
                     hash |-> f[j].hash]
  BY <1>1 DEF PacketTable
<1>3. PacketTable(f)
  BY <1>1, <1>2 DEF PacketTable
<1> QED
  BY <1>3 DEF f

-----------------------------------------------------------------------------
(***************************************************************************)
(* What an operation does to the tables, and what may be done to them.     *)
(***************************************************************************)

PacketRow(chain, id) ==
  [id |-> id, document |-> "written", recorded |-> "written", pdf |-> "written",
   pdfHash |-> "written", prev |-> Latest(chain),
   hash |-> ChainHash(Latest(chain), <<id, "written", "written", "written">>)]

HashOfActive(d, s) ==
  IF RevisionOf(d, s) = {} THEN NoHash ELSE (CHOOSE row \in RevisionOf(d, s) : TRUE).hash

RevisionRow(d, s, id) ==
  [id |-> id, section |-> s, parent |-> d.active[s], text |-> "written", textHash |-> "written",
   prev |-> HashOfActive(d, s),
   hash |-> ChainHash(HashOfActive(d, s), <<id, s, d.active[s], "written", "written">>)]

PageRow(id) == [id |-> id, run |-> id, text |-> "written", hash |-> "written"]
FileRow(id) == [source |-> id, content |-> "written", hash |-> "written"]
RunRow(id) ==
  [id |-> id, source |-> id, text |-> "written",
   manifest |-> <<"written", id, id, "written", {<<id, "written">>}>>]

IsRecord(d) ==
  d = [audit |-> d.audit, packets |-> d.packets, decisions |-> d.decisions,
       revisions |-> d.revisions, active |-> d.active, runs |-> d.runs,
       pages |-> d.pages, files |-> d.files]

\* A history of these tables.
Of(A, P, D, V, C, U, G, F) ==
  [audit |-> A, packets |-> P, decisions |-> D, revisions |-> V, active |-> C, runs |-> U,
   pages |-> G, files |-> F]

\* e is d and what one operation appends to it.
Grown(d, e, id) ==
  /\ IsRecord(e)
  /\ e.audit = Append(d.audit, Event(d.audit, id))
  /\ e.decisions \in {d.decisions, Append(d.decisions, Event(d.decisions, id))}
  /\ e.packets \in {d.packets, Append(d.packets, PacketRow(d.packets, id))}
  /\ \/ e.revisions = d.revisions /\ e.active = d.active
     \/ \E s \in Sections : /\ e.revisions = d.revisions \cup {RevisionRow(d, s, id)}
                            /\ e.active = [d.active EXCEPT ![s] = id]
  /\ \/ e.runs = d.runs /\ e.pages = d.pages /\ e.files = d.files
     \/ /\ e.runs  = d.runs \cup {RunRow(id)}
        /\ e.pages = d.pages \cup {PageRow(id)}
        /\ e.files = d.files \cup {FileRow(id)}

\* What an operation does to the tables, whichever it is.
LEMMA OperateGrows ==
  ASSUME IsRecord(db), Operate
  PROVE  Grown(db, db', minted + 1) /\ minted' = minted + 1
<1> DEFINE id == minted + 1
<1>1. db' \in Appending(id) /\ minted' = id
  BY DEF Operate
<1> HIDE DEF id
<1> DEFINE A == db.audit
           P == db.packets
           D == db.decisions
           V == db.revisions
           C == db.active
           U == db.runs
           G == db.pages
           F == db.files
           B == Append(A, Event(A, id))
           w == Of(B, P, D, V, C, U, G, F)
<1>0. db = Of(A, P, D, V, C, U, G, F)
  BY DEF Of, IsRecord
<1>2. WithEvent(db, id) = w
  <2>1. WithEvent(db, id) = [db EXCEPT !.audit = B]
    BY DEF WithEvent
  <2>2. [Of(A, P, D, V, C, U, G, F) EXCEPT !.audit = B] = w
    <3> HIDE DEF A, P, D, V, C, U, G, F, B
    <3> QED
      BY DEF Of
  <2> QED
    BY <1>0, <2>1, <2>2
<1>3. ASSUME db' = w PROVE Grown(db, db', id)
  <2>1. IsRecord(db') /\ db'.audit = B /\ db'.packets = P /\ db'.decisions = D
        /\ db'.revisions = V /\ db'.active = C /\ db'.runs = U /\ db'.pages = G /\ db'.files = F
    <3> HIDE DEF A, P, D, V, C, U, G, F, B
    <3> QED
      BY <1>3 DEF Of, IsRecord
  <2> QED
    BY <2>1 DEF Grown
<1>4. ASSUME db' = WithDecision(db, id) PROVE Grown(db, db', id)
  <2> DEFINE x == Append(D, Event(D, id))
  <2>1. db' = [w EXCEPT !.decisions = x]
    <3>1. w.decisions = D
      BY DEF Of
    <3> HIDE DEF w, D
    <3> QED
      BY <1>2, <1>4, <3>1 DEF WithDecision
  <2>2. db' = Of(B, P, x, V, C, U, G, F)
    <3> HIDE DEF A, P, D, V, C, U, G, F, B, x
    <3> QED
      BY <2>1 DEF Of
  <2>3. IsRecord(db') /\ db'.audit = B /\ db'.packets = P /\ db'.decisions = x
        /\ db'.revisions = V /\ db'.active = C /\ db'.runs = U /\ db'.pages = G /\ db'.files = F
    <3> HIDE DEF A, P, D, V, C, U, G, F, B, x
    <3> QED
      BY <2>2 DEF Of, IsRecord
  <2> QED
    BY <2>3 DEF Grown
<1>5. ASSUME db' = WithPacket(db, id) PROVE Grown(db, db', id)
  <2> DEFINE x == Append(P, PacketRow(P, id))
  <2>1. db' = [w EXCEPT !.packets = x]
    <3>1. w.packets = P
      BY DEF Of
    <3> HIDE DEF w, P
    <3> QED
      BY <1>2, <1>5, <3>1 DEF WithPacket, PacketRow
  <2>2. db' = Of(B, x, D, V, C, U, G, F)
    <3> HIDE DEF A, P, D, V, C, U, G, F, B, x
    <3> QED
      BY <2>1 DEF Of
  <2>3. IsRecord(db') /\ db'.audit = B /\ db'.packets = x /\ db'.decisions = D
        /\ db'.revisions = V /\ db'.active = C /\ db'.runs = U /\ db'.pages = G /\ db'.files = F
    <3> HIDE DEF A, P, D, V, C, U, G, F, B, x
    <3> QED
      BY <2>2 DEF Of, IsRecord
  <2> QED
    BY <2>3 DEF Grown
<1>6. ASSUME db' = WithDocument(db, id) PROVE Grown(db, db', id)
  <2> DEFINE x == F \cup {FileRow(id)}
             y == G \cup {PageRow(id)}
             z == U \cup {RunRow(id)}
  <2>1. db' = [[[w EXCEPT !.files = x] EXCEPT !.pages = y] EXCEPT !.runs = z]
    <3>1. w.files = F /\ w.pages = G /\ w.runs = U
      BY DEF Of
    <3>2. Manifest("written", [id |-> id, source |-> id, text |-> "written"], {PageRow(id)})
            = RunRow(id).manifest
      BY DEF Manifest, PageRow, RunRow
    <3>3. db' = [w EXCEPT !.files = @ \cup {FileRow(id)}, !.pages = @ \cup {PageRow(id)},
                          !.runs = @ \cup {RunRow(id)}]
      <4> HIDE DEF w
      <4> QED
        BY <1>2, <1>6, <3>2 DEF WithDocument, FileRow, PageRow, RunRow
    <3>4. db' = [w EXCEPT !.files = x, !.pages = y, !.runs = z]
      <4> HIDE DEF w, F, G, U
      <4> QED
        BY <3>1, <3>3
    <3> HIDE DEF w, x, y, z
    <3> QED
      BY <3>4
  <2>2. db' = Of(B, P, D, V, C, z, y, x)
    <3> HIDE DEF A, P, D, V, C, U, G, F, B, x, y, z
    <3> QED
      BY <2>1 DEF Of
  <2>3. IsRecord(db') /\ db'.audit = B /\ db'.packets = P /\ db'.decisions = D
        /\ db'.revisions = V /\ db'.active = C /\ db'.runs = z /\ db'.pages = y /\ db'.files = x
    <3> HIDE DEF A, P, D, V, C, U, G, F, B, x, y, z
    <3> QED
      BY <2>2 DEF Of, IsRecord
  <2> QED
    BY <2>3 DEF Grown
<1>7. ASSUME NEW s \in Sections, db' = WithRevision(db, s, id)
      PROVE  Grown(db, db', id)
  <2> DEFINE x == [C EXCEPT ![s] = id]
             y == V \cup {RevisionRow(db, s, id)}
  <2>1. db' = [[w EXCEPT !.active = x] EXCEPT !.revisions = y]
    <3>1. w.active = C /\ w.revisions = V
      BY DEF Of
    <3>2. db' = [w EXCEPT !.active[s] = id, !.revisions = @ \cup {RevisionRow(db, s, id)}]
      <4> HIDE DEF w
      <4> QED
        BY <1>2, <1>7 DEF WithRevision, RevisionRow, HashOfActive
    <3>3. db' = [w EXCEPT !.active = x, !.revisions = y]
      <4> HIDE DEF w, C, V
      <4> QED
        BY <3>1, <3>2
    <3> HIDE DEF w, x, y
    <3> QED
      BY <3>3
  <2>2. db' = Of(B, P, D, y, x, U, G, F)
    <3> HIDE DEF A, P, D, V, C, U, G, F, B, x, y
    <3> QED
      BY <2>1 DEF Of
  <2>3. IsRecord(db') /\ db'.audit = B /\ db'.packets = P /\ db'.decisions = D
        /\ db'.revisions = y /\ db'.active = x /\ db'.runs = U /\ db'.pages = G /\ db'.files = F
    <3> HIDE DEF A, P, D, V, C, U, G, F, B, x, y
    <3> QED
      BY <2>2 DEF Of, IsRecord
  <2> QED
    BY <2>3 DEF Grown
<1>8. Grown(db, db', id)
  BY <1>1, <1>2, <1>3, <1>4, <1>5, <1>6, <1>7 DEF Appending
<1> QED
  BY <1>1, <1>8 DEF id

LEMMA HistoryGrows ==
  ASSUME NEW d, NEW e, NEW n \in Nat, IsHistory(d, n), Grown(d, e, n + 1)
  PROVE  IsHistory(e, n + 1)
<1>1. EventTable(e.audit) /\ EventTable(e.decisions)
  <2>1. EventTable(d.audit) /\ EventTable(d.decisions)
    BY DEF IsHistory
  <2>2. /\ EventTable(Append(d.audit, Event(d.audit, n + 1)))
        /\ EventTable(Append(d.decisions, Event(d.decisions, n + 1)))
    BY <2>1, EventsGrow
  <2>3. /\ e.audit = Append(d.audit, Event(d.audit, n + 1))
        /\ \/ e.decisions = d.decisions
           \/ e.decisions = Append(d.decisions, Event(d.decisions, n + 1))
    BY DEF Grown
  <2> QED
    BY <2>1, <2>2, <2>3
<1>2. PacketTable(e.packets)
  <2> SUFFICES PacketTable(Append(d.packets, PacketRow(d.packets, n + 1)))
    BY DEF IsHistory, Grown
  <2> DEFINE c == d.packets
             x == PacketRow(c, n + 1)
             f == Append(c, x)
  <2>1. PacketTable(c)
    BY DEF IsHistory
  <2>2. x = [id |-> x.id, document |-> x.document, recorded |-> "written", pdf |-> x.pdf,
             pdfHash |-> "written", prev |-> x.prev, hash |-> x.hash]
    BY DEF PacketRow
  <2> HIDE DEF x, c
  <2>3. /\ IsTable(f) /\ DOMAIN f = 1 .. Len(c) + 1 /\ f[Len(c) + 1] = x
        /\ \A i \in 1 .. Len(c) : f[i] = c[i]
    BY <2>1, TableGrows DEF PacketTable
  <2>4. Len(c) \in Nat /\ DOMAIN c = 1 .. Len(c)
    BY <2>1, TableLength DEF PacketTable
  <2> HIDE DEF f
  <2>5. ASSUME NEW i \in DOMAIN f
        PROVE  f[i] = [id |-> f[i].id, document |-> f[i].document, recorded |-> "written",
                       pdf |-> f[i].pdf, pdfHash |-> "written", prev |-> f[i].prev,
                       hash |-> f[i].hash]
    <3>1. CASE i \in 1 .. Len(c)
      BY <2>1, <2>3, <2>4, <3>1 DEF PacketTable
    <3>2. CASE i = Len(c) + 1
      BY <2>2, <2>3, <3>2
    <3> QED
      BY <2>3, <2>4, <3>1, <3>2
  <2>6. PacketTable(f)
    BY <2>3, <2>5 DEF PacketTable
  <2> QED
    BY <2>6 DEF f, x, c
<1>3. RevisionTable(e.revisions) /\ e.active = [s \in Sections |-> e.active[s]]
  <2>1. CASE e.revisions = d.revisions /\ e.active = d.active
    BY <2>1 DEF IsHistory
  <2>2. ASSUME NEW s \in Sections, e.revisions = d.revisions \cup {RevisionRow(d, s, n + 1)},
               e.active = [d.active EXCEPT ![s] = n + 1]
        PROVE  RevisionTable(e.revisions) /\ e.active = [t \in Sections |-> e.active[t]]
    <3>1. RevisionTable(e.revisions)
      BY <2>2 DEF IsHistory, RevisionTable, RevisionRow
    <3>2. d.active = [t \in Sections |-> d.active[t]]
      BY DEF IsHistory
    <3> QED
      BY <2>2, <3>1, <3>2
  <2> QED
    BY <2>1, <2>2 DEF Grown
<1>4. RunTable(e.runs, n + 1) /\ PageTable(e.pages) /\ FileTable(e.files, n + 1)
  <2>1. RunTable(d.runs, n + 1) /\ PageTable(d.pages) /\ FileTable(d.files, n + 1)
    BY DEF IsHistory, RunTable, FileTable
  <2>2. CASE e.runs = d.runs /\ e.pages = d.pages /\ e.files = d.files
    BY <2>1, <2>2
  <2>3. CASE /\ e.runs  = d.runs \cup {RunRow(n + 1)}
             /\ e.pages = d.pages \cup {PageRow(n + 1)}
             /\ e.files = d.files \cup {FileRow(n + 1)}
    <3>1. RunTable(e.runs, n + 1)
      BY <2>1, <2>3 DEF RunTable, RunRow
    <3>2. PageTable(e.pages)
      BY <2>1, <2>3 DEF PageTable, PageRow
    <3>3. \A file \in d.files : file.source \in 1 .. n
      BY DEF IsHistory, FileTable
    <3>4. FileTable(e.files, n + 1)
      BY <2>1, <2>3, <3>3 DEF FileTable, FileRow
    <3> QED
      BY <3>1, <3>2, <3>4
  <2> QED
    BY <2>2, <2>3 DEF Grown
<1>5. IsRecord(e)
  BY DEF Grown
<1> QED
  BY <1>1, <1>2, <1>3, <1>4, <1>5 DEF IsHistory, IsRecord

\* e is d with one row altered, or a document's bytes lost.
Touched(d, e) ==
  LET Replace(A, P, D, V, U, G, F) == e = Of(A, P, D, V, d.active, U, G, F)
      A == d.audit
      P == d.packets
      D == d.decisions
      V == d.revisions
      U == d.runs
      G == d.pages
      F == d.files
      AlterEvent(c, i) == [c EXCEPT ![i] = [c[i] EXCEPT !.text = "altered"]]
  IN  \/ \E i \in DOMAIN A : Replace(AlterEvent(A, i), P, D, V, U, G, F)
      \/ \E i \in DOMAIN D : Replace(A, P, AlterEvent(D, i), V, U, G, F)
      \/ \E i \in DOMAIN P, field \in {"document", "pdf"} :
           Replace(A, [P EXCEPT ![i] = [P[i] EXCEPT ![field] = "altered"]], D, V, U, G, F)
      \/ \E row \in V : Replace(A, P, D, AlterRow(V, row, "text"), U, G, F)
      \/ \E row \in U : Replace(A, P, D, V, AlterRow(U, row, "text"), G, F)
      \/ \E row \in G : Replace(A, P, D, V, U, AlterRow(G, row, "text"), F)
      \/ \E row \in F : Replace(A, P, D, V, U, G, AlterRow(F, row, "content"))
      \/ \E row \in F : Replace(A, P, D, V, U, G, F \ {row})

\* An alteration changes one row and no hash, or a file; a loss takes one file.
LEMMA AlterTouches ==
  ASSUME IsRecord(db), Alter \/ Lose
  PROVE  Touched(db, db')
<1> DEFINE A == db.audit
           P == db.packets
           D == db.decisions
           V == db.revisions
           C == db.active
           U == db.runs
           G == db.pages
           F == db.files
<1>0. db = Of(A, P, D, V, C, U, G, F)
  BY DEF Of, IsRecord
<1>1. ASSUME NEW i \in DOMAIN db["audit"], db' = [db EXCEPT !["audit"][i].text = "altered"]
      PROVE  Touched(db, db')
  <2>1. db' = Of([A EXCEPT ![i] = [A[i] EXCEPT !.text = "altered"]], P, D, V, C, U, G, F)
    <3>1. [Of(A, P, D, V, C, U, G, F) EXCEPT !["audit"][i].text = "altered"]
            = Of([A EXCEPT ![i] = [A[i] EXCEPT !.text = "altered"]], P, D, V, C, U, G, F)
      <4> HIDE DEF A, P, D, V, C, U, G, F
      <4> QED
        BY DEF Of
    <3> QED
      BY <1>0, <1>1, <3>1
  <2>2. i \in DOMAIN A
    BY <1>1
  <2> QED
    BY <2>1, <2>2 DEF Touched
<1>2. ASSUME NEW i \in DOMAIN db["decisions"], db' = [db EXCEPT !["decisions"][i].text = "altered"]
      PROVE  Touched(db, db')
  <2>1. db' = Of(A, P, [D EXCEPT ![i] = [D[i] EXCEPT !.text = "altered"]], V, C, U, G, F)
    <3>1. [Of(A, P, D, V, C, U, G, F) EXCEPT !["decisions"][i].text = "altered"]
            = Of(A, P, [D EXCEPT ![i] = [D[i] EXCEPT !.text = "altered"]], V, C, U, G, F)
      <4> HIDE DEF A, P, D, V, C, U, G, F
      <4> QED
        BY DEF Of
    <3> QED
      BY <1>0, <1>2, <3>1
  <2>2. i \in DOMAIN D
    BY <1>2
  <2> QED
    BY <2>1, <2>2 DEF Touched
<1>3. ASSUME NEW i \in DOMAIN db.packets, NEW field \in {"document", "pdf"},
             db' = [db EXCEPT !.packets[i][field] = "altered"]
      PROVE  Touched(db, db')
  <2>1. db' = Of(A, [P EXCEPT ![i] = [P[i] EXCEPT ![field] = "altered"]], D, V, C, U, G, F)
    <3>1. [Of(A, P, D, V, C, U, G, F) EXCEPT !.packets[i][field] = "altered"]
            = Of(A, [P EXCEPT ![i] = [P[i] EXCEPT ![field] = "altered"]], D, V, C, U, G, F)
      <4> HIDE DEF A, P, D, V, C, U, G, F
      <4> QED
        BY DEF Of
    <3> QED
      BY <1>0, <1>3, <3>1
  <2> QED
    BY <2>1 DEF Touched
<1>4. ASSUME NEW row \in db["revisions"], db' = [db EXCEPT !["revisions"] = AlterRow(@, row, "text")]
      PROVE  Touched(db, db')
  <2>1. db' = Of(A, P, D, AlterRow(V, row, "text"), C, U, G, F)
    <3>1. [Of(A, P, D, V, C, U, G, F) EXCEPT !["revisions"] = AlterRow(@, row, "text")]
            = Of(A, P, D, AlterRow(V, row, "text"), C, U, G, F)
      <4> HIDE DEF A, P, D, V, C, U, G, F
      <4> QED
        BY DEF Of
    <3> QED
      BY <1>0, <1>4, <3>1
  <2> QED
    BY <1>4, <2>1 DEF Touched
<1>5. ASSUME NEW row \in db["runs"], db' = [db EXCEPT !["runs"] = AlterRow(@, row, "text")]
      PROVE  Touched(db, db')
  <2>1. db' = Of(A, P, D, V, C, AlterRow(U, row, "text"), G, F)
    <3>1. [Of(A, P, D, V, C, U, G, F) EXCEPT !["runs"] = AlterRow(@, row, "text")]
            = Of(A, P, D, V, C, AlterRow(U, row, "text"), G, F)
      <4> HIDE DEF A, P, D, V, C, U, G, F
      <4> QED
        BY DEF Of
    <3> QED
      BY <1>0, <1>5, <3>1
  <2> QED
    BY <1>5, <2>1 DEF Touched
<1>6. ASSUME NEW row \in db["pages"], db' = [db EXCEPT !["pages"] = AlterRow(@, row, "text")]
      PROVE  Touched(db, db')
  <2>1. db' = Of(A, P, D, V, C, U, AlterRow(G, row, "text"), F)
    <3>1. [Of(A, P, D, V, C, U, G, F) EXCEPT !["pages"] = AlterRow(@, row, "text")]
            = Of(A, P, D, V, C, U, AlterRow(G, row, "text"), F)
      <4> HIDE DEF A, P, D, V, C, U, G, F
      <4> QED
        BY DEF Of
    <3> QED
      BY <1>0, <1>6, <3>1
  <2> QED
    BY <1>6, <2>1 DEF Touched
<1>7. ASSUME NEW row \in db.files, db' = [db EXCEPT !.files = AlterRow(@, row, "content")]
      PROVE  Touched(db, db')
  <2>1. db' = Of(A, P, D, V, C, U, G, AlterRow(F, row, "content"))
    <3>1. [Of(A, P, D, V, C, U, G, F) EXCEPT !.files = AlterRow(@, row, "content")]
            = Of(A, P, D, V, C, U, G, AlterRow(F, row, "content"))
      <4> HIDE DEF A, P, D, V, C, U, G, F
      <4> QED
        BY DEF Of
    <3> QED
      BY <1>0, <1>7, <3>1
  <2> QED
    BY <1>7, <2>1 DEF Touched
<1>8. ASSUME NEW row \in db.files, db' = [db EXCEPT !.files = @ \ {row}]
      PROVE  Touched(db, db')
  <2>1. db' = Of(A, P, D, V, C, U, G, F \ {row})
    <3>1. [Of(A, P, D, V, C, U, G, F) EXCEPT !.files = @ \ {row}]
            = Of(A, P, D, V, C, U, G, F \ {row})
      <4> HIDE DEF A, P, D, V, C, U, G, F
      <4> QED
        BY DEF Of
    <3> QED
      BY <1>0, <1>8, <3>1
  <2> QED
    BY <1>8, <2>1 DEF Touched
<1>9. CASE Alter
  <2>1. \/ \E name \in {"audit", "decisions"} : \E i \in DOMAIN db[name] :
             db' = [db EXCEPT ![name][i].text = "altered"]
        \/ \E i \in DOMAIN db.packets, field \in {"document", "pdf"} :
             db' = [db EXCEPT !.packets[i][field] = "altered"]
        \/ \E name \in {"revisions", "runs", "pages"} : \E row \in db[name] :
             db' = [db EXCEPT ![name] = AlterRow(@, row, "text")]
        \/ \E row \in db.files : db' = [db EXCEPT !.files = AlterRow(@, row, "content")]
    BY <1>9 DEF Alter, Damage
  <2> QED
    BY <1>1, <1>2, <1>3, <1>4, <1>5, <1>6, <1>7, <2>1
<1>10. CASE Lose
  BY <1>8, <1>10 DEF Lose, Damage
<1> QED
  BY <1>9, <1>10

-----------------------------------------------------------------------------
(***************************************************************************)
(* A history stays one.                                                    *)
(***************************************************************************)

LEMMA FieldsOf ==
  ASSUME NEW A, NEW P, NEW D, NEW V, NEW C, NEW U, NEW G, NEW F, NEW e,
         e = Of(A, P, D, V, C, U, G, F)
  PROVE  /\ IsRecord(e)
         /\ e.audit = A /\ e.packets = P /\ e.decisions = D /\ e.revisions = V
         /\ e.active = C /\ e.runs = U /\ e.pages = G /\ e.files = F
BY DEF Of, IsRecord

LEMMA HistoryOf ==
  ASSUME NEW A, NEW P, NEW D, NEW V, NEW C, NEW U, NEW G, NEW F, NEW e, NEW n,
         e = Of(A, P, D, V, C, U, G, F),
         EventTable(A), PacketTable(P), EventTable(D), RevisionTable(V),
         C = [s \in Sections |-> C[s]],
         RunTable(U, n), PageTable(G), FileTable(F, n)
  PROVE  IsHistory(e, n)
<1>1. /\ IsRecord(e)
      /\ e.audit = A /\ e.packets = P /\ e.decisions = D /\ e.revisions = V
      /\ e.active = C /\ e.runs = U /\ e.pages = G /\ e.files = F
  BY FieldsOf
<1> QED
  BY <1>1 DEF IsHistory, IsRecord

LEMMA TablesAltered ==
  ASSUME NEW n
  PROVE  /\ \A V : \A row \in V : RevisionTable(V) => RevisionTable(AlterRow(V, row, "text"))
         /\ \A U : \A row \in U : RunTable(U, n) => RunTable(AlterRow(U, row, "text"), n)
         /\ \A G : \A row \in G : PageTable(G) => PageTable(AlterRow(G, row, "text"))
         /\ \A F : \A row \in F : FileTable(F, n) => /\ FileTable(AlterRow(F, row, "content"), n)
                                                     /\ FileTable(F \ {row}, n)
<1>1. ASSUME NEW V, NEW row \in V, RevisionTable(V)
      PROVE  RevisionTable(AlterRow(V, row, "text"))
  <2> DEFINE x == [row EXCEPT !.text = "altered"]
  <2>1. row = [id |-> row.id, section |-> row.section, parent |-> row.parent, text |-> row.text,
               textHash |-> "written", prev |-> row.prev, hash |-> row.hash]
    BY <1>1 DEF RevisionTable
  <2>2. x = [id |-> x.id, section |-> x.section, parent |-> x.parent, text |-> x.text,
             textHash |-> "written", prev |-> x.prev, hash |-> x.hash]
    BY <2>1
  <2>3. AlterRow(V, row, "text") = (V \ {row}) \cup {x}
    BY Zenon DEF AlterRow
  <2> HIDE DEF x
  <2> QED
    BY <1>1, <2>2, <2>3 DEF RevisionTable
<1>2. ASSUME NEW U, NEW row \in U, RunTable(U, n)
      PROVE  RunTable(AlterRow(U, row, "text"), n)
  <2> DEFINE x == [row EXCEPT !.text = "altered"]
  <2>1. /\ row = [id |-> row.id, source |-> row.source, text |-> row.text, manifest |-> row.manifest]
        /\ row.id \in 1 .. n /\ row.source \in 1 .. n
    BY <1>2 DEF RunTable
  <2>2. /\ x = [id |-> x.id, source |-> x.source, text |-> x.text, manifest |-> x.manifest]
        /\ x.id \in 1 .. n /\ x.source \in 1 .. n
    BY <2>1
  <2>3. AlterRow(U, row, "text") = (U \ {row}) \cup {x}
    BY Zenon DEF AlterRow
  <2> HIDE DEF x
  <2> QED
    BY <1>2, <2>2, <2>3 DEF RunTable
<1>3. ASSUME NEW G, NEW row \in G, PageTable(G)
      PROVE  PageTable(AlterRow(G, row, "text"))
  <2> DEFINE x == [row EXCEPT !.text = "altered"]
  <2>1. row = [id |-> row.id, run |-> row.run, text |-> row.text, hash |-> "written"]
    BY <1>3 DEF PageTable
  <2>2. x = [id |-> x.id, run |-> x.run, text |-> x.text, hash |-> "written"]
    BY <2>1
  <2>3. AlterRow(G, row, "text") = (G \ {row}) \cup {x}
    BY Zenon DEF AlterRow
  <2> HIDE DEF x
  <2> QED
    BY <1>3, <2>2, <2>3 DEF PageTable
<1>4. ASSUME NEW F, NEW row \in F, FileTable(F, n)
      PROVE  FileTable(AlterRow(F, row, "content"), n) /\ FileTable(F \ {row}, n)
  <2> DEFINE x == [row EXCEPT !.content = "altered"]
  <2>1. /\ row = [source |-> row.source, content |-> row.content, hash |-> "written"]
        /\ row.source \in 1 .. n
    BY <1>4 DEF FileTable
  <2>2. /\ x = [source |-> x.source, content |-> x.content, hash |-> "written"]
        /\ x.source \in 1 .. n /\ x.source = row.source
    BY <2>1
  <2>3. AlterRow(F, row, "content") = (F \ {row}) \cup {x}
    BY Zenon DEF AlterRow
  <2> HIDE DEF x
  <2>4. FileTable((F \ {row}) \cup {x}, n)
    <3>1. \A a, b \in (F \ {row}) \cup {x} : a.source = b.source => a = b
      <4>1. \A a, b \in F : a.source = b.source => a = b
        BY <1>4 DEF FileTable
      <4> QED
        BY <2>2, <4>1
    <3>2. \A file \in F : /\ file = [source |-> file.source, content |-> file.content, hash |-> "written"]
                          /\ file.source \in 1 .. n
      BY <1>4 DEF FileTable
    <3>3. \A file \in (F \ {row}) \cup {x} :
             /\ file = [source |-> file.source, content |-> file.content, hash |-> "written"]
             /\ file.source \in 1 .. n
      BY <2>2, <3>2
    <3> QED
      BY <3>1, <3>3 DEF FileTable
  <2>5. FileTable(F \ {row}, n)
    BY <1>4 DEF FileTable
  <2> QED
    BY <2>3, <2>4, <2>5
<1> QED
  BY <1>1, <1>2, <1>3, <1>4

LEMMA HistoryTouched ==
  ASSUME NEW d, NEW e, NEW n, IsHistory(d, n), Touched(d, e)
  PROVE  IsHistory(e, n)
<1> DEFINE A == d.audit
           P == d.packets
           D == d.decisions
           V == d.revisions
           C == d.active
           U == d.runs
           G == d.pages
           F == d.files
<1>0. /\ EventTable(A) /\ PacketTable(P) /\ EventTable(D) /\ RevisionTable(V)
      /\ C = [s \in Sections |-> C[s]]
      /\ RunTable(U, n) /\ PageTable(G) /\ FileTable(F, n)
  BY DEF IsHistory
<1>e. ASSUME NEW c, EventTable(c), NEW i \in DOMAIN c
      PROVE  EventTable([c EXCEPT ![i] = [c[i] EXCEPT !.text = "altered"]])
  <2> DEFINE x == [c[i] EXCEPT !.text = "altered"]
  <2>1. c[i] = [id |-> c[i].id, text |-> c[i].text, prev |-> c[i].prev, hash |-> c[i].hash]
    BY <1>e DEF EventTable
  <2>2. x = [id |-> x.id, text |-> x.text, prev |-> x.prev, hash |-> x.hash]
    BY <2>1
  <2> HIDE DEF x
  <2>3. EventTable([c EXCEPT ![i] = x])
    BY <1>e, <2>2, EventsAltered
  <2> QED
    BY <2>3 DEF x
<1>p. ASSUME NEW i \in DOMAIN P, NEW field \in {"document", "pdf"}
      PROVE  PacketTable([P EXCEPT ![i] = [P[i] EXCEPT ![field] = "altered"]])
  <2> HIDE DEF P
  <2> DEFINE o == P[i]
             x == [o EXCEPT ![field] = "altered"]
  <2>1. o = [id |-> o.id, document |-> o.document, recorded |-> "written", pdf |-> o.pdf,
             pdfHash |-> "written", prev |-> o.prev, hash |-> o.hash]
    BY <1>0 DEF PacketTable
  <2>2. x = [id |-> x.id, document |-> x.document, recorded |-> "written", pdf |-> x.pdf,
             pdfHash |-> "written", prev |-> x.prev, hash |-> x.hash]
    <3> HIDE DEF o
    <3>1. CASE field = "document"
      <4>1. x = [o EXCEPT !.document = "altered"]
        BY <3>1, Zenon
      <4> QED
        BY <2>1, <4>1
    <3>2. CASE field = "pdf"
      <4>1. x = [o EXCEPT !.pdf = "altered"]
        BY <3>2, Zenon
      <4> QED
        BY <2>1, <4>1
    <3> QED
      BY <3>1, <3>2
  <2> HIDE DEF x
  <2>3. PacketTable([P EXCEPT ![i] = x])
    BY <1>0, <2>2, PacketsAltered
  <2> QED
    BY <2>3 DEF x
<1> HIDE DEF A, P, D, V, C, U, G, F
<1>1. ASSUME NEW i \in DOMAIN A,
             e = Of([A EXCEPT ![i] = [A[i] EXCEPT !.text = "altered"]], P, D, V, C, U, G, F)
      PROVE  IsHistory(e, n)
  BY <1>0, <1>e, <1>1, HistoryOf
<1>2. ASSUME NEW i \in DOMAIN D,
             e = Of(A, P, [D EXCEPT ![i] = [D[i] EXCEPT !.text = "altered"]], V, C, U, G, F)
      PROVE  IsHistory(e, n)
  BY <1>0, <1>e, <1>2, HistoryOf
<1>3. ASSUME NEW i \in DOMAIN P, NEW field \in {"document", "pdf"},
             e = Of(A, [P EXCEPT ![i] = [P[i] EXCEPT ![field] = "altered"]], D, V, C, U, G, F)
      PROVE  IsHistory(e, n)
  BY <1>0, <1>p, <1>3, HistoryOf
<1>4. ASSUME NEW row \in V, e = Of(A, P, D, AlterRow(V, row, "text"), C, U, G, F)
      PROVE  IsHistory(e, n)
  BY <1>0, <1>4, TablesAltered, HistoryOf
<1>5. ASSUME NEW row \in U, e = Of(A, P, D, V, C, AlterRow(U, row, "text"), G, F)
      PROVE  IsHistory(e, n)
  BY <1>0, <1>5, TablesAltered, HistoryOf
<1>6. ASSUME NEW row \in G, e = Of(A, P, D, V, C, U, AlterRow(G, row, "text"), F)
      PROVE  IsHistory(e, n)
  BY <1>0, <1>6, TablesAltered, HistoryOf
<1>7. ASSUME NEW row \in F, \/ e = Of(A, P, D, V, C, U, G, AlterRow(F, row, "content"))
                            \/ e = Of(A, P, D, V, C, U, G, F \ {row})
      PROVE  IsHistory(e, n)
  BY <1>0, <1>7, TablesAltered, HistoryOf
<1>8. \/ \E i \in DOMAIN A :
           e = Of([A EXCEPT ![i] = [A[i] EXCEPT !.text = "altered"]], P, D, V, C, U, G, F)
      \/ \E i \in DOMAIN D :
           e = Of(A, P, [D EXCEPT ![i] = [D[i] EXCEPT !.text = "altered"]], V, C, U, G, F)
      \/ \E i \in DOMAIN P, field \in {"document", "pdf"} :
           e = Of(A, [P EXCEPT ![i] = [P[i] EXCEPT ![field] = "altered"]], D, V, C, U, G, F)
      \/ \E row \in V : e = Of(A, P, D, AlterRow(V, row, "text"), C, U, G, F)
      \/ \E row \in U : e = Of(A, P, D, V, C, AlterRow(U, row, "text"), G, F)
      \/ \E row \in G : e = Of(A, P, D, V, C, U, AlterRow(G, row, "text"), F)
      \/ \E row \in F : \/ e = Of(A, P, D, V, C, U, G, AlterRow(F, row, "content"))
                        \/ e = Of(A, P, D, V, C, U, G, F \ {row})
  BY DEF Touched, A, P, D, V, C, U, G, F
<1> QED
  BY <1>1, <1>2, <1>3, <1>4, <1>5, <1>6, <1>7, <1>8

LEMMA HistoryRewritten ==
  ASSUME NEW n, IsHistory(db, n), Rewrite
  PROVE  IsHistory(db', n)
<1> DEFINE A == db.audit
           P == db.packets
           D == db.decisions
           V == db.revisions
           C == db.active
           U == db.runs
           G == db.pages
           F == db.files
           i == Len(A)
           last == [A[i] EXCEPT !.text = "altered"]
           x == [last EXCEPT !.hash = ChainHash(last.prev, EventContent(last))]
<1>0. /\ EventTable(A) /\ PacketTable(P) /\ EventTable(D) /\ RevisionTable(V)
      /\ C = [s \in Sections |-> C[s]]
      /\ RunTable(U, n) /\ PageTable(G) /\ FileTable(F, n)
      /\ db = Of(A, P, D, V, C, U, G, F)
  BY DEF IsHistory, Of
<1>1. i > 0 /\ db' = [db EXCEPT !.audit[i] = x]
  BY DEF Rewrite, Damage
<1>2. i \in DOMAIN A
  BY <1>0, <1>1, TableLength DEF EventTable
<1>3. x = [id |-> x.id, text |-> x.text, prev |-> x.prev, hash |-> x.hash]
  <2>1. A[i] = [id |-> A[i].id, text |-> A[i].text, prev |-> A[i].prev, hash |-> A[i].hash]
    BY <1>0, <1>2 DEF EventTable
  <2> HIDE DEF A, i
  <2>2. last = [id |-> last.id, text |-> last.text, prev |-> last.prev, hash |-> last.hash]
    BY <2>1
  <2> HIDE DEF last
  <2> QED
    BY <2>2
<1> HIDE DEF x, i
<1>4. EventTable([A EXCEPT ![i] = x])
  <2> HIDE DEF A
  <2> QED
    BY <1>0, <1>2, <1>3, EventsAltered
<1>5. db' = Of([A EXCEPT ![i] = x], P, D, V, C, U, G, F)
  <2>1. [Of(A, P, D, V, C, U, G, F) EXCEPT !.audit[i] = x] = Of([A EXCEPT ![i] = x], P, D, V, C, U, G, F)
    <3> HIDE DEF A, P, D, V, C, U, G, F
    <3> QED
      BY DEF Of
  <2> QED
    BY <1>0, <1>1, <2>1
<1> HIDE DEF A, P, D, V, C, U, G, F
<1> QED
  BY <1>0, <1>4, <1>5, HistoryOf

LEMMA HistoryRestored ==
  ASSUME NEW n, IsHistory(db, n), Restore
  PROVE  IsHistory(db', n)
<1>1. PICK m : db' = Until(db, m)
  BY DEF Restore, Damage
<1> DEFINE d == db
           e == Until(d, m)
           V == {row \in d.revisions : row.id <= m}
           U == {row \in d.runs : row.id <= m}
           G == {row \in d.pages : row.id <= m}
           F == {file \in d.files : file.source <= m}
           C == e.active
<1>2. C = [s \in Sections |-> C[s]]
  BY DEF Until
<1>3. e = Of(Earlier(d.audit, m), Earlier(d.packets, m), Earlier(d.decisions, m), V, C, U, G, F)
  BY DEF Of, Until
<1>4. /\ EventTable(d.audit) /\ PacketTable(d.packets) /\ EventTable(d.decisions)
      /\ RevisionTable(d.revisions)
      /\ RunTable(d.runs, n) /\ PageTable(d.pages) /\ FileTable(d.files, n)
  BY DEF IsHistory
<1>5. /\ EventTable(Earlier(d.audit, m)) /\ PacketTable(Earlier(d.packets, m))
      /\ EventTable(Earlier(d.decisions, m))
  BY <1>4, EventsShortened, PacketsShortened
<1>6. RevisionTable(V) /\ RunTable(U, n) /\ PageTable(G) /\ FileTable(F, n)
  BY <1>4 DEF RevisionTable, RunTable, PageTable, FileTable
<1> HIDE DEF d, e, V, U, G, F, C
<1>7. IsHistory(e, n)
  BY <1>2, <1>3, <1>5, <1>6, HistoryOf
<1> QED
  BY <1>1, <1>7 DEF e, d

-----------------------------------------------------------------------------
(***************************************************************************)
(* What is read.                                                           *)
(***************************************************************************)

LEMMA ViewFields ==
  ASSUME NEW at, NEW read, NEW d, NEW v, v = View(at, read, d)
  PROVE  /\ Fields(v)
         /\ v.audit     = IF at > 1 THEN read.audit     ELSE d.audit
         /\ v.packets   = IF at > 2 THEN read.packets   ELSE d.packets
         /\ v.revisions = IF at > 3 THEN read.revisions ELSE d.revisions
         /\ v.decisions = IF at > 4 THEN read.decisions ELSE d.decisions
         /\ v.runs      = IF at > 5 THEN read.runs      ELSE d.runs
         /\ v.pages     = IF at > 6 THEN read.pages     ELSE PagesFor(d, v.runs)
         /\ v.hashes    = IF at > 7 THEN read.hashes    ELSE HashesFor(d, v.runs)
         /\ v.files     = IF at > 8 THEN read.files     ELSE FilesFor(d, v.runs)
<1> DEFINE runs == IF at > 5 THEN read.runs ELSE d.runs
           A == IF at > 1 THEN read.audit     ELSE d.audit
           P == IF at > 2 THEN read.packets   ELSE d.packets
           V == IF at > 3 THEN read.revisions ELSE d.revisions
           D == IF at > 4 THEN read.decisions ELSE d.decisions
           G == IF at > 6 THEN read.pages     ELSE PagesFor(d, runs)
           H == IF at > 7 THEN read.hashes    ELSE HashesFor(d, runs)
           F == IF at > 8 THEN read.files     ELSE FilesFor(d, runs)
<1>1. v = [audit |-> A, packets |-> P, revisions |-> V, decisions |-> D, runs |-> runs,
           pages |-> G, hashes |-> H, files |-> F]
  BY DEF View
<1> HIDE DEF runs, A, P, V, D, G, H, F
<1>2. /\ Fields(v)
      /\ v.audit = A /\ v.packets = P /\ v.revisions = V /\ v.decisions = D /\ v.runs = runs
      /\ v.pages = G /\ v.hashes = H /\ v.files = F
  BY <1>1 DEF Fields
<1> QED
  BY <1>2 DEF runs, A, P, V, D, G, H, F

LEMMA SnapshotFields ==
  ASSUME NEW d, NEW v, v = Snapshot(d)
  PROVE  /\ Fields(v)
         /\ v.audit = d.audit /\ v.packets = d.packets /\ v.revisions = d.revisions
         /\ v.decisions = d.decisions /\ v.runs = d.runs /\ v.pages = PagesFor(d, d.runs)
         /\ v.hashes = HashesFor(d, d.runs) /\ v.files = FilesFor(d, d.runs)
<1>1. v = View(1, NothingRead, d)
  BY DEF Snapshot
<1> QED
  BY <1>1, ViewFields

\* Nothing has been read, or everything.
LEMMA ViewAtTheEnds ==
  ASSUME NEW read, NEW d
  PROVE  /\ View(1, read, d) = Snapshot(d)
         /\ \A at \in Int : at > 8 /\ Fields(read) => View(at, read, d) = read
<1>1. View(1, read, d) = Snapshot(d)
  BY DEF View, Snapshot
<1>2. ASSUME NEW at \in Int, at > 8, Fields(read)
      PROVE  View(at, read, d) = read
  <2>1. at > 1 /\ at > 2 /\ at > 3 /\ at > 4 /\ at > 5 /\ at > 6 /\ at > 7
    BY <1>2
  <2>2. View(at, read, d) = [audit |-> read.audit, packets |-> read.packets,
          revisions |-> read.revisions, decisions |-> read.decisions, runs |-> read.runs,
          pages |-> read.pages, hashes |-> read.hashes, files |-> read.files]
    BY <1>2, <2>1 DEF View
  <2> QED
    BY <1>2, <2>2 DEF Fields
<1> QED
  BY <1>1, <1>2

\* A table is read: what will have been read stays the same.
LEMMA ViewStays ==
  ASSUME NEW at \in 1 .. 8, NEW read, Fields(read), NEW d,
         NEW rows, rows = Select(Tables[at], read), d = db
  PROVE  LET next == [read EXCEPT ![Tables[at]] = rows]
         IN  Fields(next) /\ View(at + 1, next, d) = View(at, read, d)
<1> DEFINE A == read.audit
           P == read.packets
           V == read.revisions
           D == read.decisions
           U == read.runs
           G == read.pages
           H == read.hashes
           F == read.files
           R(a, p, v, dd, u, g, h, f) ==
             [audit |-> a, packets |-> p, revisions |-> v, decisions |-> dd, runs |-> u,
              pages |-> g, hashes |-> h, files |-> f]
<1>0. read = R(A, P, V, D, U, G, H, F)
  BY DEF Fields
<1>1. CASE at = 1
  <2>1. Tables[at] = "audit" /\ rows = d.audit
    BY <1>1 DEF Tables, Select
  <2>2. [read EXCEPT !["audit"] = rows] = R(rows, P, V, D, U, G, H, F)
    <3>1. [R(A, P, V, D, U, G, H, F) EXCEPT !["audit"] = rows] = R(rows, P, V, D, U, G, H, F)
      <4> HIDE DEF A, P, V, D, U, G, H, F
      <4> QED
        OBVIOUS
    <3> QED
      BY <1>0, <3>1
  <2> QED
    BY <1>1, <2>1, <2>2 DEF View, Fields
<1>2. CASE at = 2
  <2>1. Tables[at] = "packets" /\ rows = d.packets
    BY <1>2 DEF Tables, Select
  <2>2. [read EXCEPT !["packets"] = rows] = R(A, rows, V, D, U, G, H, F)
    <3>1. [R(A, P, V, D, U, G, H, F) EXCEPT !["packets"] = rows] = R(A, rows, V, D, U, G, H, F)
      <4> HIDE DEF A, P, V, D, U, G, H, F
      <4> QED
        OBVIOUS
    <3> QED
      BY <1>0, <3>1
  <2> QED
    BY <1>2, <2>1, <2>2 DEF View, Fields
<1>3. CASE at = 3
  <2>1. Tables[at] = "revisions" /\ rows = d.revisions
    BY <1>3 DEF Tables, Select
  <2>2. [read EXCEPT !["revisions"] = rows] = R(A, P, rows, D, U, G, H, F)
    <3>1. [R(A, P, V, D, U, G, H, F) EXCEPT !["revisions"] = rows] = R(A, P, rows, D, U, G, H, F)
      <4> HIDE DEF A, P, V, D, U, G, H, F
      <4> QED
        OBVIOUS
    <3> QED
      BY <1>0, <3>1
  <2> QED
    BY <1>3, <2>1, <2>2 DEF View, Fields
<1>4. CASE at = 4
  <2>1. Tables[at] = "decisions" /\ rows = d.decisions
    BY <1>4 DEF Tables, Select
  <2>2. [read EXCEPT !["decisions"] = rows] = R(A, P, V, rows, U, G, H, F)
    <3>1. [R(A, P, V, D, U, G, H, F) EXCEPT !["decisions"] = rows] = R(A, P, V, rows, U, G, H, F)
      <4> HIDE DEF A, P, V, D, U, G, H, F
      <4> QED
        OBVIOUS
    <3> QED
      BY <1>0, <3>1
  <2> QED
    BY <1>4, <2>1, <2>2 DEF View, Fields
<1>5. CASE at = 5
  <2>1. Tables[at] = "runs" /\ rows = d.runs
    BY <1>5 DEF Tables, Select
  <2>2. [read EXCEPT !["runs"] = rows] = R(A, P, V, D, rows, G, H, F)
    <3>1. [R(A, P, V, D, U, G, H, F) EXCEPT !["runs"] = rows] = R(A, P, V, D, rows, G, H, F)
      <4> HIDE DEF A, P, V, D, U, G, H, F
      <4> QED
        OBVIOUS
    <3> QED
      BY <1>0, <3>1
  <2> QED
    BY <1>5, <2>1, <2>2 DEF View, Fields
<1>6. CASE at = 6
  <2>1. Tables[at] = "pages" /\ rows = PagesFor(d, U)
    BY <1>6 DEF Tables, Select, PagesFor
  <2>2. [read EXCEPT !["pages"] = rows] = R(A, P, V, D, U, rows, H, F)
    <3>1. [R(A, P, V, D, U, G, H, F) EXCEPT !["pages"] = rows] = R(A, P, V, D, U, rows, H, F)
      <4> HIDE DEF A, P, V, D, U, G, H, F
      <4> QED
        OBVIOUS
    <3> QED
      BY <1>0, <3>1
  <2> QED
    BY <1>6, <2>1, <2>2 DEF View, Fields
<1>7. CASE at = 7
  <2>1. Tables[at] = "hashes" /\ rows = HashesFor(d, U)
    BY <1>7 DEF Tables, Select, HashesFor, FilesFor
  <2>2. [read EXCEPT !["hashes"] = rows] = R(A, P, V, D, U, G, rows, F)
    <3>1. [R(A, P, V, D, U, G, H, F) EXCEPT !["hashes"] = rows] = R(A, P, V, D, U, G, rows, F)
      <4> HIDE DEF A, P, V, D, U, G, H, F
      <4> QED
        OBVIOUS
    <3> QED
      BY <1>0, <3>1
  <2> QED
    BY <1>7, <2>1, <2>2 DEF View, Fields
<1>8. CASE at = 8
  <2>1. Tables[at] = "files" /\ rows = FilesFor(d, U)
    BY <1>8 DEF Tables, Select, FilesFor
  <2>2. [read EXCEPT !["files"] = rows] = R(A, P, V, D, U, G, H, rows)
    <3>1. [R(A, P, V, D, U, G, H, F) EXCEPT !["files"] = rows] = R(A, P, V, D, U, G, H, rows)
      <4> HIDE DEF A, P, V, D, U, G, H, F
      <4> QED
        OBVIOUS
    <3> QED
      BY <1>0, <3>1
  <2> QED
    BY <1>8, <2>1, <2>2 DEF View, Fields
<1> QED
  BY <1>1, <1>2, <1>3, <1>4, <1>5, <1>6, <1>7, <1>8

\* A history that is there is what will be read.
LEMMA SnapshotIsRead ==
  ASSUME NEW d, NEW n, IsHistory(d, n)
  PROVE  IsRead(Snapshot(d), n)
<1> DEFINE v == Snapshot(d)
<1>1. /\ Fields(v)
      /\ v.audit = d.audit /\ v.packets = d.packets /\ v.revisions = d.revisions
      /\ v.decisions = d.decisions /\ v.runs = d.runs /\ v.pages = PagesFor(d, d.runs)
      /\ v.hashes = HashesFor(d, d.runs) /\ v.files = FilesFor(d, d.runs)
  BY SnapshotFields
<1>2. /\ EventTable(d.audit) /\ PacketTable(d.packets) /\ EventTable(d.decisions)
      /\ RevisionTable(d.revisions)
      /\ RunTable(d.runs, n) /\ PageTable(d.pages) /\ FileTable(d.files, n)
  BY DEF IsHistory
<1> HIDE DEF v
<1>3. PageTable(v.pages) /\ FileTable(v.files, n)
  BY <1>1, <1>2 DEF PageTable, FileTable, PagesFor, FilesFor
<1>4. /\ \A page \in v.pages : \E run \in v.runs : page.run = run.id
      /\ \A file \in v.files : file.source \in SourcesOf(v.runs)
  BY <1>1 DEF PagesFor, FilesFor
<1>5. \A h \in v.hashes : h = <<h[1], "written">> /\ h[1] \in SourcesOf(v.runs)
  <2> SUFFICES ASSUME NEW f \in FilesFor(d, d.runs)
               PROVE  f.hash = "written" /\ f.source \in SourcesOf(d.runs)
    BY <1>1 DEF HashesFor
  <2>1. f \in d.files /\ f.source \in SourcesOf(d.runs)
    BY DEF FilesFor
  <2>2. f = [source |-> f.source, content |-> f.content, hash |-> "written"]
    BY <1>2, <2>1 DEF FileTable
  <2> QED
    BY <2>1, <2>2
<1>6. IsRead(v, n)
  BY <1>1, <1>2, <1>3, <1>4, <1>5 DEF IsRead
<1> QED
  BY <1>6 DEF v

\* The history changes while it is read: what will be read is still a history.
LEMMA StillRead ==
  ASSUME NEW at \in 1 .. 11, NEW read, NEW d, NEW e, NEW n \in Nat, NEW m \in Nat, n <= m,
         IsRead(View(at, read, d), n), IsHistory(e, m)
  PROVE  IsRead(View(at, read, e), m)
<1> DEFINE v == View(at, read, d)
           w == View(at, read, e)
<1>v. /\ v.audit     = IF at > 1 THEN read.audit     ELSE d.audit
      /\ v.packets   = IF at > 2 THEN read.packets   ELSE d.packets
      /\ v.revisions = IF at > 3 THEN read.revisions ELSE d.revisions
      /\ v.decisions = IF at > 4 THEN read.decisions ELSE d.decisions
      /\ v.runs      = IF at > 5 THEN read.runs      ELSE d.runs
      /\ v.pages     = IF at > 6 THEN read.pages     ELSE PagesFor(d, v.runs)
      /\ v.hashes    = IF at > 7 THEN read.hashes    ELSE HashesFor(d, v.runs)
      /\ v.files     = IF at > 8 THEN read.files     ELSE FilesFor(d, v.runs)
  BY ViewFields
<1>w. /\ Fields(w)
      /\ w.audit     = IF at > 1 THEN read.audit     ELSE e.audit
      /\ w.packets   = IF at > 2 THEN read.packets   ELSE e.packets
      /\ w.revisions = IF at > 3 THEN read.revisions ELSE e.revisions
      /\ w.decisions = IF at > 4 THEN read.decisions ELSE e.decisions
      /\ w.runs      = IF at > 5 THEN read.runs      ELSE e.runs
      /\ w.pages     = IF at > 6 THEN read.pages     ELSE PagesFor(e, w.runs)
      /\ w.hashes    = IF at > 7 THEN read.hashes    ELSE HashesFor(e, w.runs)
      /\ w.files     = IF at > 8 THEN read.files     ELSE FilesFor(e, w.runs)
  BY ViewFields
<1>0. IsRead(v, n)
  OBVIOUS
<1> HIDE DEF v, w
<1>1. EventTable(w.audit) /\ PacketTable(w.packets) /\ EventTable(w.decisions)
      /\ RevisionTable(w.revisions)
  BY <1>0, <1>v, <1>w DEF IsRead, IsHistory
<1>2. RunTable(w.runs, m)
  <2>1. RunTable(v.runs, m)
    BY <1>0 DEF IsRead, RunTable
  <2> QED
    BY <1>v, <1>w, <2>1 DEF IsHistory
<1>3. PageTable(w.pages) /\ \A page \in w.pages : \E run \in w.runs : page.run = run.id
  <2>1. CASE at > 6
    <3>1. w.pages = v.pages /\ w.runs = v.runs
      BY <1>v, <1>w, <2>1
    <3> QED
      BY <1>0, <3>1 DEF IsRead
  <2>2. CASE ~(at > 6)
    BY <1>w, <2>2 DEF IsHistory, PagesFor, PageTable
  <2> QED
    BY <2>1, <2>2
<1>4. FileTable(w.files, m) /\ \A file \in w.files : file.source \in SourcesOf(w.runs)
  <2>1. CASE at > 8
    <3>1. w.files = v.files /\ w.runs = v.runs
      BY <1>v, <1>w, <2>1
    <3> QED
      BY <1>0, <3>1 DEF IsRead, FileTable
  <2>2. CASE ~(at > 8)
    BY <1>w, <2>2 DEF IsHistory, FilesFor, FileTable
  <2> QED
    BY <2>1, <2>2
<1>5. \A h \in w.hashes : h = <<h[1], "written">> /\ h[1] \in SourcesOf(w.runs)
  <2>1. CASE at > 7
    <3>1. w.hashes = v.hashes /\ w.runs = v.runs
      BY <1>v, <1>w, <2>1
    <3> QED
      BY <1>0, <3>1 DEF IsRead
  <2>2. CASE ~(at > 7)
    <3>1. w.hashes = HashesFor(e, w.runs)
      BY <1>w, <2>2
    <3> SUFFICES ASSUME NEW f \in FilesFor(e, w.runs)
                 PROVE  f.hash = "written" /\ f.source \in SourcesOf(w.runs)
      BY <3>1 DEF HashesFor
    <3>2. f \in e.files /\ f.source \in SourcesOf(w.runs)
      BY DEF FilesFor
    <3>3. f = [source |-> f.source, content |-> f.content, hash |-> "written"]
      BY <3>2 DEF IsHistory, FileTable
    <3> QED
      BY <3>2, <3>3
  <2> QED
    BY <2>1, <2>2
<1>6. IsRead(w, m)
  BY <1>w, <1>1, <1>2, <1>3, <1>4, <1>5 DEF IsRead
<1> QED
  BY <1>6 DEF w

-----------------------------------------------------------------------------
(***************************************************************************)
(* A row that has been altered does not verify, and nothing that is        *)
(* appended or altered after it makes it verify.                           *)
(***************************************************************************)

\* A history with a fault does not verify.
LEMMA FaultyFails ==
  ASSUME NEW v, VerifiesInternally(v)
  PROVE  ~Faulty(v)
<1>1. ASSUME NEW c, VerifyChain(c)
      PROVE  ~ChainFault(c)
  BY <1>1 DEF VerifyChain, ChainFault, ChainHash
<1>2. ~PacketFault(v.packets)
  BY DEF VerifiesInternally, VerifyPackets, PacketFault
<1>3. ~RevisionFault(v.revisions)
  BY DEF VerifiesInternally, VerifyRevisions, VerifyLineage, OfSection, RevisionFault
<1>4. VerifyExtractions(v)
  BY DEF VerifiesInternally
<1>5. ~RunFault(v.runs)
  BY <1>4 DEF VerifyExtractions, Manifest, RunFault
<1>6. ~PageFault(v.pages, v.runs)
  BY <1>4 DEF VerifyExtractions, PagesOf, PageFault
<1>7. ~FileFault(v.files, v.runs)
  BY <1>4 DEF VerifyExtractions, FileFault
<1>8. ~ChainFault(v.audit) /\ ~ChainFault(v.decisions)
  BY <1>1 DEF VerifiesInternally
<1> QED
  BY <1>2, <1>3, <1>5, <1>6, <1>7, <1>8 DEF Faulty

\* The rows of d are in e, apart from what they say.
KeepsFaults(d, e) ==
  /\ ChainFault(d.audit) => ChainFault(e.audit)
  /\ ChainFault(d.decisions) => ChainFault(e.decisions)
  /\ PacketFault(d.packets) => PacketFault(e.packets)
  /\ RevisionFault(d.revisions) => RevisionFault(e.revisions)
  /\ \A a \in d.runs : \E b \in e.runs :
       /\ b.id = a.id /\ b.source = a.source
       /\ a.manifest[4] # a.text => b.manifest[4] # b.text
  /\ \A a \in d.pages : \E b \in e.pages : b.run = a.run /\ (a.text # a.hash => b.text # b.hash)

\* A file of d that is not as its hash says is so in e, if it is there.
KeepsFiles(d, e, n) ==
  \A b \in e.files :
    b.source \in 1 .. n =>
      \E a \in d.files : a.source = b.source /\ (a.content # a.hash => b.content # b.hash)

\* A fault a reader is going to read is still one after a change that keeps faults.
LEMMA FaultsStay ==
  ASSUME NEW at \in 1 .. 11, NEW read, NEW d, NEW e, NEW n,
         IsRead(View(at, read, d), n), KeepsFaults(d, e), KeepsFiles(d, e, n),
         Faulty(View(at, read, d))
  PROVE  Faulty(View(at, read, e))
<1> DEFINE v == View(at, read, d)
           w == View(at, read, e)
<1>v. /\ v.audit     = IF at > 1 THEN read.audit     ELSE d.audit
      /\ v.packets   = IF at > 2 THEN read.packets   ELSE d.packets
      /\ v.revisions = IF at > 3 THEN read.revisions ELSE d.revisions
      /\ v.decisions = IF at > 4 THEN read.decisions ELSE d.decisions
      /\ v.runs      = IF at > 5 THEN read.runs      ELSE d.runs
      /\ v.pages     = IF at > 6 THEN read.pages     ELSE PagesFor(d, v.runs)
      /\ v.files     = IF at > 8 THEN read.files     ELSE FilesFor(d, v.runs)
  BY ViewFields
<1>w. /\ w.audit     = IF at > 1 THEN read.audit     ELSE e.audit
      /\ w.packets   = IF at > 2 THEN read.packets   ELSE e.packets
      /\ w.revisions = IF at > 3 THEN read.revisions ELSE e.revisions
      /\ w.decisions = IF at > 4 THEN read.decisions ELSE e.decisions
      /\ w.runs      = IF at > 5 THEN read.runs      ELSE e.runs
      /\ w.pages     = IF at > 6 THEN read.pages     ELSE PagesFor(e, w.runs)
      /\ w.files     = IF at > 8 THEN read.files     ELSE FilesFor(e, w.runs)
  BY ViewFields
<1>0. IsRead(v, n) /\ Faulty(v)
  OBVIOUS
<1> HIDE DEF v, w
\* The runs are those of before, apart from what they say.
<1>r. \A a \in v.runs : \E b \in w.runs :
        /\ b.id = a.id /\ b.source = a.source
        /\ a.manifest[4] # a.text => b.manifest[4] # b.text
  BY <1>v, <1>w DEF KeepsFaults
<1>1. /\ ChainFault(v.audit) => ChainFault(w.audit)
      /\ ChainFault(v.decisions) => ChainFault(w.decisions)
      /\ PacketFault(v.packets) => PacketFault(w.packets)
      /\ RevisionFault(v.revisions) => RevisionFault(w.revisions)
  BY <1>v, <1>w DEF KeepsFaults
<1>2. RunFault(v.runs) => RunFault(w.runs)
  BY <1>r DEF RunFault
<1>3. ASSUME PageFault(v.pages, v.runs) PROVE PageFault(w.pages, w.runs)
  <2>1. PICK page \in v.pages : page.text # page.hash /\ \E run \in v.runs : page.run = run.id
    BY <1>3 DEF PageFault
  <2>2. PICK run \in w.runs : page.run = run.id
    BY <1>r, <2>1
  <2>3. CASE at > 6
    <3>1. page \in w.pages
      BY <1>v, <1>w, <2>1, <2>3
    <3> QED
      BY <2>1, <2>2, <3>1 DEF PageFault
  <2>4. CASE ~(at > 6)
    <3>1. page \in d.pages
      BY <1>v, <2>1, <2>4 DEF PagesFor
    <3>2. PICK other \in e.pages : other.run = page.run /\ other.text # other.hash
      BY <2>1, <3>1 DEF KeepsFaults
    <3>3. other \in w.pages
      BY <1>w, <2>2, <2>4, <3>2 DEF PagesFor
    <3> QED
      BY <2>2, <3>2, <3>3 DEF PageFault
  <2> QED
    BY <2>3, <2>4
<1>4. ASSUME FileFault(v.files, v.runs) PROVE FileFault(w.files, w.runs)
  <2>1. PICK a \in v.runs : \A file \in v.files : file.source = a.source => file.content # file.hash
    BY <1>4 DEF FileFault
  <2>2. PICK b \in w.runs : b.source = a.source
    BY <1>r, <2>1
  <2>3. CASE at > 8
    <3>1. w.files = v.files
      BY <1>v, <1>w, <2>3
    <3> QED
      BY <2>1, <2>2, <3>1 DEF FileFault
  <2>4. CASE ~(at > 8)
    <3>1. a.source \in 1 .. n
      BY <1>0, <2>1 DEF IsRead, RunTable
    <3>2. ASSUME NEW file \in w.files, file.source = b.source
          PROVE  file.content # file.hash
      <4>1. file \in e.files
        BY <1>w, <2>4, <3>2 DEF FilesFor
      <4>2. PICK old \in d.files : /\ old.source = file.source
                                   /\ old.content # old.hash => file.content # file.hash
        BY <2>2, <3>1, <3>2, <4>1 DEF KeepsFiles
      <4>3. old \in v.files
        <5>1. old.source \in SourcesOf(v.runs)
          BY <2>1, <2>2, <3>2, <4>2 DEF SourcesOf
        <5> QED
          BY <1>v, <2>4, <4>2, <5>1 DEF FilesFor
      <4> QED
        BY <2>1, <2>2, <3>2, <4>2, <4>3
    <3> QED
      BY <2>2, <3>2 DEF FileFault
  <2> QED
    BY <2>3, <2>4
<1>5. Faulty(w)
  BY <1>0, <1>1, <1>2, <1>3, <1>4 DEF Faulty
<1> QED
  BY <1>5 DEF w

LEMMA GrownKeepsFaults ==
  ASSUME NEW d, NEW e, NEW n \in Nat, IsHistory(d, n), Grown(d, e, n + 1)
  PROVE  KeepsFaults(d, e) /\ KeepsFiles(d, e, n)
<1>1. ASSUME NEW c, IsTable(c), NEW x
      PROVE  LET f == Append(c, x)
             IN  /\ ChainFault(c) => ChainFault(f)
                 /\ PacketFault(c) => PacketFault(f)
  <2> DEFINE f == Append(c, x)
  <2>1. Len(c) \in Nat /\ DOMAIN c = 1 .. Len(c)
    BY <1>1, TableLength
  <2>2. DOMAIN f = 1 .. Len(c) + 1 /\ \A i \in 1 .. Len(c) : f[i] = c[i]
    BY <1>1, TableGrows
  <2> HIDE DEF f
  <2>3. \A i \in DOMAIN c : i \in DOMAIN f /\ f[i] = c[i]
    BY <2>1, <2>2
  <2>4. (ChainFault(c) => ChainFault(f)) /\ (PacketFault(c) => PacketFault(f))
    BY <2>3 DEF ChainFault, PacketFault
  <2> QED
    BY <2>4 DEF f
<1>2. IsTable(d.audit) /\ IsTable(d.decisions) /\ IsTable(d.packets)
  BY DEF IsHistory, EventTable, PacketTable
<1>g. /\ e.audit = Append(d.audit, Event(d.audit, n + 1))
      /\ e.decisions = d.decisions \/ e.decisions = Append(d.decisions, Event(d.decisions, n + 1))
      /\ e.packets = d.packets \/ e.packets = Append(d.packets, PacketRow(d.packets, n + 1))
  BY DEF Grown
<1>3. ChainFault(d.audit) => ChainFault(e.audit)
  BY <1>1, <1>2, <1>g
<1>4. ChainFault(d.decisions) => ChainFault(e.decisions)
  <2>1. ChainFault(d.decisions) => ChainFault(Append(d.decisions, Event(d.decisions, n + 1)))
    BY <1>1, <1>2
  <2> QED
    BY <1>g, <2>1, Zenon
<1>5. PacketFault(d.packets) => PacketFault(e.packets)
  <2>1. PacketFault(d.packets) => PacketFault(Append(d.packets, PacketRow(d.packets, n + 1)))
    BY <1>1, <1>2
  <2> QED
    BY <1>g, <2>1, Zenon
<1>6. RevisionFault(d.revisions) => RevisionFault(e.revisions)
  BY DEF Grown, RevisionFault
<1>7. d.runs \subseteq e.runs /\ d.pages \subseteq e.pages
  BY DEF Grown
<1>8. KeepsFiles(d, e, n)
  <2> SUFFICES ASSUME NEW b \in e.files, b.source \in 1 .. n
               PROVE  b \in d.files
    BY DEF KeepsFiles
  <2>1. b # FileRow(n + 1)
    BY DEF FileRow
  <2> QED
    BY <2>1 DEF Grown
<1> QED
  BY <1>3, <1>4, <1>5, <1>6, <1>7, <1>8 DEF KeepsFaults

LEMMA TouchedKeepsFaults ==
  ASSUME NEW d, NEW e, NEW n, IsHistory(d, n), Authentic(d), Touched(d, e)
  PROVE  /\ KeepsFaults(d, e) /\ KeepsFiles(d, e, n)
         /\ Authentic(e) /\ Faulty(Snapshot(e))
<1> DEFINE A == d.audit
           P == d.packets
           D == d.decisions
           V == d.revisions
           C == d.active
           U == d.runs
           G == d.pages
           F == d.files
           Goal == /\ KeepsFaults(d, e) /\ KeepsFiles(d, e, n)
                   /\ Authentic(e) /\ Faulty(Snapshot(e))
           AlterEvent(c, i) == [c EXCEPT ![i] = [c[i] EXCEPT !.text = "altered"]]
<1>0. /\ EventTable(A) /\ PacketTable(P) /\ EventTable(D) /\ RevisionTable(V)
      /\ RunTable(U, n) /\ PageTable(G) /\ FileTable(F, n)
  BY DEF IsHistory
<1>a. /\ \A i \in DOMAIN A : A[i].hash[2] = <<A[i].id, "written">>
      /\ \A i \in DOMAIN D : D[i].hash[2] = <<D[i].id, "written">>
      /\ \A run \in U : run.manifest[4] = "written"
      /\ \A page \in G : \E run \in U : page.run = run.id
      /\ \A file \in F : file.source \in SourcesOf(U)
  <2>1. \A name \in {"audit", "decisions"} : \A i \in DOMAIN d[name] :
          d[name][i].hash[2] = <<d[name][i].id, "written">>
    BY DEF Authentic
  <2>2. /\ \A i \in DOMAIN A : A[i].hash[2] = <<A[i].id, "written">>
        /\ \A i \in DOMAIN D : D[i].hash[2] = <<D[i].id, "written">>
    BY <2>1
  <2> QED
    BY <2>2 DEF Authentic
<1>s. LET v == Snapshot(e)
      IN  /\ v.audit = e.audit /\ v.packets = e.packets /\ v.revisions = e.revisions
          /\ v.decisions = e.decisions /\ v.runs = e.runs /\ v.pages = PagesFor(e, e.runs)
          /\ v.files = FilesFor(e, e.runs)
  BY SnapshotFields
<1>f. /\ e.audit = A => (ChainFault(A) => ChainFault(e.audit))
      /\ e.decisions = D => (ChainFault(D) => ChainFault(e.decisions))
      /\ e.packets = P => (PacketFault(P) => PacketFault(e.packets))
      /\ e.revisions = V => (RevisionFault(V) => RevisionFault(e.revisions))
  OBVIOUS
\* The tables that stay as they are.
<1>u. e.runs = U => \A a \in U : \E b \in e.runs :
                      /\ b.id = a.id /\ b.source = a.source
                      /\ a.manifest[4] # a.text => b.manifest[4] # b.text
  OBVIOUS
<1>g. e.pages = G => \A a \in G : \E b \in e.pages : b.run = a.run /\ (a.text # a.hash => b.text # b.hash)
  OBVIOUS
<1>h. e.files = F => KeepsFiles(d, e, n)
  BY DEF KeepsFiles
<1>t. ASSUME \A i \in DOMAIN e.audit : e.audit[i].hash[2] = <<e.audit[i].id, "written">>,
             \A i \in DOMAIN e.decisions : e.decisions[i].hash[2] = <<e.decisions[i].id, "written">>,
             \A run \in e.runs : run.manifest[4] = "written",
             \A page \in e.pages : \E run \in e.runs : page.run = run.id,
             \A file \in e.files : file.source \in SourcesOf(e.runs)
      PROVE  Authentic(e)
  <2>1. \A name \in {"audit", "decisions"} : \A i \in DOMAIN e[name] :
          e[name][i].hash[2] = <<e[name][i].id, "written">>
    BY <1>t
  <2> QED
    BY <1>t, <2>1 DEF Authentic
<1>e. ASSUME NEW c, EventTable(c), NEW i \in DOMAIN c,
             \A j \in DOMAIN c : c[j].hash[2] = <<c[j].id, "written">>
      PROVE  /\ ChainFault(AlterEvent(c, i))
             /\ \A j \in DOMAIN AlterEvent(c, i) :
                  AlterEvent(c, i)[j].hash[2] = <<AlterEvent(c, i)[j].id, "written">>
  <2> DEFINE x == [c[i] EXCEPT !.text = "altered"]
             f == [c EXCEPT ![i] = x]
  <2>1. c[i] = [id |-> c[i].id, text |-> c[i].text, prev |-> c[i].prev, hash |-> c[i].hash]
    BY <1>e DEF EventTable
  <2>2. x.id = c[i].id /\ x.text = "altered" /\ x.hash = c[i].hash
    BY <2>1
  <2> HIDE DEF x
  <2>3. DOMAIN f = DOMAIN c /\ f[i] = x /\ \A j \in DOMAIN c : j # i => f[j] = c[j]
    BY <1>e, TableAltered DEF EventTable
  <2> HIDE DEF f
  <2>4. \A j \in DOMAIN f : f[j].hash[2] = <<f[j].id, "written">>
    BY <1>e, <2>2, <2>3
  <2>5. ChainFault(f)
    <3>1. f[i].hash[2] = <<x.id, "written">>
      BY <1>e, <2>2, <2>3
    <3>2. EventContent(f[i]) = <<x.id, "altered">>
      BY <2>2, <2>3 DEF EventContent
    <3> QED
      BY <2>3, <3>1, <3>2 DEF ChainFault
  <2> QED
    BY <2>4, <2>5 DEF f, x
<1> HIDE DEF A, P, D, V, C, U, G, F
<1>1. ASSUME NEW i \in DOMAIN A, e = Of(AlterEvent(A, i), P, D, V, C, U, G, F)
      PROVE  Goal
  <2> DEFINE B == AlterEvent(A, i)
  <2>1. ChainFault(B) /\ \A j \in DOMAIN B : B[j].hash[2] = <<B[j].id, "written">>
    BY <1>0, <1>1, <1>a, <1>e
  <2> HIDE DEF B
  <2>2. /\ e.audit = B /\ e.packets = P /\ e.decisions = D /\ e.revisions = V
        /\ e.runs = U /\ e.pages = G /\ e.files = F
    BY <1>1, FieldsOf DEF B
  <2>3. Authentic(e)
    BY <1>a, <1>t, <2>1, <2>2
  <2>4. KeepsFaults(d, e) /\ KeepsFiles(d, e, n)
    BY <1>f, <1>u, <1>g, <1>h, <2>1, <2>2 DEF KeepsFaults, A, P, D, V, U, G, F
  <2>5. Faulty(Snapshot(e))
    BY <1>s, <2>1, <2>2 DEF Faulty
  <2> QED
    BY <2>3, <2>4, <2>5
<1>2. ASSUME NEW i \in DOMAIN D, e = Of(A, P, AlterEvent(D, i), V, C, U, G, F)
      PROVE  Goal
  <2> DEFINE B == AlterEvent(D, i)
  <2>1. ChainFault(B) /\ \A j \in DOMAIN B : B[j].hash[2] = <<B[j].id, "written">>
    BY <1>0, <1>2, <1>a, <1>e
  <2> HIDE DEF B
  <2>2. /\ e.audit = A /\ e.packets = P /\ e.decisions = B /\ e.revisions = V
        /\ e.runs = U /\ e.pages = G /\ e.files = F
    BY <1>2, FieldsOf DEF B
  <2>3. Authentic(e)
    BY <1>a, <1>t, <2>1, <2>2
  <2>4. KeepsFaults(d, e) /\ KeepsFiles(d, e, n)
    BY <1>f, <1>u, <1>g, <1>h, <2>1, <2>2 DEF KeepsFaults, A, P, D, V, U, G, F
  <2>5. Faulty(Snapshot(e))
    BY <1>s, <2>1, <2>2 DEF Faulty
  <2> QED
    BY <2>3, <2>4, <2>5
<1>3. ASSUME NEW i \in DOMAIN P, NEW field \in {"document", "pdf"},
             e = Of(A, [P EXCEPT ![i] = [P[i] EXCEPT ![field] = "altered"]], D, V, C, U, G, F)
      PROVE  Goal
  <2> DEFINE x == [P[i] EXCEPT ![field] = "altered"]
             B == [P EXCEPT ![i] = x]
             o == P[i]
  <2>1. o = [id |-> o.id, document |-> o.document, recorded |-> "written", pdf |-> o.pdf,
             pdfHash |-> "written", prev |-> o.prev, hash |-> o.hash]
    BY <1>0 DEF PacketTable
  <2>2. /\ x.recorded = "written" /\ x.pdfHash = "written"
        /\ x.document = "altered" \/ x.pdf = "altered"
    <3> HIDE DEF o
    <3>0. x = [o EXCEPT ![field] = "altered"]
      BY DEF o
    <3>1. CASE field = "document"
      <4>1. x = [o EXCEPT !.document = "altered"]
        BY <3>0, <3>1, Zenon
      <4> QED
        BY <2>1, <4>1
    <3>2. CASE field = "pdf"
      <4>1. x = [o EXCEPT !.pdf = "altered"]
        BY <3>0, <3>2, Zenon
      <4> QED
        BY <2>1, <4>1
    <3> QED
      BY <3>1, <3>2
  <2> HIDE DEF x
  <2>3. DOMAIN B = DOMAIN P /\ B[i] = x
    BY <1>0, TableAltered DEF PacketTable
  <2> HIDE DEF B
  <2>4. PacketFault(B)
    BY <2>2, <2>3 DEF PacketFault
  <2>5. /\ e.audit = A /\ e.packets = B /\ e.decisions = D /\ e.revisions = V
        /\ e.runs = U /\ e.pages = G /\ e.files = F
    BY <1>3, FieldsOf DEF B, x
  <2>6. Authentic(e)
    BY <1>a, <1>t, <2>5
  <2>7. KeepsFaults(d, e) /\ KeepsFiles(d, e, n)
    BY <1>f, <1>u, <1>g, <1>h, <2>4, <2>5 DEF KeepsFaults, A, P, D, V, U, G, F
  <2>8. Faulty(Snapshot(e))
    BY <1>s, <2>4, <2>5 DEF Faulty
  <2> QED
    BY <2>6, <2>7, <2>8
<1>4. ASSUME NEW row \in V, e = Of(A, P, D, AlterRow(V, row, "text"), C, U, G, F)
      PROVE  Goal
  <2> DEFINE x == [row EXCEPT !.text = "altered"]
             B == AlterRow(V, row, "text")
  <2>1. row = [id |-> row.id, section |-> row.section, parent |-> row.parent, text |-> row.text,
               textHash |-> "written", prev |-> row.prev, hash |-> row.hash]
    BY <1>0 DEF RevisionTable
  <2>2. x.text = "altered" /\ x.textHash = "written"
    BY <2>1
  <2>3. B = (V \ {row}) \cup {x}
    BY Zenon DEF AlterRow
  <2>4. RevisionFault(B)
    <3> HIDE DEF B, x
    <3> QED
      BY <2>2, <2>3 DEF RevisionFault
  <2> HIDE DEF B, x
  <2>5. /\ e.audit = A /\ e.packets = P /\ e.decisions = D /\ e.revisions = B
        /\ e.runs = U /\ e.pages = G /\ e.files = F
    BY <1>4, FieldsOf DEF B
  <2>6. Authentic(e)
    BY <1>a, <1>t, <2>5
  <2>7. KeepsFaults(d, e) /\ KeepsFiles(d, e, n)
    BY <1>f, <1>u, <1>g, <1>h, <2>4, <2>5 DEF KeepsFaults, A, P, D, V, U, G, F
  <2>8. Faulty(Snapshot(e))
    BY <1>s, <2>4, <2>5 DEF Faulty
  <2> QED
    BY <2>6, <2>7, <2>8
<1>5. ASSUME NEW row \in U, e = Of(A, P, D, V, C, AlterRow(U, row, "text"), G, F)
      PROVE  Goal
  <2> DEFINE x == [row EXCEPT !.text = "altered"]
             B == AlterRow(U, row, "text")
  <2>1. row = [id |-> row.id, source |-> row.source, text |-> row.text, manifest |-> row.manifest]
    BY <1>0 DEF RunTable
  <2>2. x.text = "altered" /\ x.id = row.id /\ x.source = row.source /\ x.manifest = row.manifest
    BY <2>1
  <2>3. B = (U \ {row}) \cup {x}
    BY Zenon DEF AlterRow
  <2> HIDE DEF B, x
  <2>5. /\ e.audit = A /\ e.packets = P /\ e.decisions = D /\ e.revisions = V
        /\ e.runs = B /\ e.pages = G /\ e.files = F
    BY <1>5, FieldsOf DEF B
  <2>b. x.manifest[4] = "written"
    BY <1>a, <2>2
  <2>4. RunFault(B) /\ \A run \in B : run.manifest[4] = "written"
    BY <1>a, <2>2, <2>3, <2>b DEF RunFault
  <2>r. \A a \in U : \E b \in B : /\ b.id = a.id /\ b.source = a.source
                                  /\ a.manifest[4] # a.text => b.manifest[4] # b.text
    BY <2>2, <2>3, <2>b
  <2>6. Authentic(e)
    <3>1. \A file \in F : file.source \in SourcesOf(B)
      BY <1>a, <2>r DEF SourcesOf
    <3>2. \A page \in G : \E run \in B : page.run = run.id
      BY <1>a, <2>r
    <3> QED
      BY <1>a, <1>t, <2>4, <2>5, <3>1, <3>2
  <2>7. KeepsFaults(d, e) /\ KeepsFiles(d, e, n)
    BY <1>f, <1>g, <1>h, <2>r, <2>5 DEF KeepsFaults, A, P, D, V, U, G, F
  <2>8. Faulty(Snapshot(e))
    BY <1>s, <2>4, <2>5 DEF Faulty
  <2> QED
    BY <2>6, <2>7, <2>8
<1>6. ASSUME NEW row \in G, e = Of(A, P, D, V, C, U, AlterRow(G, row, "text"), F)
      PROVE  Goal
  <2> DEFINE x == [row EXCEPT !.text = "altered"]
             B == AlterRow(G, row, "text")
  <2>1. row = [id |-> row.id, run |-> row.run, text |-> row.text, hash |-> "written"]
    BY <1>0 DEF PageTable
  <2>2. x.text = "altered" /\ x.run = row.run /\ x.hash = "written"
    BY <2>1
  <2>3. B = (G \ {row}) \cup {x}
    BY Zenon DEF AlterRow
  <2> HIDE DEF B, x
  <2>5. /\ e.audit = A /\ e.packets = P /\ e.decisions = D /\ e.revisions = V
        /\ e.runs = U /\ e.pages = B /\ e.files = F
    BY <1>6, FieldsOf DEF B
  <2>r. \A a \in G : \E b \in B : b.run = a.run /\ (a.text # a.hash => b.text # b.hash)
    BY <2>2, <2>3
  <2>6. Authentic(e)
    <3>1. \A page \in B : \E run \in U : page.run = run.id
      BY <1>a, <2>2, <2>3
    <3> QED
      BY <1>a, <1>t, <2>5, <3>1
  <2>7. KeepsFaults(d, e) /\ KeepsFiles(d, e, n)
    BY <1>f, <1>u, <1>h, <2>r, <2>5 DEF KeepsFaults, A, P, D, V, U, G, F
  <2>8. Faulty(Snapshot(e))
    <3>1. PICK run \in U : row.run = run.id
      BY <1>a
    <3>2. x \in PagesFor(e, U)
      BY <2>2, <2>3, <2>5, <3>1 DEF PagesFor
    <3>3. PageFault(PagesFor(e, U), U)
      BY <2>2, <3>1, <3>2 DEF PageFault
    <3> QED
      BY <1>s, <2>5, <3>3 DEF Faulty
  <2> QED
    BY <2>6, <2>7, <2>8
<1>7. ASSUME NEW row \in F, \/ e = Of(A, P, D, V, C, U, G, AlterRow(F, row, "content"))
                            \/ e = Of(A, P, D, V, C, U, G, F \ {row})
      PROVE  Goal
  <2> DEFINE x == [row EXCEPT !.content = "altered"]
             B == e.files
  <2>1. row = [source |-> row.source, content |-> row.content, hash |-> "written"]
    BY <1>0 DEF FileTable
  <2>2. x.content = "altered" /\ x.source = row.source /\ x.hash = "written"
    BY <2>1
  <2>3. AlterRow(F, row, "content") = (F \ {row}) \cup {x}
    BY Zenon DEF AlterRow
  <2> HIDE DEF x
  <2>5. /\ e.audit = A /\ e.packets = P /\ e.decisions = D /\ e.revisions = V
        /\ e.runs = U /\ e.pages = G /\ e.files \in {AlterRow(F, row, "content"), F \ {row}}
    BY <1>7, FieldsOf
  <2>4. B \subseteq (F \ {row}) \cup {x}
    BY <2>3, <2>5
  <2> HIDE DEF B
  <2>6. Authentic(e)
    <3>1. \A file \in e.files : file.source \in SourcesOf(U)
      BY <1>a, <2>2, <2>4 DEF B
    <3> QED
      BY <1>a, <1>t, <2>5, <3>1
  <2>7. KeepsFiles(d, e, n)
    <3> SUFFICES ASSUME NEW b \in B
                 PROVE  \E a \in F : a.source = b.source /\ (a.content # a.hash => b.content # b.hash)
      BY DEF KeepsFiles, B, F
    <3> QED
      BY <2>2, <2>4
  <2>8. KeepsFaults(d, e)
    BY <1>f, <1>u, <1>g, <2>5 DEF KeepsFaults, A, P, D, V, U, G, F
  <2>9. Faulty(Snapshot(e))
    <3>1. PICK run \in U : run.source = row.source
      BY <1>a DEF SourcesOf
    <3>2. \A a, b \in F : a.source = b.source => a = b
      BY <1>0 DEF FileTable
    <3>3. \A file \in FilesFor(e, U) : file.source = run.source => file.content # file.hash
      BY <2>2, <2>4, <3>1, <3>2 DEF FilesFor, B
    <3>4. FileFault(FilesFor(e, U), U)
      BY <3>1, <3>3 DEF FileFault
    <3> QED
      BY <1>s, <2>5, <3>4 DEF Faulty
  <2> QED
    BY <2>6, <2>7, <2>8, <2>9
<1>8. \/ \E i \in DOMAIN A : e = Of(AlterEvent(A, i), P, D, V, C, U, G, F)
      \/ \E i \in DOMAIN D : e = Of(A, P, AlterEvent(D, i), V, C, U, G, F)
      \/ \E i \in DOMAIN P, field \in {"document", "pdf"} :
           e = Of(A, [P EXCEPT ![i] = [P[i] EXCEPT ![field] = "altered"]], D, V, C, U, G, F)
      \/ \E row \in V : e = Of(A, P, D, AlterRow(V, row, "text"), C, U, G, F)
      \/ \E row \in U : e = Of(A, P, D, V, C, AlterRow(U, row, "text"), G, F)
      \/ \E row \in G : e = Of(A, P, D, V, C, U, AlterRow(G, row, "text"), F)
      \/ \E row \in F : \/ e = Of(A, P, D, V, C, U, G, AlterRow(F, row, "content"))
                        \/ e = Of(A, P, D, V, C, U, G, F \ {row})
  BY DEF Touched, A, P, D, V, C, U, G, F
<1> HIDE DEF Goal
<1>9. Goal
  BY <1>1, <1>2, <1>3, <1>4, <1>5, <1>6, <1>7, <1>8
<1> QED
  BY <1>9 DEF Goal

LEMMA GrownAuthentic ==
  ASSUME NEW d, NEW e, NEW n \in Nat, IsHistory(d, n), Authentic(d), Grown(d, e, n + 1)
  PROVE  Authentic(e)
<1>1. ASSUME NEW c, IsTable(c), \A i \in DOMAIN c : c[i].hash[2] = <<c[i].id, "written">>
      PROVE  LET f == Append(c, Event(c, n + 1))
             IN  \A i \in DOMAIN f : f[i].hash[2] = <<f[i].id, "written">>
  <2> DEFINE x == Event(c, n + 1)
             f == Append(c, x)
  <2>1. x.hash[2] = <<x.id, "written">>
    BY DEF Event, ChainHash
  <2> HIDE DEF x
  <2>2. Len(c) \in Nat /\ DOMAIN c = 1 .. Len(c)
    BY <1>1, TableLength
  <2>3. DOMAIN f = 1 .. Len(c) + 1 /\ f[Len(c) + 1] = x /\ \A i \in 1 .. Len(c) : f[i] = c[i]
    BY <1>1, TableGrows
  <2> HIDE DEF f
  <2>4. \A i \in DOMAIN f : i \in DOMAIN c \/ i = Len(c) + 1
    BY <2>2, <2>3
  <2>5. \A i \in DOMAIN f : f[i].hash[2] = <<f[i].id, "written">>
    BY <1>1, <2>1, <2>2, <2>3, <2>4
  <2> QED
    BY <2>5 DEF f, x
<1>2. \A name \in {"audit", "decisions"} : \A i \in DOMAIN d[name] :
        d[name][i].hash[2] = <<d[name][i].id, "written">>
  BY DEF Authentic
<1>3. /\ \A i \in DOMAIN d.audit : d.audit[i].hash[2] = <<d.audit[i].id, "written">>
      /\ \A i \in DOMAIN d.decisions : d.decisions[i].hash[2] = <<d.decisions[i].id, "written">>
  BY <1>2
<1>4. IsTable(d.audit) /\ IsTable(d.decisions)
  BY DEF IsHistory, EventTable
<1>g. /\ e.audit = Append(d.audit, Event(d.audit, n + 1))
      /\ e.decisions = d.decisions \/ e.decisions = Append(d.decisions, Event(d.decisions, n + 1))
  BY DEF Grown
<1>5. /\ \A i \in DOMAIN e.audit : e.audit[i].hash[2] = <<e.audit[i].id, "written">>
      /\ \A i \in DOMAIN e.decisions : e.decisions[i].hash[2] = <<e.decisions[i].id, "written">>
  <2>1. \A i \in DOMAIN e.audit : e.audit[i].hash[2] = <<e.audit[i].id, "written">>
    BY <1>1, <1>3, <1>4, <1>g
  <2>2. LET f == Append(d.decisions, Event(d.decisions, n + 1))
        IN  \A i \in DOMAIN f : f[i].hash[2] = <<f[i].id, "written">>
    BY <1>1, <1>3, <1>4
  <2> QED
    BY <1>3, <1>g, <2>1, <2>2
<1>6. \A name \in {"audit", "decisions"} : \A i \in DOMAIN e[name] :
        e[name][i].hash[2] = <<e[name][i].id, "written">>
  BY <1>5
<1>7. /\ \A run \in e.runs : run.manifest[4] = "written"
      /\ \A page \in e.pages : \E run \in e.runs : page.run = run.id
      /\ \A file \in e.files : file.source \in SourcesOf(e.runs)
  <2>1. /\ \A run \in d.runs : run.manifest[4] = "written"
        /\ \A page \in d.pages : \E run \in d.runs : page.run = run.id
        /\ \A file \in d.files : file.source \in SourcesOf(d.runs)
    BY DEF Authentic
  <2>2. CASE e.runs = d.runs /\ e.pages = d.pages /\ e.files = d.files
    BY <2>1, <2>2
  <2>3. CASE /\ e.runs  = d.runs \cup {RunRow(n + 1)}
             /\ e.pages = d.pages \cup {PageRow(n + 1)}
             /\ e.files = d.files \cup {FileRow(n + 1)}
    <3>1. /\ RunRow(n + 1).id = n + 1 /\ RunRow(n + 1).source = n + 1
          /\ RunRow(n + 1).manifest[4] = "written"
          /\ PageRow(n + 1).run = n + 1 /\ FileRow(n + 1).source = n + 1
      BY DEF RunRow, PageRow, FileRow
    <3>2. SourcesOf(d.runs) \subseteq SourcesOf(e.runs) /\ n + 1 \in SourcesOf(e.runs)
      BY <2>3, <3>1 DEF SourcesOf
    <3>3. \A run \in e.runs : run.manifest[4] = "written"
      BY <2>1, <2>3, <3>1
    <3>4. \A page \in e.pages : \E run \in e.runs : page.run = run.id
      BY <2>1, <2>3, <3>1
    <3>5. \A file \in e.files : file.source \in SourcesOf(e.runs)
      BY <2>1, <2>3, <3>1, <3>2
    <3> QED
      BY <3>3, <3>4, <3>5
  <2> QED
    BY <2>2, <2>3 DEF Grown
<1> QED
  BY <1>6, <1>7 DEF Authentic

-----------------------------------------------------------------------------
(***************************************************************************)
(* What a comparison with a checkpoint shows: hashes are of what was       *)
(* hashed, so that members that are the same are of the same rows.         *)
(***************************************************************************)

LEMMA Compared ==
  ASSUME NEW v, NEW w, CompareWith(Checkpoint(w), Checkpoint(v)) \in Fine
  PROVE  \A name \in Chains : /\ ~(Count(w, name) < Count(v, name))
                              /\ Retains(Checkpoint(w)[name], Checkpoint(v)[name], name)
<1> DEFINE cur == Checkpoint(w)
           anc == Checkpoint(v)
           rollback   == {name \in Chains : cur[name].count < anc[name].count}
           mismatched == {name \in Chains \ rollback :
                            \/ ~Retains(cur[name], anc[name], name)
                            \/ /\ cur[name].count = anc[name].count
                               /\ cur[name].root # anc[name].root}
           advanced   == {name \in Chains : cur[name].count > anc[name].count}
<1>1. CompareWith(cur, anc) =
        IF rollback # {}        THEN "rollback_detected"
        ELSE IF mismatched # {} THEN "checkpoint_mismatch"
        ELSE IF advanced # {}   THEN "advanced"
        ELSE "matched"
  BY DEF CompareWith
<1>2. rollback = {} /\ mismatched = {}
  <2> HIDE DEF rollback, mismatched, advanced
  <2> QED
    BY <1>1 DEF Fine
<1>3. \A name \in Chains : cur[name].count = Count(w, name) /\ anc[name].count = Count(v, name)
  BY DEF Checkpoint
<1>4. \A name \in Chains : /\ ~(cur[name].count < anc[name].count)
                           /\ Retains(cur[name], anc[name], name)
  <2> HIDE DEF cur, anc
  <2> QED
    BY <1>2
<1> QED
  BY <1>3, <1>4

\* Of an ordered chain: what was signed is at its place.
LEMMA OrderedRetained ==
  ASSUME NEW v, NEW w, CompareWith(Checkpoint(w), Checkpoint(v)) \in Fine,
         NEW name \in Ordered, IsTable(v[name]), IsTable(w[name])
  PROVE  /\ Len(v[name]) <= Len(w[name])
         /\ \A i \in DOMAIN v[name] : /\ i \in DOMAIN w[name]
                                      /\ v[name][i].id = w[name][i].id
                                      /\ v[name][i].hash = w[name][i].hash
<1> DEFINE c == v[name]
           f == w[name]
<1>1. name \in Chains
  BY DEF Chains
<1>2. Len(c) \in Nat /\ DOMAIN c = 1 .. Len(c) /\ Len(f) \in Nat /\ DOMAIN f = 1 .. Len(f)
  BY TableLength
<1>o. name # "revisions" /\ name # "extractions"
  BY DEF Ordered
<1>3. Count(v, name) = Len(c) /\ Count(w, name) = Len(f)
  BY <1>o DEF Count
<1>4. /\ Checkpoint(w)[name].members = OrderedMembers(f)
      /\ Checkpoint(v)[name].members = OrderedMembers(c)
      /\ Checkpoint(v)[name].count = Len(c)
  <2>1. Members(v, name) = OrderedMembers(c) /\ Members(w, name) = OrderedMembers(f)
    BY <1>o DEF Members
  <2> QED
    BY <1>1, <1>3, <2>1 DEF Checkpoint
<1>5. ~(Count(w, name) < Count(v, name)) /\ Retains(Checkpoint(w)[name], Checkpoint(v)[name], name)
  BY <1>1, Compared
<1>6. SubSeq(OrderedMembers(f), 1, Len(c)) = OrderedMembers(c)
  BY <1>4, <1>5 DEF Retains
<1>7. Len(c) <= Len(f)
  BY <1>2, <1>3, <1>5
<1> HIDE DEF c, f
<1>8. ASSUME NEW i \in DOMAIN c
      PROVE  i \in DOMAIN f /\ c[i].id = f[i].id /\ c[i].hash = f[i].hash
  <2>1. i \in 1 .. Len(c) /\ i \in DOMAIN f
    BY <1>2, <1>7
  <2> DEFINE m == OrderedMembers(f)
             S == {m[j] : j \in DOMAIN f}
             k == Len(c)
  <2>2. DOMAIN m = DOMAIN f
    BY DEF OrderedMembers
  <2>k. 1 \in Int /\ k \in Int
    BY <1>2
  <2> HIDE DEF m, k
  <2>3. \A j \in 1 .. k : m[j] \in S
    BY <1>2, <1>7 DEF k
  <2> HIDE DEF S
  <2>4. \A j \in 1 .. k - 1 + 1 : SubSeq(m, 1, k)[j] = m[1 + j - 1]
    BY <2>k, <2>3, SubSeqProperties
  <2>5. SubSeq(m, 1, k)[i] = m[i]
    BY <1>2, <2>1, <2>4 DEF k
  <2>6. m[i] = OrderedMembers(c)[i]
    BY <1>6, <2>5 DEF m, k
  <2>7. m[i] = <<f[i].id, f[i].hash>> /\ OrderedMembers(c)[i] = <<c[i].id, c[i].hash>>
    BY <2>1 DEF m, OrderedMembers
  <2> DEFINE p == c[i].id
             q == c[i].hash
             r == f[i].id
             s == f[i].hash
  <2>8. <<r, s>> = <<p, q>>
    BY <2>6, <2>7
  <2> HIDE DEF p, q, r, s
  <2>9. r = p /\ s = q
    BY <2>8
  <2> QED
    BY <2>1, <2>9 DEF p, q, r, s
<1> QED
  BY <1>7, <1>8 DEF c, f

LEMMA SameEvents ==
  ASSUME NEW c, NEW f, EventTable(c), EventTable(f), VerifyChain(c), VerifyChain(f),
         NEW i \in DOMAIN c, i \in DOMAIN f, c[i].hash = f[i].hash
  PROVE  c[i] = f[i]
<1> DEFINE a == c[i]
           b == f[i]
<1>1. /\ a = [id |-> a.id, text |-> a.text, prev |-> a.prev, hash |-> a.hash]
      /\ b = [id |-> b.id, text |-> b.text, prev |-> b.prev, hash |-> b.hash]
  BY DEF EventTable
<1>2. /\ a.hash = <<a.prev, <<a.id, a.text>>>>
      /\ b.hash = <<b.prev, <<b.id, b.text>>>>
  BY DEF VerifyChain, ChainHash, EventContent
<1>3. a.hash = b.hash
  OBVIOUS
<1> HIDE DEF a, b
<1>4. a.id = b.id /\ a.text = b.text /\ a.prev = b.prev
  BY <1>2, <1>3
<1>5. a = b
  BY <1>1, <1>3, <1>4
<1> QED
  BY <1>5 DEF a, b

LEMMA SamePackets ==
  ASSUME NEW c, NEW f, PacketTable(c), PacketTable(f), VerifyPackets(c), VerifyPackets(f),
         NEW i \in DOMAIN c, i \in DOMAIN f, c[i].hash = f[i].hash
  PROVE  c[i] = f[i]
<1> DEFINE a == c[i]
           b == f[i]
<1>1. /\ a = [id |-> a.id, document |-> a.document, recorded |-> "written", pdf |-> a.pdf,
              pdfHash |-> "written", prev |-> a.prev, hash |-> a.hash]
      /\ b = [id |-> b.id, document |-> b.document, recorded |-> "written", pdf |-> b.pdf,
              pdfHash |-> "written", prev |-> b.prev, hash |-> b.hash]
  BY DEF PacketTable
<1>2. /\ a.hash = <<a.prev, <<a.id, a.document, a.recorded, a.pdfHash>>>>
      /\ b.hash = <<b.prev, <<b.id, b.document, b.recorded, b.pdfHash>>>>
      /\ a.pdf = a.pdfHash /\ b.pdf = b.pdfHash
  BY DEF VerifyPackets, ChainHash, PacketContent
<1>3. a.hash = b.hash
  OBVIOUS
<1> HIDE DEF a, b
<1>4. a.id = b.id /\ a.document = b.document /\ a.prev = b.prev
  BY <1>2, <1>3
<1>5. a.pdf = b.pdf
  <2>1. a.pdfHash = "written" /\ b.pdfHash = "written"
    BY <1>1
  <2> QED
    BY <1>2, <2>1
<1>6. a = b
  BY <1>1, <1>3, <1>4, <1>5
<1> QED
  BY <1>6 DEF a, b

\* Revisions of a lineage with equal hashes have equal rows.
LEMMA SameRevisions ==
  ASSUME NEW V, NEW W, RevisionTable(V), RevisionTable(W), VerifyRevisions(V), VerifyRevisions(W),
         RevisionMembers(V) \subseteq RevisionMembers(W)
  PROVE  V \subseteq W
<1> SUFFICES ASSUME NEW a \in V PROVE a \in W
  OBVIOUS
<1>1. PICK b \in W : <<a.id, a.section, a.parent, a.textHash, a.hash>>
                       = <<b.id, b.section, b.parent, b.textHash, b.hash>>
  <2> DEFINE M(row) == <<row.id, row.section, row.parent, row.textHash, row.hash>>
  <2>1. RevisionMembers(V) = {M(row) : row \in V} /\ RevisionMembers(W) = {M(row) : row \in W}
    BY DEF RevisionMembers
  <2> HIDE DEF M
  <2>2. M(a) \in {M(row) : row \in W}
    BY <2>1
  <2>3. \E b \in W : M(a) = M(b)
    BY <2>2
  <2> QED
    BY <2>3, Zenon DEF M
<1>2. a.id = b.id /\ a.section = b.section /\ a.parent = b.parent /\ a.hash = b.hash
  BY <1>1
<1>3. ASSUME NEW X, VerifyRevisions(X), NEW x \in X
      PROVE  x.hash = <<x.prev, <<x.id, x.section, x.parent, x.text, x.textHash>>>>
  <2>1. VerifyLineage(OfSection(X, x.section)) /\ x \in OfSection(X, x.section)
    BY <1>3 DEF VerifyRevisions, OfSection
  <2>2. \E p : x.prev = p /\ x.hash = ChainHash(p, RevisionContent(x))
    BY <2>1 DEF VerifyLineage
  <2> QED
    BY <2>2 DEF ChainHash, RevisionContent
<1>4. /\ a.hash = <<a.prev, <<a.id, a.section, a.parent, a.text, a.textHash>>>>
      /\ b.hash = <<b.prev, <<b.id, b.section, b.parent, b.text, b.textHash>>>>
  BY <1>3
<1> DEFINE x == <<a.id, a.section, a.parent, a.text, a.textHash>>
           y == <<b.id, b.section, b.parent, b.text, b.textHash>>
<1>5. a.prev = b.prev /\ a.text = b.text
  <2>1. a.prev = b.prev /\ x = y
    <3>1. <<a.prev, x>> = <<b.prev, y>>
      BY <1>2, <1>4
    <3> HIDE DEF x, y
    <3> QED
      BY <3>1
  <2>2. x[4] = y[4]
    BY <2>1
  <2> QED
    BY <2>1, <2>2
<1>6. /\ a = [id |-> a.id, section |-> a.section, parent |-> a.parent, text |-> a.text,
              textHash |-> "written", prev |-> a.prev, hash |-> a.hash]
      /\ b = [id |-> b.id, section |-> b.section, parent |-> b.parent, text |-> b.text,
              textHash |-> "written", prev |-> b.prev, hash |-> b.hash]
  BY DEF RevisionTable
<1>7. a = b
  BY <1>2, <1>5, <1>6
<1> QED
  BY <1>7

LEMMA SameExtractions ==
  ASSUME NEW v, NEW w, NEW n, NEW m, IsRead(v, n), IsRead(w, m),
         VerifyExtractions(v), VerifyExtractions(w),
         ExtractionMembers(v) \subseteq ExtractionMembers(w)
  PROVE  v.runs \subseteq w.runs /\ v.pages \subseteq w.pages /\ v.files \subseteq w.files
<1>1. ASSUME NEW a \in v.runs
      PROVE  \E b \in w.runs : b.id = a.id /\ b.manifest = a.manifest
  <2>1. <<"run", a.id, a.manifest>> \in ExtractionMembers(w)
    BY DEF ExtractionMembers
  <2>2. PICK b \in w.runs : <<"run", b.id, b.manifest>> = <<"run", a.id, a.manifest>>
    BY <2>1 DEF ExtractionMembers
  <2> QED
    BY <2>2
<1>2. ASSUME NEW a \in v.runs, NEW b \in w.runs, b.id = a.id, b.manifest = a.manifest
      PROVE  /\ a = b
             /\ {<<page.id, page.hash>> : page \in PagesOf(v.pages, a)}
                  = {<<page.id, page.hash>> : page \in PagesOf(w.pages, b)}
  <2> DEFINE S == {<<page.id, page.hash>> : page \in PagesOf(v.pages, a)}
             T == {<<page.id, page.hash>> : page \in PagesOf(w.pages, b)}
             x == FileHash(v.hashes, a.source)
             y == FileHash(w.hashes, b.source)
  <2>1. a.manifest = <<x, a.id, a.source, a.text, S>> /\ b.manifest = <<y, b.id, b.source, b.text, T>>
    BY DEF VerifyExtractions, Manifest
  <2>2. /\ a = [id |-> a.id, source |-> a.source, text |-> a.text, manifest |-> a.manifest]
        /\ b = [id |-> b.id, source |-> b.source, text |-> b.text, manifest |-> b.manifest]
    BY DEF IsRead, RunTable
  <2> HIDE DEF S, T, x, y
  <2>3. a.source = b.source /\ a.text = b.text /\ S = T
    BY <1>2, <2>1
  <2>4. a = b
    BY <1>2, <2>2, <2>3
  <2> QED
    BY <2>3, <2>4 DEF S, T
<1>3. v.runs \subseteq w.runs
  BY <1>1, <1>2
<1>4. ASSUME NEW a \in v.pages
      PROVE  a \in w.pages
  <2>1. PICK run \in v.runs : a.run = run.id
    BY DEF IsRead
  <2>2. run \in w.runs
    BY <1>3
  <2>3. a \in PagesOf(v.pages, run)
    BY <2>1 DEF PagesOf
  <2>4. <<a.id, a.hash>> \in {<<page.id, page.hash>> : page \in PagesOf(v.pages, run)}
    BY <2>3
  <2>5. PICK b \in PagesOf(w.pages, run) : <<b.id, b.hash>> = <<a.id, a.hash>>
    <3>1. <<a.id, a.hash>> \in {<<page.id, page.hash>> : page \in PagesOf(w.pages, run)}
      <4>1. PICK b \in w.runs : b.id = run.id /\ b.manifest = run.manifest
        BY <1>1
      <4>2. /\ run = b
            /\ {<<page.id, page.hash>> : page \in PagesOf(v.pages, run)}
                 = {<<page.id, page.hash>> : page \in PagesOf(w.pages, b)}
        BY <1>2, <4>1
      <4> QED
        BY <2>4, <4>2, Zenon
    <3> QED
      BY <3>1, Zenon
  <2>6. b.id = a.id /\ b.hash = a.hash /\ b.run = a.run /\ b \in w.pages
    BY <2>1, <2>5 DEF PagesOf
  <2>7. a.text = a.hash /\ b.text = b.hash
    BY <2>2, <2>3, <2>5 DEF VerifyExtractions
  <2>8. /\ a = [id |-> a.id, run |-> a.run, text |-> a.text, hash |-> "written"]
        /\ b = [id |-> b.id, run |-> b.run, text |-> b.text, hash |-> "written"]
    BY <2>6 DEF IsRead, PageTable
  <2>9. a = b
    BY <2>6, <2>7, <2>8
  <2> QED
    BY <2>6, <2>9
<1>5. ASSUME NEW a \in v.files
      PROVE  a \in w.files
  <2>1. PICK run \in v.runs : run.source = a.source
    BY DEF IsRead, SourcesOf
  <2>2. run \in w.runs
    BY <1>3
  <2>3. PICK x \in v.files : x.source = run.source /\ x.content = x.hash
    BY DEF VerifyExtractions
  <2>4. PICK y \in w.files : y.source = run.source /\ y.content = y.hash
    BY <2>2 DEF VerifyExtractions
  <2>5. x = a
    BY <2>1, <2>3 DEF IsRead, FileTable
  <2>6. /\ a = [source |-> a.source, content |-> a.content, hash |-> "written"]
        /\ y = [source |-> y.source, content |-> y.content, hash |-> "written"]
    BY DEF IsRead, FileTable
  <2>7. a.hash = "written" /\ y.hash = "written"
    BY <2>6
  <2>8. a = y
    BY <2>1, <2>3, <2>4, <2>5, <2>6, <2>7
  <2> QED
    BY <2>8
<1> QED
  BY <1>3, <1>4, <1>5

\* verify_latest_anchor: if neither history contradicts itself and the counts, members
\* and roots of one agree with what was signed of the other, its rows are there to the
\* letter, as a hash is what was hashed.
LEMMA SignedIsRetained ==
  ASSUME NEW v, NEW w, NEW n, NEW m, IsRead(v, n), IsRead(w, m),
         VerifiesInternally(v), VerifiesInternally(w),
         CompareWith(Checkpoint(w), Checkpoint(v)) \in Fine
  PROVE  Within(v, w)
<1>1. ASSUME NEW name \in Ordered
      PROVE  /\ Len(v[name]) <= Len(w[name])
             /\ \A i \in DOMAIN v[name] : v[name][i] = w[name][i]
  <2>1. IsTable(v[name]) /\ IsTable(w[name])
    BY DEF Ordered, IsRead, EventTable, PacketTable
  <2>2. /\ Len(v[name]) <= Len(w[name])
        /\ \A i \in DOMAIN v[name] : i \in DOMAIN w[name] /\ v[name][i].hash = w[name][i].hash
    BY <2>1, OrderedRetained
  <2>3. CASE name = "audit"
    <3>1. EventTable(v.audit) /\ EventTable(w.audit) /\ VerifyChain(v.audit) /\ VerifyChain(w.audit)
      BY DEF IsRead, VerifiesInternally
    <3> QED
      BY <2>2, <2>3, <3>1, SameEvents
  <2>4. CASE name = "decisions"
    <3>1. /\ EventTable(v.decisions) /\ EventTable(w.decisions)
          /\ VerifyChain(v.decisions) /\ VerifyChain(w.decisions)
      BY DEF IsRead, VerifiesInternally
    <3> QED
      BY <2>2, <2>4, <3>1, SameEvents
  <2>5. CASE name = "packets"
    <3>1. /\ PacketTable(v.packets) /\ PacketTable(w.packets)
          /\ VerifyPackets(v.packets) /\ VerifyPackets(w.packets)
      BY DEF IsRead, VerifiesInternally
    <3> QED
      BY <2>2, <2>5, <3>1, SamePackets
  <2> QED
    BY <2>3, <2>4, <2>5 DEF Ordered
<1>2. v.revisions \subseteq w.revisions
  <2>1. "revisions" \in Chains /\ "revisions" \notin Ordered
    BY DEF Chains, Ordered
  <2>2. Retains(Checkpoint(w)["revisions"], Checkpoint(v)["revisions"], "revisions")
    BY <2>1, Compared
  <2>3. /\ Checkpoint(w)["revisions"].members = RevisionMembers(w.revisions)
        /\ Checkpoint(v)["revisions"].members = RevisionMembers(v.revisions)
    BY <2>1 DEF Checkpoint, Members
  <2>4. RevisionMembers(v.revisions) \subseteq RevisionMembers(w.revisions)
    BY <2>1, <2>2, <2>3 DEF Retains
  <2>5. /\ RevisionTable(v.revisions) /\ RevisionTable(w.revisions)
        /\ VerifyRevisions(v.revisions) /\ VerifyRevisions(w.revisions)
    BY DEF IsRead, VerifiesInternally
  <2> QED
    BY <2>4, <2>5, SameRevisions
<1>3. v.runs \subseteq w.runs /\ v.pages \subseteq w.pages /\ v.files \subseteq w.files
  <2>1. "extractions" \in Chains /\ "extractions" \notin Ordered
    BY DEF Chains, Ordered
  <2>2. Retains(Checkpoint(w)["extractions"], Checkpoint(v)["extractions"], "extractions")
    BY <2>1, Compared
  <2>3. /\ Checkpoint(w)["extractions"].members = ExtractionMembers(w)
        /\ Checkpoint(v)["extractions"].members = ExtractionMembers(v)
    BY <2>1 DEF Checkpoint, Members
  <2>4. ExtractionMembers(v) \subseteq ExtractionMembers(w)
    BY <2>1, <2>2, <2>3 DEF Retains
  <2>5. VerifyExtractions(v) /\ VerifyExtractions(w)
    BY DEF VerifiesInternally
  <2> QED
    BY <2>4, <2>5, SameExtractions
<1> QED
  BY <1>1, <1>2, <1>3 DEF Within

-----------------------------------------------------------------------------
(***************************************************************************)
(* What each step does to the readers.                                     *)
(***************************************************************************)

LEMMA TablesAre ==
  /\ Len(Tables) = 8 /\ DOMAIN Tables = 1 .. 8
  /\ \A at \in 1 .. 8 : Tables[at] = Tables[1] <=> at = 1
BY DEF Tables

\* A reader whose verification or job has ended.
Ended(x, status) ==
  [at |-> 0, read |-> IF status \in Fine THEN x.read ELSE NothingRead, damage |-> x.damage,
   files |-> x.files, found |-> x.found, status |-> status]

LEMMA FinishEnds ==
  ASSUME reader = [q \in Readers |-> reader[q]], NEW r \in Readers, IsReader(reader[r]),
         NEW status, Finish(r, status)
  PROVE  reader' = [reader EXCEPT ![r] = Ended(reader[r], status)]
<1> DEFINE x == reader[r]
           A == x.at
           B == x.read
           C == x.damage
           D == x.files
           G == x.found
           S == x.status
           R(a, b, c, d, t) ==
             [at |-> a, read |-> b, damage |-> c, files |-> d, found |-> G, status |-> t]
           N(b) == IF status \in Fine THEN b ELSE NothingRead
           f == [reader EXCEPT ![r].at = 0]
           g == [f EXCEPT ![r].status = status]
           h == [g EXCEPT ![r].read = N(@)]
<1>1. x = R(A, B, C, D, S)
  BY DEF IsReader
<1>2. reader' = h
  BY DEF Finish
<1>3. f = [reader EXCEPT ![r] = R(0, B, C, D, S)]
  <2>1. [x EXCEPT !.at = 0] = R(0, B, C, D, S)
    <3> HIDE DEF A, B, C, D, G, S, x
    <3> QED
      BY <1>1
  <2> QED
    BY <2>1
<1>4. g = [reader EXCEPT ![r] = R(0, B, C, D, status)]
  <2>1. [R(0, B, C, D, S) EXCEPT !.status = status] = R(0, B, C, D, status)
    <3> HIDE DEF A, B, C, D, G, S
    <3> QED
      OBVIOUS
  <2> HIDE DEF f, R
  <2>2. f[r] = R(0, B, C, D, S)
    BY <1>3
  <2>3. g = [f EXCEPT ![r] = R(0, B, C, D, status)]
    BY <2>1, <2>2
  <2> QED
    BY <1>3, <2>3
<1>5. h = [reader EXCEPT ![r] = R(0, N(B), C, D, status)]
  <2>1. /\ [R(0, B, C, D, status) EXCEPT !.read = N(B)] = R(0, N(B), C, D, status)
        /\ R(0, B, C, D, status).read = B
    <3> HIDE DEF A, B, C, D, G, S, N
    <3> QED
      OBVIOUS
  <2> HIDE DEF g, R, N
  <2>2. g[r] = R(0, B, C, D, status)
    BY <1>4
  <2>3. h = [g EXCEPT ![r] = R(0, N(B), C, D, status)]
    BY <2>1, <2>2
  <2> QED
    BY <1>4, <2>3
<1>6. R(0, N(B), C, D, status) = Ended(x, status)
  BY DEF Ended
<1> QED
  BY <1>2, <1>5, <1>6

\* A reader who has read one more table.
Further(x, rows) ==
  [at |-> x.at + 1, read |-> [x.read EXCEPT ![Tables[x.at]] = rows],
   damage |-> IF x.at = 1 THEN Len(damage) ELSE x.damage,
   files |-> IF x.at = 1 THEN FilesOf(anchors) ELSE x.files,
   found |-> x.found, status |-> x.status]

LEMMA ReadTableReads ==
  ASSUME reader = [q \in Readers |-> reader[q]], NEW r \in Readers, IsReader(reader[r]),
         ReadTable(r)
  PROVE  /\ reader[r].at \in 1 .. 8
         /\ LET rows == Select(Tables[reader[r].at], reader[r].read)
            IN  \/ /\ WithinLimit(r, rows, Tables[reader[r].at])
                   /\ reader' = [reader EXCEPT ![r] = Further(reader[r], rows)]
                \/ reader' = [reader EXCEPT ![r] = Ended(reader[r], "refused")]
<1> DEFINE x == reader[r]
           name == Tables[x.at]
           rows == Select(name, x.read)
<1>1. x.at \in 1 .. 8
  BY TablesAre DEF ReadTable, Reading
<1>2. CASE ~WithinLimit(r, rows, name)
  <2>1. Finish(r, "refused")
    BY <1>2 DEF ReadTable
  <2> QED
    BY <1>1, <2>1, FinishEnds
<1>3. CASE WithinLimit(r, rows, name)
  <2> DEFINE A == x.at
             B == x.read
             C == x.damage
             D == x.files
             G == x.found
             S == x.status
             E == [B EXCEPT ![name] = rows]
             M == IF A = 1 THEN Len(damage) ELSE C
             F == IF A = 1 THEN Files ELSE D
             y == [at |-> A + 1, read |-> E, damage |-> M, files |-> F, found |-> G, status |-> S]
  <2>1. x = [at |-> A, read |-> B, damage |-> C, files |-> D, found |-> G, status |-> S]
    BY DEF IsReader
  <2>2. name = Tables[1] <=> A = 1
    BY <1>1, TablesAre
  <2> DEFINE R(a, b, c, d, t) ==
             [at |-> a, read |-> b, damage |-> c, files |-> d, found |-> G, status |-> t]
             K(c) == IF name = Tables[1] THEN Len(damage) ELSE c
             L(d) == IF name = Tables[1] THEN Files ELSE d
             f == [reader EXCEPT ![r].at = A + 1]
             g == [f EXCEPT ![r].read = E]
             h == [g EXCEPT ![r].damage = K(C)]
             i == [h EXCEPT ![r].files = L(D)]
  <2>3. reader' = i
    <3>1. reader' = [reader EXCEPT
                       ![r].at        = @ + 1,
                       ![r].read      = [@ EXCEPT ![name] = rows],
                       ![r].damage    = IF name = Tables[1] THEN Len(damage) ELSE @,
                       ![r].files     = IF name = Tables[1] THEN Files ELSE @]
      BY <1>3, Zenon DEF ReadTable
    <3> HIDE DEF name, rows
    <3> QED
      BY <3>1
  <2>4. f = [reader EXCEPT ![r] = R(A + 1, B, C, D, S)]
    <3>1. [x EXCEPT !.at = A + 1] = R(A + 1, B, C, D, S)
      <4> HIDE DEF A, B, C, D, G, S, x
      <4> QED
        BY <2>1
    <3> QED
      BY <3>1
  <2>6. g = [reader EXCEPT ![r] = R(A + 1, E, C, D, S)]
    <3>1. /\ [R(A + 1, B, C, D, S) EXCEPT !.read = E] = R(A + 1, E, C, D, S)
          /\ R(A + 1, B, C, D, S).read = B
      <4> HIDE DEF A, B, C, D, G, S, E
      <4> QED
        OBVIOUS
    <3> HIDE DEF f, R, rows
    <3>2. f[r] = R(A + 1, B, C, D, S)
      BY <2>4
    <3>3. g = [f EXCEPT ![r] = R(A + 1, E, C, D, S)]
      BY <3>1, <3>2
    <3> QED
      BY <2>4, <3>3
  <2>7. h = [reader EXCEPT ![r] = R(A + 1, E, K(C), D, S)]
    <3>1. /\ [R(A + 1, E, C, D, S) EXCEPT !.damage = K(C)] = R(A + 1, E, K(C), D, S)
          /\ R(A + 1, E, C, D, S).damage = C
      <4> HIDE DEF A, B, C, D, G, S, E, K
      <4> QED
        OBVIOUS
    <3> HIDE DEF g, R, rows, E, K
    <3>2. g[r] = R(A + 1, E, C, D, S)
      BY <2>6
    <3>3. h = [g EXCEPT ![r] = R(A + 1, E, K(C), D, S)]
      BY <3>1, <3>2
    <3> QED
      BY <2>6, <3>3
  <2>8. i = [reader EXCEPT ![r] = R(A + 1, E, K(C), L(D), S)]
    <3>1. /\ [R(A + 1, E, K(C), D, S) EXCEPT !.files = L(D)] = R(A + 1, E, K(C), L(D), S)
          /\ R(A + 1, E, K(C), D, S).files = D
      <4> HIDE DEF A, B, C, D, G, S, E, K, L
      <4> QED
        OBVIOUS
    <3> HIDE DEF h, R, rows, E, K, L
    <3>2. h[r] = R(A + 1, E, K(C), D, S)
      BY <2>7
    <3>3. i = [h EXCEPT ![r] = R(A + 1, E, K(C), L(D), S)]
      BY <3>1, <3>2
    <3> QED
      BY <2>7, <3>3
  <2>9. K(C) = M /\ L(D) = F
    BY <2>2
  <2>5. y = Further(x, rows)
    BY DEF Further, Files, FilesOf
  <2>10. reader' = [reader EXCEPT ![r] = Further(x, rows)]
    <3>1. R(A + 1, E, M, F, S) = y
      OBVIOUS
    <3> HIDE DEF y, rows, E, K, L, M, F, R, i
    <3> QED
      BY <2>3, <2>8, <2>9, <2>5, <3>1
  <2> HIDE DEF rows
  <2> QED
    BY <1>1, <1>3, <2>10 DEF rows
<1> QED
  BY <1>2, <1>3

\* A reader who goes on, and has found the checkpoint file n.
Onward(x, n) ==
  [at |-> x.at + 1, read |-> x.read, damage |-> x.damage, files |-> x.files, found |-> n,
   status |-> x.status]

LEMMA GoesOnward ==
  ASSUME reader = [q \in Readers |-> reader[q]], NEW r \in Readers, IsReader(reader[r]), NEW n,
         \/ reader' = [reader EXCEPT ![r].at = @ + 1] /\ n = reader[r].found
         \/ reader' = [reader EXCEPT ![r].at = @ + 1, ![r].found = n]
  PROVE  reader' = [reader EXCEPT ![r] = Onward(reader[r], n)]
<1> DEFINE x == reader[r]
           A == x.at
           B == x.read
           C == x.damage
           D == x.files
           G == x.found
           S == x.status
           R(a, g) == [at |-> a, read |-> B, damage |-> C, files |-> D, found |-> g, status |-> S]
           f == [reader EXCEPT ![r].at = A + 1]
<1>1. x = R(A, G)
  BY DEF IsReader
<1>2. [x EXCEPT !.at = A + 1] = R(A + 1, G) /\ [R(A + 1, G) EXCEPT !.found = n] = R(A + 1, n)
  <2> HIDE DEF A, B, C, D, G, S, x
  <2> QED
    BY <1>1
<1>3. R(A + 1, n) = Onward(x, n)
  BY DEF Onward
<1>4. f = [reader EXCEPT ![r] = R(A + 1, G)]
  <2>1. f = [reader EXCEPT ![r] = [x EXCEPT !.at = A + 1]]
    OBVIOUS
  <2> HIDE DEF R, f, x
  <2> QED
    BY <1>2, <2>1
<1>5. CASE reader' = f /\ n = G
  <2>1. reader' = [reader EXCEPT ![r] = R(A + 1, n)]
    <3> HIDE DEF R, f, x, G, A
    <3> QED
      BY <1>4, <1>5
  <2> QED
    BY <1>3, <2>1
<1>6. CASE reader' = [f EXCEPT ![r].found = n]
  <2> HIDE DEF R, f
  <2>1. f[r] = R(A + 1, G)
    BY <1>4
  <2>2. reader' = [f EXCEPT ![r] = R(A + 1, n)]
    BY <1>2, <1>6, <2>1
  <2>3. reader' = [reader EXCEPT ![r] = R(A + 1, n)]
    BY <1>4, <2>2
  <2> QED
    BY <1>3, <2>3
<1> QED
  BY <1>5, <1>6

-----------------------------------------------------------------------------
(***************************************************************************)
(* Every step keeps the invariant.                                         *)
(***************************************************************************)

LEMMA ReadLater ==
  ASSUME NEW v, NEW n \in Nat, NEW m \in Nat, n <= m, IsRead(v, n)
  PROVE  IsRead(v, m)
BY DEF IsRead, RunTable, FileTable

\* At the last steps everything has been read.
LEMMA AllRead ==
  ASSUME NEW x, NEW d, Fields(x.read), x.at \in {9, 10, 11}
  PROVE  View(x.at, x.read, d) = x.read
<1>1. x.at \in Int /\ x.at > 8
  OBVIOUS
<1> QED
  BY <1>1, ViewAtTheEnds

\* The history changes.
LEMMA GoodWithHistory ==
  ASSUME NEW r, NEW x, NEW d, NEW e, NEW n \in Nat, NEW m \in Nat, n <= m,
         NEW k \in Nat, NEW l \in Nat, k <= l, NEW an,
         GoodReader(r, x, d, n, k, an), IsHistory(e, m)
  PROVE  GoodReader(r, x, e, m, l, an)
<1>1. x.at # 0 => IsRead(View(x.at, x.read, e), m)
  <2> SUFFICES ASSUME x.at # 0 PROVE IsRead(View(x.at, x.read, e), m)
    OBVIOUS
  <2>1. x.at \in 1 .. 11 /\ IsRead(View(x.at, x.read, d), n)
    BY DEF GoodReader
  <2> QED
    BY <2>1, StillRead
<1> QED
  BY <1>1 DEF GoodReader

\* r has opened a checkpoint file, or written or removed his.
AnchorsMove(an, bn, r) ==
  /\ IsTable(bn)
  /\ \A i \in DOMAIN an :
       /\ i \in DOMAIN bn /\ bn[i].by = an[i].by
       /\ bn[i].there => an[i].there
  /\ \A i \in Done(an) : i \in Done(bn) /\ bn[i].signed = an[i].signed
  /\ \A i \in DOMAIN bn : bn[i].by # r => i \in DOMAIN an /\ bn[i] = an[i]
  /\ \/ \E i \in DOMAIN bn : i \notin DOMAIN an
     \/ \E i \in DOMAIN an : (bn[i].complete /\ ~an[i].complete) \/ (an[i].there /\ ~bn[i].there)

\* What is known of the files stays true.
LEMMA KnownStays ==
  ASSUME NEW x, NEW an, NEW bn, NEW r, AnchorsMove(an, bn, r), Knew(x, an)
  PROVE  /\ Knew(x, bn)
         /\ \A i : NoneAfter(x, an, i) => NoneAfter(x, bn, i)
         /\ Retained(x, an) => Retained(x, bn)
<1>1. Knew(x, bn)
  BY DEF AnchorsMove, Knew, Done
<1>2. Before(x, bn) \subseteq Before(x, an)
  BY DEF AnchorsMove, Knew, Before
<1>3. ASSUME NEW i, NoneAfter(x, an, i) PROVE NoneAfter(x, bn, i)
  BY <1>2, <1>3 DEF NoneAfter, AnchorsMove
<1>4. ASSUME Retained(x, an) PROVE Retained(x, bn)
  <2>1. PICK i \in DOMAIN an :
          an[i].complete /\ NoneAfter(x, an, i) /\ Within(an[i].signed, x.read)
    BY <1>4 DEF Retained
  <2>2. i \in DOMAIN bn /\ bn[i].complete /\ bn[i].signed = an[i].signed
    BY <2>1 DEF AnchorsMove, Done
  <2> QED
    BY <1>3, <2>1, <2>2 DEF Retained
<1> QED
  BY <1>1, <1>3, <1>4

LEMMA GoodWithAnchors ==
  ASSUME NEW r, NEW q, q # r, NEW x, NEW d, NEW n, NEW k, NEW an, NEW bn,
         AnchorsMove(an, bn, r), GoodReader(q, x, d, n, k, an)
  PROVE  GoodReader(q, x, d, n, k, bn)
<1>1. q \in Jobs => JobsFile(q, x, bn)
  <2> SUFFICES ASSUME JobsFile(q, x, an) PROVE JobsFile(q, x, bn)
    BY DEF GoodReader
  <2>1. ASSUME x.at \in 1 .. 9, NEW i \in DOMAIN bn PROVE bn[i].by # q
    BY <2>1 DEF JobsFile, AnchorsMove
  <2>2. ASSUME x.at \in {10, 11}
        PROVE  /\ \E i \in DOMAIN bn : bn[i].by = q
               /\ \A i \in DOMAIN bn :
                    bn[i].by = q => bn[i].there /\ (x.at = 10 => ~bn[i].complete)
               /\ VerifiesInternally(x.read)
    BY <2>2 DEF JobsFile, AnchorsMove
  <2> QED
    BY <2>1, <2>2 DEF JobsFile
<1>2. Knew(x, an)
  BY DEF GoodReader
<1>3. /\ Knew(x, bn)
      /\ \A i : NoneAfter(x, an, i) => NoneAfter(x, bn, i)
      /\ Retained(x, an) => Retained(x, bn)
  BY <1>2, KnownStays
<1> QED
  BY <1>1, <1>3 DEF GoodReader

LEMMA OpeningMoves ==
  ASSUME NEW an, IsTable(an), NEW r
  PROVE  AnchorsMove(an, Append(an, [complete |-> FALSE, there |-> TRUE, by |-> r]), r)
<1> DEFINE a == [complete |-> FALSE, there |-> TRUE, by |-> r]
           bn == Append(an, a)
<1>1. a.by = r
  OBVIOUS
<1> HIDE DEF a
<1>2. /\ IsTable(bn) /\ Len(bn) = Len(an) + 1 /\ DOMAIN bn = 1 .. Len(an) + 1
      /\ \A i \in 1 .. Len(an) : bn[i] = an[i]
      /\ bn[Len(an) + 1] = a
  BY TableGrows
<1>3. Len(an) \in Nat /\ DOMAIN an = 1 .. Len(an)
  BY TableLength
<1> HIDE DEF bn
<1>4. \A i \in DOMAIN bn : (i \in DOMAIN an /\ bn[i] = an[i]) \/ (i = Len(an) + 1 /\ bn[i] = a)
  BY <1>2, <1>3
<1>5. \A i \in DOMAIN an : i \in DOMAIN bn /\ bn[i] = an[i]
  BY <1>2, <1>3
<1>6. Len(an) + 1 \in DOMAIN bn /\ Len(an) + 1 \notin DOMAIN an
  BY <1>2, <1>3
<1>7. AnchorsMove(an, bn, r)
  BY <1>1, <1>2, <1>4, <1>5, <1>6 DEF AnchorsMove, Done
<1> QED
  BY <1>7 DEF bn, a

LEMMA FileTableIs ==
  ASSUME NEW an, IsTable(an), NEW bn, bn = [i \in DOMAIN an |-> bn[i]]
  PROVE  IsTable(bn)
<1>1. Len(an) \in Nat /\ DOMAIN an = 1 .. Len(an)
  BY TableLength
<1> DEFINE S == {bn[i] : i \in DOMAIN an}
<1>2. bn \in [1 .. Len(an) -> S]
  BY <1>1
<1> HIDE DEF S
<1> QED
  BY <1>1, <1>2, TableOfFunction

LEMMA WritingMoves ==
  ASSUME NEW an, IsTable(an), NEW r, NEW x, x.at = 10, JobsFile(r, x, an), NEW a,
         a.complete, a.by = r
  PROVE  AnchorsMove(an, [i \in DOMAIN an |-> IF an[i].by = r THEN a ELSE an[i]], r)
<1> DEFINE G(i) == IF an[i].by = r THEN a ELSE an[i]
           bn == [i \in DOMAIN an |-> G(i)]
<1>1. IsTable(bn) /\ DOMAIN bn = DOMAIN an /\ \A i \in DOMAIN an : bn[i] = G(i)
  <2>1. bn = [i \in DOMAIN an |-> bn[i]]
    OBVIOUS
  <2>2. DOMAIN bn = DOMAIN an /\ \A i \in DOMAIN an : bn[i] = G(i)
    OBVIOUS
  <2> HIDE DEF bn
  <2> QED
    BY <2>1, <2>2, FileTableIs
<1> HIDE DEF bn
<1>2. PICK j \in DOMAIN an : an[j].by = r
  BY DEF JobsFile
<1>3. \A i \in DOMAIN an : an[i].by = r => ~an[i].complete /\ an[i].there
  BY DEF JobsFile
<1>4. bn[j].complete /\ ~an[j].complete
  BY <1>1, <1>2, <1>3
<1>5. \A i \in Done(an) : i \in DOMAIN an /\ bn[i] = an[i] /\ i \in Done(bn)
  BY <1>1, <1>3 DEF Done
<1>6. \A i \in DOMAIN an : bn[i].by = an[i].by /\ (bn[i].there => an[i].there)
  BY <1>1, <1>3
<1>7. \A i \in DOMAIN bn : bn[i].by # r => i \in DOMAIN an /\ bn[i] = an[i]
  BY <1>1
<1>8. AnchorsMove(an, bn, r)
  BY <1>1, <1>4, <1>5, <1>6, <1>7 DEF AnchorsMove
<1> QED
  BY <1>8 DEF bn

\* The file a that is removed.
Removed(a) == [a EXCEPT !.there = FALSE]

LEMMA RemovedIs ==
  ASSUME NEW a, NEW n, AnchorTrue(a, n)
  PROVE  /\ Removed(a).by = a.by /\ Removed(a).complete = a.complete /\ ~Removed(a).there
         /\ a.complete => Removed(a).signed = a.signed
         /\ AnchorTrue(Removed(a), n)
<1>1. /\ DOMAIN Removed(a) = DOMAIN a
      /\ \A k \in DOMAIN a : k # "there" => Removed(a)[k] = a[k]
      /\ "there" \in DOMAIN a => Removed(a)["there"] = FALSE
  BY DEF Removed
<1> QED
  BY <1>1 DEF AnchorTrue

LEMMA RemovingMoves ==
  ASSUME NEW an, IsTable(an), NEW r, NEW x, x.at \in {10, 11}, JobsFile(r, x, an), NEW n,
         \A i \in DOMAIN an : AnchorTrue(an[i], n)
  PROVE  LET bn == [i \in DOMAIN an |-> IF an[i].by = r THEN Removed(an[i]) ELSE an[i]]
         IN  AnchorsMove(an, bn, r) /\ \A i \in DOMAIN bn : AnchorTrue(bn[i], n)
<1> DEFINE G(i) == IF an[i].by = r THEN Removed(an[i]) ELSE an[i]
           bn == [i \in DOMAIN an |-> G(i)]
<1>1. IsTable(bn) /\ DOMAIN bn = DOMAIN an /\ \A i \in DOMAIN an : bn[i] = G(i)
  <2>1. bn = [i \in DOMAIN an |-> bn[i]]
    OBVIOUS
  <2>2. DOMAIN bn = DOMAIN an /\ \A i \in DOMAIN an : bn[i] = G(i)
    OBVIOUS
  <2> HIDE DEF bn
  <2> QED
    BY <2>1, <2>2, FileTableIs
<1> HIDE DEF bn
<1>2. PICK j \in DOMAIN an : an[j].by = r
  BY DEF JobsFile
<1>3. an[j].there
  BY <1>2 DEF JobsFile
<1>4. ASSUME NEW i \in DOMAIN an
      PROVE  /\ bn[i].by = an[i].by /\ bn[i].complete = an[i].complete
             /\ bn[i].there => an[i].there
             /\ an[i].complete => bn[i].signed = an[i].signed
             /\ AnchorTrue(bn[i], n)
             /\ an[i].by = r => ~bn[i].there
             /\ an[i].by # r => bn[i] = an[i]
  BY <1>1, RemovedIs
<1>5. AnchorsMove(an, bn, r)
  BY <1>1, <1>2, <1>3, <1>4 DEF AnchorsMove, Done
<1> QED
  BY <1>1, <1>4, <1>5 DEF bn

\* A verification or a job ends.
LEMMA GoodAtTheEnd ==
  ASSUME NEW r, NEW x, NEW d, NEW n, NEW k, NEW an, NEW bn, NEW status,
         GoodReader(r, x, d, n, k, an), bn = an \/ AnchorsMove(an, bn, r),
         status \in Fine => Retained(x, bn)
  PROVE  GoodReader(r, Ended(x, status), d, n, k, bn)
<1> DEFINE y == Ended(x, status)
<1>1. /\ y.at = 0 /\ y.damage = x.damage /\ y.files = x.files /\ y.status = status
      /\ y.read = IF status \in Fine THEN x.read ELSE NothingRead
      /\ IsReader(y)
  BY DEF Ended, IsReader
<1> HIDE DEF y
<1>2. Fields(NothingRead)
  BY DEF NothingRead, Fields
<1>3. status \in Fine => Retained(y, bn)
  BY <1>1 DEF Retained, NoneAfter, Before
<1>4. r \in Jobs => JobsFile(r, y, bn)
  BY <1>1 DEF JobsFile
<1>5. Knew(x, an) /\ Knew(x, bn)
  BY KnownStays DEF GoodReader
<1>6. Knew(y, bn)
  BY <1>1, <1>5 DEF Knew
<1>7. GoodReader(r, y, d, n, k, bn)
  BY <1>1, <1>2, <1>3, <1>4, <1>6 DEF GoodReader
<1> QED
  BY <1>7 DEF y

\* It goes on, and everything has been read.
LEMMA GoodOnward ==
  ASSUME NEW r, NEW x, x.at \in {9, 10}, NEW d, NEW n, NEW k, NEW an, NEW bn, NEW m,
         GoodReader(r, x, d, n, k, an), bn = an \/ AnchorsMove(an, bn, r),
         r \in Jobs => JobsFile(r, Onward(x, m), bn),
         r \in Verifiers => x.at = 9 /\ (m = 0 \/ NoneAfter(x, bn, m))
  PROVE  GoodReader(r, Onward(x, m), d, n, k, bn)
<1> DEFINE y == Onward(x, m)
<1>1. /\ y.at = x.at + 1 /\ y.damage = x.damage /\ y.files = x.files /\ y.status = x.status
      /\ y.read = x.read /\ y.found = m /\ IsReader(y)
  BY DEF Onward, IsReader
<1> HIDE DEF y
<1>2. y.at \in 0 .. 11 /\ y.at # 0 /\ y.at \in {9, 10, 11}
  BY <1>1
<1>3. Knew(x, an) /\ Knew(x, bn)
  BY KnownStays DEF GoodReader
<1>4. Knew(y, bn) /\ (NoneAfter(x, bn, m) => NoneAfter(y, bn, m))
  BY <1>1, <1>3 DEF Knew, NoneAfter, Before
<1>5. View(y.at, y.read, d) = x.read /\ View(x.at, x.read, d) = x.read
  BY <1>1, <1>2, AllRead DEF GoodReader
<1>6. x.status = "none" /\ IsRead(View(y.at, y.read, d), n)
  BY <1>5 DEF GoodReader
<1>7. y.status \notin Fine
  BY <1>1, <1>6 DEF Fine
<1>8. GoodReader(r, y, d, n, k, bn)
  BY <1>1, <1>2, <1>4, <1>6, <1>7 DEF GoodReader, y
<1> QED
  BY <1>8 DEF y

\* One reader takes a step.
LEMMA CoreOfReader ==
  ASSUME Core, NEW r \in Readers, NEW y, reader' = [reader EXCEPT ![r] = y],
         UNCHANGED <<db, minted, damage>>,
         \/ UNCHANGED anchors
         \/ /\ AnchorsMove(anchors, anchors', r)
            /\ \A i \in DOMAIN anchors' : AnchorTrue(anchors'[i], minted),
         GoodReader(r, y, db, minted, Len(damage), anchors')
  PROVE  Core'
<1>1. Ground'
  <2>1. reader' = [q \in Readers |-> reader'[q]]
    BY DEF Core, Ground
  <2>2. IsTable(anchors')
    BY DEF Core, Ground, AnchorsMove
  <2>3. \A i \in DOMAIN anchors' : AnchorTrue(anchors'[i], minted)
    BY DEF Core, Ground
  <2> QED
    BY <2>1, <2>2, <2>3 DEF Core, Ground
<1>2. ASSUME NEW q \in Readers
      PROVE  GoodReader(q, reader'[q], db, minted, Len(damage), anchors')
  <2>1. CASE q = r
    BY <2>1 DEF Core, Ground
  <2>2. CASE q # r
    <3>1. reader'[q] = reader[q]
      BY <2>2 DEF Core, Ground
    <3>2. GoodReader(q, reader[q], db, minted, Len(damage), anchors)
      BY DEF Core
    <3> QED
      BY <2>2, <3>1, <3>2, GoodWithAnchors
  <2> QED
    BY <2>1, <2>2
<1> QED
  BY <1>1, <1>2 DEF Core

\* The history changes, and nothing else.
LEMMA CoreOfHistory ==
  ASSUME Core, IsHistory(db', minted'), minted' \in Nat, minted <= minted',
         UNCHANGED <<anchors, reader>>,
         damage' \in Seq({"alter", "lose", "rewrite", "restore"}), Len(damage) <= Len(damage')
  PROVE  Core'
<1>1. ASSUME NEW a, AnchorTrue(a, minted) PROVE AnchorTrue(a, minted')
  BY <1>1, ReadLater DEF Core, Ground, AnchorTrue
<1>2. Ground'
  BY <1>1 DEF Core, Ground
<1>3. ASSUME NEW r \in Readers
      PROVE  GoodReader(r, reader[r], db', minted', Len(damage'), anchors)
  <2>1. GoodReader(r, reader[r], db, minted, Len(damage), anchors)
    BY DEF Core
  <2>2. Len(damage) \in Nat /\ Len(damage') \in Nat /\ minted \in Nat
    BY LenProperties DEF Core, Ground
  <2> QED
    BY <2>1, <2>2, GoodWithHistory
<1> QED
  BY <1>2, <1>3 DEF Core

LEMMA CoreOperate ==
  ASSUME Core, Operate
  PROVE  Core' /\ Grown(db, db', minted + 1) /\ minted' = minted + 1
<1>1. IsHistory(db, minted) /\ minted \in Nat
  BY DEF Core, Ground
<1>2. Grown(db, db', minted + 1) /\ minted' = minted + 1
  BY <1>1, OperateGrows DEF IsHistory, IsRecord
<1>3. IsHistory(db', minted')
  BY <1>1, <1>2, HistoryGrows
<1>4. UNCHANGED <<damage, anchors, reader>>
  BY DEF Operate
<1>5. damage' \in Seq({"alter", "lose", "rewrite", "restore"}) /\ Len(damage) <= Len(damage')
  BY <1>4, LenProperties DEF Core, Ground
<1> QED
  BY <1>1, <1>2, <1>3, <1>4, <1>5, CoreOfHistory

LEMMA CoreDamage ==
  ASSUME Core, Alter \/ Lose \/ Rewrite \/ Restore
  PROVE  /\ Core'
         /\ UNCHANGED <<minted, anchors, reader>>
         /\ \E kind \in {"alter", "lose", "rewrite", "restore"} :
              /\ damage' = Append(damage, kind)
              /\ kind \in {"alter", "lose"} => Alter \/ Lose
<1>1. IsHistory(db, minted) /\ minted \in Nat
      /\ damage \in Seq({"alter", "lose", "rewrite", "restore"})
  BY DEF Core, Ground
<1>2. IsHistory(db', minted)
  <2>1. CASE Alter \/ Lose
    <3>1. Touched(db, db')
      BY <1>1, <2>1, AlterTouches DEF IsHistory, IsRecord
    <3> QED
      BY <1>1, <3>1, HistoryTouched
  <2>2. CASE Rewrite
    BY <1>1, <2>2, HistoryRewritten
  <2>3. CASE Restore
    BY <1>1, <2>3, HistoryRestored
  <2> QED
    BY <2>1, <2>2, <2>3
<1>3. /\ UNCHANGED <<minted, anchors, reader>>
      /\ \E kind \in {"alter", "lose", "rewrite", "restore"} :
           /\ damage' = Append(damage, kind)
           /\ kind \in {"alter", "lose"} => Alter \/ Lose
  <2>1. CASE Alter
    BY <2>1 DEF Alter, Damage
  <2>2. CASE Lose
    BY <2>2 DEF Lose, Damage
  <2>3. CASE Rewrite
    BY <2>3 DEF Rewrite, Damage
  <2>4. CASE Restore
    BY <2>4 DEF Restore, Damage
  <2> QED
    BY <2>1, <2>2, <2>3, <2>4
<1>4. /\ damage' \in Seq({"alter", "lose", "rewrite", "restore"})
      /\ Len(damage') = Len(damage) + 1 /\ Len(damage) \in Nat
  BY <1>1, <1>3, AppendProperties, LenProperties
<1>5. Len(damage) <= Len(damage') /\ IsHistory(db', minted') /\ minted' \in Nat /\ minted <= minted'
  BY <1>1, <1>2, <1>3, <1>4
<1>6. Core'
  BY <1>3, <1>4, <1>5, CoreOfHistory
<1> QED
  BY <1>3, <1>6

LEMMA CoreReadTable ==
  ASSUME Core, NEW r \in Readers, ReadTable(r)
  PROVE  Core'
<1> DEFINE x == reader[r]
           name == Tables[x.at]
           rows == Select(name, x.read)
           y == Further(x, rows)
<1>1. /\ GoodReader(r, x, db, minted, Len(damage), anchors)
      /\ reader = [q \in Readers |-> reader[q]]
      /\ IsTable(anchors) /\ damage \in Seq({"alter", "lose", "rewrite", "restore"})
  BY DEF Core, Ground
<1>2. IsReader(x)
  BY <1>1 DEF GoodReader
<1>3. UNCHANGED <<db, minted, damage, anchors>>
  BY DEF ReadTable
<1>4. x.at \in 1 .. 8 /\ \/ reader' = [reader EXCEPT ![r] = y]
                         \/ reader' = [reader EXCEPT ![r] = Ended(x, "refused")]
  BY <1>1, <1>2, ReadTableReads
<1>5. CASE reader' = [reader EXCEPT ![r] = Ended(x, "refused")]
  <2>1. "refused" \notin Fine
    BY DEF Fine
  <2>2. GoodReader(r, Ended(x, "refused"), db, minted, Len(damage), anchors)
    BY <1>1, <2>1, GoodAtTheEnd
  <2> HIDE DEF x
  <2> QED
    BY <1>3, <1>5, <2>2, CoreOfReader
<1>6. CASE reader' = [reader EXCEPT ![r] = y]
  <2>1. Fields(x.read)
    BY <1>1 DEF GoodReader
  <2> DEFINE next == [x.read EXCEPT ![name] = rows]
  <2>2. Fields(next) /\ View(x.at + 1, next, db) = View(x.at, x.read, db)
    BY <1>4, <2>1, ViewStays
  <2>3. /\ y.at = x.at + 1 /\ y.read = next /\ y.status = x.status
        /\ y.damage = IF x.at = 1 THEN Len(damage) ELSE x.damage
        /\ y.files = IF x.at = 1 THEN FilesOf(anchors) ELSE x.files
        /\ IsReader(y)
    BY DEF Further, IsReader
  <2> HIDE DEF x, y, next, rows, name
  <2>4. y.at \in 2 .. 9 /\ y.at # 0 /\ y.at \notin {10, 11} /\ y.at \in 0 .. 11
    BY <1>4, <2>3
  <2>5. y.status = "none" /\ IsRead(View(y.at, y.read, db), minted)
    BY <1>1, <1>4, <2>2, <2>3 DEF GoodReader
  <2>6. y.damage \in 0 .. Len(damage)
    BY <1>1, <2>3, LenProperties DEF GoodReader
  <2>7. Knew(y, anchors)
    <3>1. /\ DOMAIN FilesOf(anchors) = DOMAIN anchors
          /\ \A i \in DOMAIN anchors : /\ FilesOf(anchors)[i].complete = anchors[i].complete
                                       /\ FilesOf(anchors)[i].there = anchors[i].there
      BY DEF FilesOf
    <3>2. CASE x.at = 1
      BY <2>3, <3>1, <3>2 DEF Knew
    <3>3. CASE x.at # 1
      BY <1>1, <2>3, <3>3 DEF GoodReader, Knew
    <3> QED
      BY <3>2, <3>3
  <2>8. r \in Jobs => JobsFile(r, y, anchors)
    BY <1>1, <1>4, <2>4 DEF GoodReader, JobsFile
  <2>9. y.status \notin Fine
    BY <2>5 DEF Fine
  <2>10. GoodReader(r, y, db, minted, Len(damage), anchors)
    BY <2>2, <2>3, <2>4, <2>5, <2>6, <2>7, <2>8, <2>9 DEF GoodReader
  <2> QED
    BY <1>3, <1>6, <2>10, CoreOfReader
<1> QED
  BY <1>4, <1>5, <1>6

LEMMA FindGoes ==
  ASSUME Core, NEW r \in Readers, FindLatestAnchor(r)
  PROVE  /\ reader[r].at = 9 /\ r \in Verifiers
         /\ UNCHANGED <<db, minted, damage, anchors>>
         /\ \E m : /\ (m = 0 /\ Last(anchors) = {}) \/ m \in Last(anchors)
                   /\ reader' = [reader EXCEPT ![r] = Onward(reader[r], m)]
<1>1. /\ reader[r].at = 9 /\ r \in Verifiers /\ UNCHANGED <<db, minted, damage, anchors>>
      /\ LatestAnchor = Last(anchors)
  BY TablesAre DEF FindLatestAnchor, HasRead, LatestAnchor, Last
<1>2. PICK m \in IF LatestAnchor = {} THEN {0} ELSE LatestAnchor :
        reader' = [reader EXCEPT ![r].at = @ + 1, ![r].found = m]
  BY DEF FindLatestAnchor
<1>3. reader = [q \in Readers |-> reader[q]] /\ IsReader(reader[r])
  BY DEF Core, Ground, GoodReader
<1>4. reader' = [reader EXCEPT ![r] = Onward(reader[r], m)]
  BY <1>2, <1>3, GoesOnward
<1> QED
  BY <1>1, <1>2, <1>4

LEMMA CoreFind ==
  ASSUME Core, NEW r \in Readers, FindLatestAnchor(r)
  PROVE  Core'
<1> DEFINE x == reader[r]
<1>1. GoodReader(r, x, db, minted, Len(damage), anchors) /\ r \notin Jobs
  BY FindGoes, IntegrityAssumption DEF Core
<1>2. x.at = 9 /\ r \in Verifiers /\ UNCHANGED <<db, minted, damage, anchors>>
  BY FindGoes
<1>3. PICK m : /\ (m = 0 /\ Last(anchors) = {}) \/ m \in Last(anchors)
               /\ reader' = [reader EXCEPT ![r] = Onward(x, m)]
  BY FindGoes
<1>4. m = 0 \/ NoneAfter(x, anchors, m)
  BY <1>1, <1>3 DEF NoneAfter, Before, Last, GoodReader, Knew
<1> HIDE DEF x
<1>5. GoodReader(r, Onward(x, m), db, minted, Len(damage), anchors)
  BY <1>1, <1>2, <1>4, GoodOnward
<1> QED
  BY <1>2, <1>3, <1>5, CoreOfReader

\* The status a verification ends with.
Outcome(x) ==
  IF AnchorStatus(x.found, x.read) \in Fine /\ ~VerifiesInternally(x.read)
  THEN "internal" ELSE AnchorStatus(x.found, x.read)

LEMMA CheckEnds ==
  ASSUME Core, NEW r \in Readers, CheckLatestAnchor(r)
  PROVE  /\ reader[r].at = 10 /\ r \in Verifiers
         /\ reader' = [reader EXCEPT ![r] = Ended(reader[r], Outcome(reader[r]))]
         /\ UNCHANGED <<db, minted, damage, anchors>>
         /\ View(reader[r].at, reader[r].read, db) = reader[r].read
<1> DEFINE x == reader[r]
<1>1. IsReader(x) /\ Fields(x.read) /\ reader = [q \in Readers |-> reader[q]]
  BY DEF Core, Ground, GoodReader
<1>2. x.at = 10
  BY TablesAre DEF CheckLatestAnchor, HasFound
<1>3. Finish(r, Outcome(x)) /\ r \in Verifiers /\ UNCHANGED <<db, minted, damage, anchors>>
  BY DEF CheckLatestAnchor, HasFound, Outcome
<1>4. reader' = [reader EXCEPT ![r] = Ended(x, Outcome(x))]
  <2> HIDE DEF x
  <2>1. reader = [q \in Readers |-> reader[q]] /\ IsReader(reader[r])
    BY <1>1 DEF x
  <2>2. Finish(r, Outcome(reader[r]))
    BY <1>3 DEF x
  <2>3. reader' = [reader EXCEPT ![r] = Ended(reader[r], Outcome(reader[r]))]
    BY <2>1, <2>2, FinishEnds
  <2> QED
    BY <2>3 DEF x
<1>5. View(x.at, x.read, db) = x.read
  BY <1>1, <1>2, AllRead
<1> QED
  BY <1>2, <1>3, <1>4, <1>5

LEMMA CoreCheck ==
  ASSUME Core, NEW r \in Readers, CheckLatestAnchor(r)
  PROVE  Core'
<1> DEFINE x == reader[r]
           s == Outcome(x)
<1>1. /\ GoodReader(r, x, db, minted, Len(damage), anchors)
      /\ \A i \in DOMAIN anchors : AnchorTrue(anchors[i], minted)
  BY DEF Core, Ground
<1>2. /\ x.at = 10 /\ reader' = [reader EXCEPT ![r] = Ended(x, s)] /\ r \in Verifiers
      /\ UNCHANGED <<db, minted, damage, anchors>>
      /\ View(x.at, x.read, db) = x.read
  BY CheckEnds
<1> HIDE DEF x
<1>3. ASSUME s \in Fine
      PROVE  Retained(x, anchors)
  <2>1. AnchorStatus(x.found, x.read) \in Fine /\ VerifiesInternally(x.read)
    BY <1>3 DEF Outcome, Fine
  <2> DEFINE a == anchors[x.found]
  <2>2. x.found # 0 /\ a.complete /\ CompareWith(Checkpoint(x.read), a.checkpoint) \in Fine
    <3> HIDE DEF a
    <3>1. AnchorStatus(x.found, x.read) = IF x.found = 0 THEN "missing"
                                          ELSE IF ~a.there \/ ~a.complete THEN "invalid"
                                          ELSE IF ~Complete(x.read) THEN "error"
                                          ELSE CompareWith(Checkpoint(x.read), a.checkpoint)
      BY DEF AnchorStatus, a
    <3> QED
      BY <2>1, <3>1 DEF Fine
  <2>3. NoneAfter(x, anchors, x.found) /\ x.found \in DOMAIN anchors
    BY <1>1, <1>2, <2>2 DEF GoodReader, NoneAfter
  <2>4. AnchorTrue(a, minted)
    BY <1>1, <2>3
  <2> HIDE DEF a
  <2>5. a.checkpoint = Checkpoint(a.signed) /\ IsRead(a.signed, minted) /\ VerifiesInternally(a.signed)
    BY <2>2, <2>4 DEF AnchorTrue
  <2>6. IsRead(x.read, minted)
    BY <1>1, <1>2 DEF GoodReader
  <2>7. Within(a.signed, x.read)
    BY <2>1, <2>2, <2>5, <2>6, SignedIsRetained
  <2> QED
    BY <2>2, <2>3, <2>7 DEF Retained, a
<1> HIDE DEF s
<1>4. GoodReader(r, Ended(x, s), db, minted, Len(damage), anchors)
  BY <1>1, <1>3, GoodAtTheEnd
<1> QED
  BY <1>2, <1>4, CoreOfReader

\* A job ends, and has signed nothing to an end.
LEMMA CoreEnds ==
  ASSUME Core, NEW r \in Readers, NEW status, status \notin Fine, Finish(r, status),
         UNCHANGED <<db, minted, damage>>,
         \/ UNCHANGED anchors
         \/ /\ AnchorsMove(anchors, anchors', r)
            /\ \A i \in DOMAIN anchors' : AnchorTrue(anchors'[i], minted)
  PROVE  Core' /\ reader' = [reader EXCEPT ![r] = Ended(reader[r], status)]
<1> DEFINE x == reader[r]
<1>1. /\ GoodReader(r, x, db, minted, Len(damage), anchors) /\ IsReader(x)
      /\ reader = [q \in Readers |-> reader[q]]
  BY DEF Core, Ground, GoodReader
<1>2. reader' = [reader EXCEPT ![r] = Ended(x, status)]
  BY <1>1, FinishEnds
<1> HIDE DEF x
<1>3. GoodReader(r, Ended(x, status), db, minted, Len(damage), anchors')
  BY <1>1, GoodAtTheEnd
<1>4. Core'
  BY <1>2, <1>3, CoreOfReader
<1> QED
  BY <1>2, <1>4 DEF x

LEMMA CoreOpen ==
  ASSUME Core, NEW r \in Readers, OpenAnchor(r)
  PROVE  Core'
<1> DEFINE x == reader[r]
<1>1. /\ GoodReader(r, x, db, minted, Len(damage), anchors)
      /\ reader = [q \in Readers |-> reader[q]]
      /\ IsTable(anchors)
      /\ \A i \in DOMAIN anchors : AnchorTrue(anchors[i], minted)
  BY DEF Core, Ground
<1>2. /\ IsReader(x) /\ x.at = 9 /\ r \in Jobs /\ r \notin Verifiers
      /\ UNCHANGED <<db, minted, damage>>
  BY <1>1, TablesAre, IntegrityAssumption DEF GoodReader, OpenAnchor, HasRead
<1>3. CASE Finish(r, "refused") /\ UNCHANGED anchors
  <2>1. "refused" \notin Fine
    BY DEF Fine
  <2> QED
    BY <1>2, <1>3, <2>1, CoreEnds
<1>4. ASSUME VerifiesInternally(x.read), reader' = [reader EXCEPT ![r].at = @ + 1],
             anchors' = Append(anchors, [complete |-> FALSE, there |-> TRUE, by |-> r])
      PROVE  Core'
  <2> DEFINE y == Onward(x, x.found)
  <2>1. reader' = [reader EXCEPT ![r] = y]
    BY <1>1, <1>2, <1>4, GoesOnward
  <2>2. y.at = 10 /\ y.read = x.read
    BY <1>2 DEF Onward
  <2> HIDE DEF x, y
  <2> DEFINE a == [complete |-> FALSE, there |-> TRUE, by |-> r]
             bn == Append(anchors, a)
  <2>3. AnchorsMove(anchors, bn, r)
    BY <1>1, OpeningMoves
  <2>4. a.by = r /\ ~a.complete /\ a.there /\ {"complete", "there", "by"} \subseteq DOMAIN a
    OBVIOUS
  <2>5. /\ DOMAIN bn = 1 .. Len(anchors) + 1
        /\ \A i \in 1 .. Len(anchors) : bn[i] = anchors[i]
        /\ bn[Len(anchors) + 1] = a
    BY <1>1, TableGrows
  <2>6. Len(anchors) \in Nat /\ DOMAIN anchors = 1 .. Len(anchors)
    BY <1>1, TableLength
  <2>7. anchors' = bn
    BY <1>4
  <2> HIDE DEF a, bn
  <2>8. \A i \in DOMAIN bn : AnchorTrue(bn[i], minted)
    <3> SUFFICES ASSUME NEW i \in DOMAIN bn PROVE AnchorTrue(bn[i], minted)
      OBVIOUS
    <3>1. CASE i \in 1 .. Len(anchors)
      BY <1>1, <2>5, <2>6, <3>1
    <3>2. CASE i = Len(anchors) + 1
      BY <2>4, <2>5, <3>2 DEF AnchorTrue
    <3> QED
      BY <2>5, <2>6, <3>1, <3>2
  <2>9. JobsFile(r, y, bn)
    <3>1. \A i \in DOMAIN anchors : anchors[i].by # r
      BY <1>1, <1>2 DEF GoodReader, JobsFile
    <3>2. \E i \in DOMAIN bn : bn[i].by = r
      BY <2>4, <2>5, <2>6
    <3>3. ASSUME NEW i \in DOMAIN bn, bn[i].by = r
          PROVE  ~bn[i].complete /\ bn[i].there
      <4>1. i \notin DOMAIN anchors
        BY <2>3, <3>1, <3>3 DEF AnchorsMove
      <4>2. i = Len(anchors) + 1
        BY <2>5, <2>6, <4>1
      <4> QED
        BY <2>4, <2>5, <4>2
    <3>4. VerifiesInternally(y.read)
      BY <1>4, <2>2
    <3>5. y.at \notin 1 .. 9
      BY <2>2
    <3> QED
      BY <3>2, <3>3, <3>4, <3>5 DEF JobsFile
  <2>10. GoodReader(r, y, db, minted, Len(damage), bn)
    BY <1>1, <1>2, <2>3, <2>9, GoodOnward DEF y
  <2> QED
    BY <1>2, <2>1, <2>3, <2>7, <2>8, <2>10, CoreOfReader
<1> QED
  BY <1>3, <1>4 DEF OpenAnchor

LEMMA WriteGoes ==
  ASSUME Core, NEW r \in Readers, WriteAnchor(r)
  PROVE  /\ reader[r].at = 10 /\ r \in Jobs /\ r \notin Verifiers
         /\ reader' = [reader EXCEPT ![r] = Onward(reader[r], reader[r].found)]
         /\ anchors' = [i \in DOMAIN anchors |->
                          IF anchors[i].by = r THEN AnchorOf(reader[r].read, r) ELSE anchors[i]]
         /\ AnchorsMove(anchors, anchors', r)
         /\ UNCHANGED <<db, minted, damage>>
<1> DEFINE x == reader[r]
           a == AnchorOf(x.read, r)
<1>1. /\ GoodReader(r, x, db, minted, Len(damage), anchors)
      /\ reader = [q \in Readers |-> reader[q]]
      /\ IsTable(anchors)
  BY DEF Core, Ground
<1>2. IsReader(x) /\ x.at = 10 /\ r \in Jobs /\ r \notin Verifiers
  BY <1>1, TablesAre, IntegrityAssumption DEF GoodReader, WriteAnchor, Opened
<1>3. /\ UNCHANGED <<db, minted, damage>> /\ reader' = [reader EXCEPT ![r].at = @ + 1]
      /\ anchors' = [i \in DOMAIN anchors |-> IF anchors[i].by = r THEN a ELSE anchors[i]]
  BY DEF WriteAnchor
<1>4. reader' = [reader EXCEPT ![r] = Onward(x, x.found)]
  BY <1>1, <1>2, <1>3, GoesOnward
<1>5. AnchorsMove(anchors, anchors', r)
  <2>1. a.complete /\ a.by = r
    BY DEF AnchorOf
  <2>2. JobsFile(r, x, anchors)
    BY <1>1, <1>2 DEF GoodReader
  <2> HIDE DEF a, x
  <2> QED
    BY <1>1, <1>2, <1>3, <2>1, <2>2, WritingMoves
<1> QED
  BY <1>2, <1>3, <1>4, <1>5

LEMMA CoreWrite ==
  ASSUME Core, NEW r \in Readers, WriteAnchor(r)
  PROVE  Core'
<1> DEFINE x == reader[r]
           a == AnchorOf(x.read, r)
           y == Onward(x, x.found)
<1>1. /\ GoodReader(r, x, db, minted, Len(damage), anchors)
      /\ \A i \in DOMAIN anchors : AnchorTrue(anchors[i], minted)
  BY DEF Core, Ground
<1>2. /\ x.at = 10 /\ r \in Jobs /\ r \notin Verifiers /\ reader' = [reader EXCEPT ![r] = y]
      /\ anchors' = [i \in DOMAIN anchors |-> IF anchors[i].by = r THEN a ELSE anchors[i]]
      /\ AnchorsMove(anchors, anchors', r)
      /\ UNCHANGED <<db, minted, damage>>
  BY WriteGoes
<1>3. y.at = 11 /\ y.read = x.read
  BY <1>2 DEF Onward
<1>4. AnchorTrue(a, minted) /\ a.there /\ a.by = r
  <2>1. VerifiesInternally(x.read) /\ IsRead(View(x.at, x.read, db), minted) /\ Fields(x.read)
    BY <1>1, <1>2 DEF GoodReader, JobsFile
  <2>2. View(x.at, x.read, db) = x.read
    BY <1>2, <2>1, AllRead
  <2> QED
    BY <2>1, <2>2 DEF AnchorTrue, AnchorOf
<1> HIDE DEF x, y, a
<1>5. \A i \in DOMAIN anchors' : AnchorTrue(anchors'[i], minted)
  BY <1>1, <1>2, <1>4
<1>6. JobsFile(r, x, anchors)
  BY <1>1, <1>2 DEF GoodReader
<1>7. JobsFile(r, y, anchors')
  <2>1. VerifiesInternally(y.read) /\ \E i \in DOMAIN anchors : anchors[i].by = r
    BY <1>2, <1>3, <1>6 DEF JobsFile
  <2>2. \A i \in DOMAIN anchors' : anchors'[i].by = r => anchors'[i].there
    BY <1>2, <1>4
  <2>3. \E i \in DOMAIN anchors' : anchors'[i].by = r
    BY <1>2, <1>4, <2>1
  <2>4. y.at \notin 1 .. 9 /\ y.at # 10
    BY <1>3
  <2> QED
    BY <2>1, <2>2, <2>3, <2>4 DEF JobsFile
<1>8. GoodReader(r, y, db, minted, Len(damage), anchors')
  BY <1>1, <1>2, <1>7, GoodOnward DEF y
<1> QED
  BY <1>2, <1>5, <1>8, CoreOfReader

\* A job that has opened its file ends.
LEMMA JobEnds ==
  ASSUME Core, NEW r \in Readers, SyncAnchor(r) \/ FailAnchor(r) \/ StopJob(r)
  PROVE  /\ reader[r].at \in {10, 11} /\ r \in Jobs /\ r \notin Verifiers
         /\ Core' /\ UNCHANGED <<db, minted, damage>>
         /\ \E status \in {"signed", "failed", "stopped"} :
              reader' = [reader EXCEPT ![r] = Ended(reader[r], status)]
         /\ \/ UNCHANGED anchors
            \/ /\ AnchorsMove(anchors, anchors', r)
               /\ \A i \in Done(anchors') : i \in Done(anchors)
<1> DEFINE x == reader[r]
<1>1. x.at \in {10, 11} /\ r \in Jobs /\ r \notin Verifiers /\ UNCHANGED <<db, minted, damage>>
  BY TablesAre, IntegrityAssumption DEF SyncAnchor, FailAnchor, StopJob, Opened, Written
<1>2. /\ GoodReader(r, x, db, minted, Len(damage), anchors) /\ IsTable(anchors)
      /\ \A i \in DOMAIN anchors : AnchorTrue(anchors[i], minted)
  BY DEF Core, Ground
<1>3. "signed" \notin Fine /\ "failed" \notin Fine /\ "stopped" \notin Fine
  BY DEF Fine
<1>4. CASE SyncAnchor(r) \/ StopJob(r)
  <2>1. UNCHANGED anchors /\ \E status \in {"signed", "stopped"} : Finish(r, status)
    BY <1>4 DEF SyncAnchor, StopJob
  <2> HIDE DEF x
  <2> QED
    BY <1>1, <1>3, <2>1, CoreEnds DEF x
<1>5. CASE FailAnchor(r)
  <2>1. Finish(r, "failed")
    BY <1>5 DEF FailAnchor
  <2>2. anchors' = [i \in DOMAIN anchors |->
                      IF anchors[i].by = r THEN Removed(anchors[i]) ELSE anchors[i]]
    BY <1>5 DEF FailAnchor, Removed
  <2>3. JobsFile(r, x, anchors)
    BY <1>1, <1>2 DEF GoodReader
  <2>4. /\ AnchorsMove(anchors, anchors', r)
        /\ \A i \in DOMAIN anchors' : AnchorTrue(anchors'[i], minted)
    <3> HIDE DEF x
    <3> QED
      BY <1>1, <1>2, <2>2, <2>3, RemovingMoves
  <2>5. \A i \in Done(anchors') : i \in Done(anchors)
    BY <1>2, <2>2, RemovedIs DEF Done
  <2>6. Core' /\ reader' = [reader EXCEPT ![r] = Ended(reader[r], "failed")]
    BY <1>1, <1>3, <2>1, <2>4, CoreEnds
  <2> QED
    BY <1>1, <2>4, <2>5, <2>6
<1> QED
  BY <1>4, <1>5

\* Every step keeps what holds of any history.
LEMMA CoreStep ==
  ASSUME Core, [Next]_vars
  PROVE  Core'
<1>1. CASE Operate
  BY <1>1, CoreOperate
<1>2. CASE Alter \/ Lose \/ Rewrite \/ Restore
  BY <1>2, CoreDamage
<1>3. ASSUME NEW r \in Readers, Step(r) PROVE Core'
  BY <1>3, CoreReadTable, CoreFind, CoreCheck, CoreOpen, CoreWrite, JobEnds DEF Step
<1>4. CASE UNCHANGED vars
  BY <1>4 DEF vars, Core, Ground
<1> QED
  BY <1>1, <1>2, <1>3, <1>4 DEF Next

-----------------------------------------------------------------------------
(***************************************************************************)
(* The history to begin with.                                              *)
(***************************************************************************)

LEMMA ReadAtRest ==
  ASSUME NEW d, NEW n, InOrder(d, n)
  PROVE  /\ ReadOf(d) = Snapshot(d) /\ PagesFor(d, d.runs) = d.pages
         /\ FilesFor(d, d.runs) = d.files
<1>1. /\ \A page \in d.pages : \E run \in d.runs : run.id = page.run
      /\ \A file \in d.files : \E run \in d.runs : run.source = file.source
  BY DEF InOrder
<1>2. PagesFor(d, d.runs) = d.pages
  BY <1>1 DEF PagesFor
<1>3. FilesFor(d, d.runs) = d.files
  BY <1>1 DEF FilesFor, SourcesOf
<1>4. HashesFor(d, d.runs) = {<<f.source, f.hash>> : f \in d.files}
  BY <1>3 DEF HashesFor
<1>5. Snapshot(d) = [audit |-> d.audit, packets |-> d.packets, revisions |-> d.revisions,
                     decisions |-> d.decisions, runs |-> d.runs,
                     pages |-> PagesFor(d, d.runs), hashes |-> HashesFor(d, d.runs),
                     files |-> FilesFor(d, d.runs)]
  BY DEF Snapshot, View
<1>6. ReadOf(d) = [audit |-> d.audit, packets |-> d.packets, revisions |-> d.revisions,
                   decisions |-> d.decisions, runs |-> d.runs, pages |-> d.pages,
                   hashes |-> {<<f.source, f.hash>> : f \in d.files}, files |-> d.files]
  BY DEF ReadOf
<1> QED
  BY <1>2, <1>3, <1>4, <1>5, <1>6

LEMMA FirstAnchor ==
  ASSUME Init
  PROVE  /\ IsTable(anchors) /\ Len(anchors) = 1 /\ DOMAIN anchors = 1 .. 1
         /\ anchors[1] = AnchorOf(ReadOf(db), "earlier_job")
<1> DEFINE a == AnchorOf(ReadOf(Opening), "earlier_job")
<1>1. anchors = <<a>> /\ db = Opening
  BY DEF Init
<1> HIDE DEF a
<1>2. <<a>> \in Seq({a}) /\ Len(<<a>>) = 1 /\ <<a>>[1] = a /\ DOMAIN <<a>> = 1 .. 1
  OBVIOUS
<1>3. IsTable(<<a>>)
  BY <1>2, TableOf
<1> QED
  BY <1>1, <1>2, <1>3 DEF a

LEMMA InitCore ==
  ASSUME Init
  PROVE  Core
<1>a. /\ IsTable(anchors) /\ Len(anchors) = 1 /\ DOMAIN anchors = 1 .. 1
      /\ anchors[1] = AnchorOf(ReadOf(db), "earlier_job")
  BY FirstAnchor
<1>b. \A i \in DOMAIN anchors : anchors[i] = AnchorOf(ReadOf(db), "earlier_job")
  BY <1>a
<1>1. InOrder(db, minted) /\ minted \in Nat /\ damage = <<>> /\ reader = [r \in Readers |-> Idle]
  BY OpeningAssumption, IntegrityAssumption DEF Init
<1>2. IsHistory(db, minted) /\ VerifiesInternally(ReadOf(db)) /\ ReadOf(db) = Snapshot(db)
  BY <1>1, ReadAtRest DEF InOrder
<1>3. IsRead(Snapshot(db), minted)
  BY <1>2, SnapshotIsRead
<1>4. \A i \in DOMAIN anchors : AnchorTrue(anchors[i], minted)
  <2>1. AnchorTrue(AnchorOf(ReadOf(db), "earlier_job"), minted)
    BY <1>2, <1>3 DEF AnchorTrue, AnchorOf
  <2> QED
    BY <1>b, <2>1
<1>5. Ground
  BY <1>1, <1>2, <1>4, <1>a, EmptySeq DEF Ground
<1>6. ASSUME NEW r \in Readers
      PROVE  GoodReader(r, Idle, db, minted, Len(damage), anchors)
  <2> DEFINE x == Idle
  <2>1. /\ x.at = 1 /\ x.read = NothingRead /\ x.damage = 0 /\ x.files = <<>>
        /\ x.status = "none" /\ IsReader(x)
    BY DEF Idle, IsReader
  <2> HIDE DEF x
  <2>2. Fields(NothingRead)
    BY DEF NothingRead, Fields
  <2>3. View(x.at, x.read, db) = Snapshot(db)
    BY <2>1, ViewAtTheEnds
  <2>4. r \in Jobs => JobsFile(r, x, anchors)
    <3> SUFFICES ASSUME r \in Jobs PROVE JobsFile(r, x, anchors)
      OBVIOUS
    <3>1. \A i \in DOMAIN anchors : anchors[i].by = "earlier_job"
      BY <1>a, <1>b DEF AnchorOf
    <3>2. r # "earlier_job"
      BY IntegrityAssumption
    <3>3. \A i \in DOMAIN anchors : anchors[i].by # r
      BY <3>1, <3>2
    <3> QED
      BY <2>1, <3>3 DEF JobsFile
  <2>5. x.status \notin Fine
    BY <2>1 DEF Fine
  <2>6. x.damage \in 0 .. Len(damage)
    BY <1>1, <2>1
  <2>7. Knew(x, anchors)
    <3>1. DOMAIN x.files = {}
      BY <2>1
    <3> QED
      BY <3>1 DEF Knew
  <2>8. x.at # 0 => x.status = "none" /\ IsRead(View(x.at, x.read, db), minted)
    BY <1>3, <2>1, <2>3
  <2>9. GoodReader(r, x, db, minted, Len(damage), anchors)
    BY <2>1, <2>2, <2>4, <2>5, <2>6, <2>7, <2>8 DEF GoodReader
  <2> QED
    BY <2>9 DEF x
<1> QED
  BY <1>1, <1>5, <1>6 DEF Core

-----------------------------------------------------------------------------
(***************************************************************************)
(* Alterations.                                                            *)
(***************************************************************************)

LEMMA VerifiedIsAuthentic ==
  ASSUME NEW d, NEW n, InOrder(d, n)
  PROVE  Authentic(d)
<1>1. /\ VerifyChain(d.audit) /\ VerifyChain(d.decisions) /\ VerifyExtractions(ReadOf(d))
      /\ ReadOf(d).runs = d.runs
  BY DEF InOrder, VerifiesInternally, ReadOf
<1>2. /\ \A name \in {"audit", "decisions"} : \A i \in DOMAIN d[name] : d[name][i].text = "written"
      /\ \A name \in {"revisions", "runs", "pages"} : \A row \in d[name] : row.text = "written"
  BY DEF InOrder, AsWritten
<1>3. ASSUME NEW c, VerifyChain(c), NEW i \in DOMAIN c, c[i].text = "written"
      PROVE  c[i].hash[2] = <<c[i].id, "written">>
  BY <1>3 DEF VerifyChain, ChainHash, EventContent
<1>4. ASSUME NEW name \in {"audit", "decisions"}, NEW i \in DOMAIN d[name]
      PROVE  d[name][i].hash[2] = <<d[name][i].id, "written">>
  <2>1. VerifyChain(d[name]) /\ d[name][i].text = "written"
    BY <1>1, <1>2
  <2> QED
    BY <1>3, <2>1
<1>5. ASSUME NEW run \in d.runs
      PROVE  run.manifest[4] = "written"
  <2>1. run.text = "written"
    BY <1>2
  <2>2. run.manifest[4] = run.text
    BY <1>1 DEF VerifyExtractions, Manifest
  <2> QED
    BY <2>1, <2>2
<1>6. /\ \A page \in d.pages : \E run \in d.runs : page.run = run.id
      /\ \A file \in d.files : file.source \in SourcesOf(d.runs)
  BY DEF InOrder, SourcesOf
<1> QED
  BY <1>4, <1>5, <1>6 DEF Authentic

LEMMA InitAltered ==
  ASSUME Init
  PROVE  Altered
<1>1. InOrder(db, minted) /\ damage = <<>> /\ reader = [r \in Readers |-> Idle]
  BY OpeningAssumption DEF Init
<1>2. Authentic(db)
  BY <1>1, VerifiedIsAuthentic
<1>3. Idle.damage = 0
  BY DEF Idle
<1> QED
  BY <1>1, <1>2, <1>3 DEF Altered, Found

\* The history is appended to, or altered again.
LEMMA FoundStays ==
  ASSUME Core, Altered, \A i \in DOMAIN damage : damage[i] \in {"alter", "lose"},
         KeepsFaults(db, db'), KeepsFiles(db, db', minted)
  PROVE  /\ Faulty(Snapshot(db)) => Faulty(Snapshot(db'))
         /\ \A r \in Readers : Found(reader[r], db')
<1>1. IsHistory(db, minted)
  BY DEF Core, Ground
<1>2. Faulty(Snapshot(db)) => Faulty(Snapshot(db'))
  <2>1. IsRead(View(1, NothingRead, db), minted)
    BY <1>1, SnapshotIsRead DEF Snapshot
  <2>2. 1 \in 1 .. 11
    OBVIOUS
  <2> QED
    BY <2>1, <2>2, FaultsStay DEF Snapshot
<1>3. ASSUME NEW r \in Readers
      PROVE  Found(reader[r], db')
  <2> DEFINE x == reader[r]
  <2>1. Found(x, db) /\ GoodReader(r, x, db, minted, Len(damage), anchors)
    BY DEF Altered, Core
  <2> HIDE DEF x
  <2>2. ASSUME x.damage > 0, x.at # 0 PROVE Faulty(View(x.at, x.read, db'))
    <3>1. x.at \in 1 .. 11 /\ IsRead(View(x.at, x.read, db), minted)
      BY <2>1, <2>2 DEF GoodReader
    <3>2. Faulty(View(x.at, x.read, db))
      BY <2>1, <2>2 DEF Found
    <3> QED
      BY <3>1, <3>2, FaultsStay
  <2>3. Found(x, db')
    BY <2>1, <2>2 DEF Found
  <2> QED
    BY <2>3 DEF x
<1> QED
  BY <1>2, <1>3

LEMMA AlteredOperate ==
  ASSUME Core, Altered, Operate
  PROVE  Altered'
<1> SUFFICES ASSUME \A i \in DOMAIN damage : damage[i] \in {"alter", "lose"}
             PROVE  /\ Authentic(db')
                    /\ damage # <<>> => Faulty(Snapshot(db'))
                    /\ \A r \in Readers : Found(reader[r], db')
  BY DEF Operate, Altered
<1>1. IsHistory(db, minted) /\ minted \in Nat /\ Grown(db, db', minted + 1)
  BY CoreOperate DEF Core, Ground
<1>2. KeepsFaults(db, db') /\ KeepsFiles(db, db', minted)
  BY <1>1, GrownKeepsFaults
<1>3. Authentic(db) /\ (damage # <<>> => Faulty(Snapshot(db)))
  BY DEF Altered
<1>4. Authentic(db')
  BY <1>1, <1>3, GrownAuthentic
<1> QED
  BY <1>2, <1>3, <1>4, FoundStays

LEMMA AlteredDamage ==
  ASSUME Core, Altered, Alter \/ Lose \/ Rewrite \/ Restore
  PROVE  Altered'
<1>1. PICK kind \in {"alter", "lose", "rewrite", "restore"} :
        /\ damage' = Append(damage, kind)
        /\ kind \in {"alter", "lose"} => Alter \/ Lose
  BY CoreDamage
<1>2. UNCHANGED <<minted, anchors, reader>>
  BY CoreDamage
<1>3. damage \in Seq({"alter", "lose", "rewrite", "restore"}) /\ IsHistory(db, minted)
  BY DEF Core, Ground
<1>4. /\ Len(damage) \in Nat /\ DOMAIN damage = 1 .. Len(damage)
      /\ DOMAIN damage' = 1 .. Len(damage) + 1
      /\ \A i \in DOMAIN damage : damage'[i] = damage[i]
      /\ damage'[Len(damage) + 1] = kind
  <2>1. IsTable(damage)
    BY <1>3, TableOf
  <2> QED
    BY <1>1, <2>1, TableLength, TableGrows
<1> SUFFICES ASSUME \A i \in DOMAIN damage' : damage'[i] \in {"alter", "lose"}
             PROVE  /\ Authentic(db') /\ Faulty(Snapshot(db'))
                    /\ \A r \in Readers : Found(reader[r], db')
  BY <1>2 DEF Altered
<1>5. \A i \in DOMAIN damage : damage[i] \in {"alter", "lose"}
  BY <1>4
<1>6. kind \in {"alter", "lose"}
  BY <1>4
<1>7. Authentic(db)
  BY <1>5 DEF Altered
<1>8. Touched(db, db')
  BY <1>1, <1>3, <1>6, AlterTouches DEF IsHistory, IsRecord
<1>9. /\ KeepsFaults(db, db') /\ KeepsFiles(db, db', minted)
      /\ Authentic(db') /\ Faulty(Snapshot(db'))
  BY <1>3, <1>7, <1>8, TouchedKeepsFaults
<1> QED
  BY <1>5, <1>9, FoundStays

\* One reader takes a step.
LEMMA AlteredOfReader ==
  ASSUME Core, Altered, NEW r \in Readers, NEW y, reader' = [reader EXCEPT ![r] = y],
         UNCHANGED <<db, damage>>,
         (\A i \in DOMAIN damage : damage[i] \in {"alter", "lose"}) => Found(y, db)
  PROVE  Altered'
<1> SUFFICES ASSUME \A i \in DOMAIN damage : damage[i] \in {"alter", "lose"}
             PROVE  \A q \in Readers : Found(reader'[q], db)
  BY DEF Altered
<1>1. \A q \in Readers : reader'[q] = IF q = r THEN y ELSE reader[q]
  BY DEF Core, Ground
<1>2. \A q \in Readers : Found(reader[q], db)
  BY DEF Altered
<1> QED
  BY <1>1, <1>2

LEMMA FoundAtTheEnd ==
  ASSUME NEW x, NEW d, NEW status, x.damage > 0 => status \notin Fine \cup {"signed"}
  PROVE  Found(Ended(x, status), d)
BY DEF Found, Ended

LEMMA AlteredReadTable ==
  ASSUME Core, Altered, NEW r \in Readers, ReadTable(r)
  PROVE  Altered'
<1> DEFINE x == reader[r]
           name == Tables[x.at]
           rows == Select(name, x.read)
           y == Further(x, rows)
<1>1. /\ GoodReader(r, x, db, minted, Len(damage), anchors)
      /\ reader = [q \in Readers |-> reader[q]]
      /\ damage \in Seq({"alter", "lose", "rewrite", "restore"})
  BY DEF Core, Ground
<1>2. IsReader(x) /\ Fields(x.read)
  BY <1>1 DEF GoodReader
<1>3. UNCHANGED <<db, minted, damage, anchors>>
  BY DEF ReadTable
<1>4. x.at \in 1 .. 8 /\ \/ reader' = [reader EXCEPT ![r] = y]
                         \/ reader' = [reader EXCEPT ![r] = Ended(x, "refused")]
  BY <1>1, <1>2, ReadTableReads
<1>5. CASE reader' = [reader EXCEPT ![r] = Ended(x, "refused")]
  <2>1. "refused" \notin Fine \cup {"signed"}
    BY DEF Fine
  <2>2. Found(Ended(x, "refused"), db)
    BY <2>1, FoundAtTheEnd
  <2> HIDE DEF x
  <2> QED
    BY <1>3, <1>5, <2>2, AlteredOfReader
<1>6. CASE reader' = [reader EXCEPT ![r] = y]
  <2> DEFINE next == [x.read EXCEPT ![name] = rows]
  <2>1. View(x.at + 1, next, db) = View(x.at, x.read, db)
    BY <1>2, <1>4, ViewStays
  <2>2. /\ y.at = x.at + 1 /\ y.read = next /\ y.status = x.status
        /\ y.damage = IF x.at = 1 THEN Len(damage) ELSE x.damage
    BY DEF Further
  <2>3. x.status = "none"
    BY <1>1, <1>4 DEF GoodReader
  <2>4. View(1, x.read, db) = Snapshot(db)
    BY ViewAtTheEnds
  <2> HIDE DEF x, y, next, rows, name
  <2>5. ASSUME \A i \in DOMAIN damage : damage[i] \in {"alter", "lose"}, y.damage > 0
        PROVE  Faulty(View(x.at, x.read, db))
    <3>1. Found(x, db) /\ (damage # <<>> => Faulty(Snapshot(db)))
      BY <2>5 DEF Altered, x
    <3>2. CASE x.at = 1
      <4>1. damage # <<>>
        BY <2>2, <2>5, <3>2
      <4> QED
        BY <2>4, <3>1, <3>2, <4>1
    <3>3. CASE x.at # 1
      BY <1>4, <2>2, <2>5, <3>1, <3>3 DEF Found
    <3> QED
      BY <3>2, <3>3
  <2>6. (\A i \in DOMAIN damage : damage[i] \in {"alter", "lose"}) => Found(y, db)
    BY <2>1, <2>2, <2>3, <2>5 DEF Found, Fine
  <2> QED
    BY <1>3, <1>6, <2>6, AlteredOfReader
<1> QED
  BY <1>4, <1>5, <1>6

\* A history that has been altered does not verify.
LEMMA AlteredFails ==
  ASSUME NEW x, NEW d, Found(x, d), Fields(x.read), x.at \in {9, 10, 11},
         VerifiesInternally(x.read)
  PROVE  ~(x.damage > 0)
<1>1. View(x.at, x.read, d) = x.read /\ x.at # 0
  BY AllRead
<1> QED
  BY <1>1, FaultyFails DEF Found

LEMMA OutcomeIsNotSigned ==
  ASSUME NEW x
  PROVE  Outcome(x) # "signed"
<1>1. \A c, a : CompareWith(c, a) # "signed"
  BY DEF CompareWith
<1>2. AnchorStatus(x.found, x.read) # "signed"
  <2>1. CompareWith(Checkpoint(x.read), anchors[x.found].checkpoint) # "signed"
    BY <1>1
  <2> QED
    BY <2>1 DEF AnchorStatus
<1> QED
  BY <1>2 DEF Outcome

LEMMA AlteredFind ==
  ASSUME Core, Altered, NEW r \in Readers, FindLatestAnchor(r)
  PROVE  Altered'
<1> DEFINE x == reader[r]
<1>1. x.at = 9 /\ UNCHANGED <<db, minted, damage, anchors>>
  BY FindGoes
<1>2. PICK m : reader' = [reader EXCEPT ![r] = Onward(x, m)]
  BY FindGoes
<1>3. Fields(x.read) /\ x.status = "none"
  BY <1>1 DEF Core, GoodReader
<1>4. ASSUME \A i \in DOMAIN damage : damage[i] \in {"alter", "lose"}
      PROVE  Found(Onward(x, m), db)
  <2>1. Found(x, db)
    BY <1>4 DEF Altered
  <2> HIDE DEF x
  <2>2. /\ Onward(x, m).at \in {9, 10, 11} /\ Onward(x, m).read = x.read
        /\ Onward(x, m).damage = x.damage /\ Onward(x, m).status = x.status
    BY <1>1 DEF Onward
  <2>3. View(x.at, x.read, db) = View(Onward(x, m).at, Onward(x, m).read, db)
    BY <1>1, <1>3, <2>2, AllRead
  <2> QED
    BY <1>1, <2>1, <2>2, <2>3 DEF Found
<1> HIDE DEF x
<1> QED
  BY <1>1, <1>2, <1>4, AlteredOfReader

LEMMA AlteredCheck ==
  ASSUME Core, Altered, NEW r \in Readers, CheckLatestAnchor(r)
  PROVE  Altered'
<1> DEFINE x == reader[r]
           s == Outcome(x)
<1>1. GoodReader(r, x, db, minted, Len(damage), anchors)
  BY DEF Core
<1>2. /\ x.at = 10 /\ reader' = [reader EXCEPT ![r] = Ended(x, s)]
      /\ UNCHANGED <<db, minted, damage, anchors>>
  BY CheckEnds
<1>3. ASSUME \A i \in DOMAIN damage : damage[i] \in {"alter", "lose"}
      PROVE  Found(Ended(x, s), db)
  <2>1. Found(x, db) /\ Fields(x.read)
    BY <1>1, <1>3 DEF Altered, GoodReader
  <2>2. s # "signed"
    BY OutcomeIsNotSigned
  <2>3. ASSUME x.damage > 0
        PROVE  s \notin Fine
    <3>1. ~VerifiesInternally(x.read)
      BY <1>2, <2>1, <2>3, AlteredFails
    <3> QED
      BY <3>1 DEF Outcome, Fine
  <2> HIDE DEF x, s
  <2> QED
    BY <2>2, <2>3, FoundAtTheEnd
<1> HIDE DEF x, s
<1> QED
  BY <1>2, <1>3, AlteredOfReader

LEMMA AlteredOpen ==
  ASSUME Core, Altered, NEW r \in Readers, OpenAnchor(r)
  PROVE  Altered'
<1> DEFINE x == reader[r]
<1>1. GoodReader(r, x, db, minted, Len(damage), anchors) /\ reader = [q \in Readers |-> reader[q]]
  BY DEF Core, Ground
<1>2. IsReader(x) /\ x.at = 9 /\ x.status = "none" /\ UNCHANGED <<db, minted, damage>>
  BY <1>1, TablesAre DEF GoodReader, OpenAnchor, HasRead
<1>3. CASE Finish(r, "refused") /\ UNCHANGED anchors
  <2>1. "refused" \notin Fine \cup {"signed"}
    BY DEF Fine
  <2>2. Found(Ended(x, "refused"), db)
    BY <2>1, FoundAtTheEnd
  <2>3. reader' = [reader EXCEPT ![r] = Ended(x, "refused")]
    BY <1>1, <1>2, <1>3, FinishEnds
  <2> HIDE DEF x
  <2> QED
    BY <1>2, <2>2, <2>3, AlteredOfReader
<1>4. ASSUME VerifiesInternally(x.read), reader' = [reader EXCEPT ![r].at = @ + 1]
      PROVE  Altered'
  <2> DEFINE y == Onward(x, x.found)
  <2>1. reader' = [reader EXCEPT ![r] = y]
    BY <1>1, <1>2, <1>4, GoesOnward
  <2>2. y.damage = x.damage
    BY DEF Onward
  <2> HIDE DEF y
  <2>3. ASSUME \A i \in DOMAIN damage : damage[i] \in {"alter", "lose"}
        PROVE  Found(y, db)
    <3>1. Found(x, db) /\ Fields(x.read)
      BY <1>1, <2>3 DEF Altered, GoodReader
    <3>2. ~(x.damage > 0)
      BY <1>2, <1>4, <3>1, AlteredFails
    <3> QED
      BY <2>2, <3>2 DEF Found
  <2> HIDE DEF x
  <2> QED
    BY <1>2, <2>1, <2>3, AlteredOfReader
<1> QED
  BY <1>3, <1>4 DEF OpenAnchor

\* A job that has opened its file does so with what it has verified.
LEMMA JobFindsNothing ==
  ASSUME Core, Altered, NEW r \in Jobs, reader[r].at \in {10, 11},
         \A i \in DOMAIN damage : damage[i] \in {"alter", "lose"}
  PROVE  ~(reader[r].damage > 0)
<1> DEFINE x == reader[r]
<1>1. GoodReader(r, x, db, minted, Len(damage), anchors) /\ Found(x, db)
  BY DEF Core, Altered, Readers
<1>2. Fields(x.read) /\ VerifiesInternally(x.read)
  BY <1>1 DEF GoodReader, JobsFile
<1> HIDE DEF x
<1>3. x.at \in {9, 10, 11}
  BY DEF x
<1> QED
  BY <1>1, <1>2, <1>3, AlteredFails DEF x

LEMMA AlteredWrite ==
  ASSUME Core, Altered, NEW r \in Readers, WriteAnchor(r)
  PROVE  Altered'
<1> DEFINE x == reader[r]
           y == Onward(x, x.found)
<1>1. /\ x.at = 10 /\ r \in Jobs /\ reader' = [reader EXCEPT ![r] = y]
      /\ UNCHANGED <<db, minted, damage>>
  BY WriteGoes
<1>2. y.damage = x.damage
  BY DEF Onward
<1> HIDE DEF y
<1>3. ASSUME \A i \in DOMAIN damage : damage[i] \in {"alter", "lose"}
      PROVE  Found(y, db)
  BY <1>1, <1>2, <1>3, JobFindsNothing DEF Found
<1> HIDE DEF x
<1> QED
  BY <1>1, <1>3, AlteredOfReader

LEMMA AlteredJobEnds ==
  ASSUME Core, Altered, NEW r \in Readers, SyncAnchor(r) \/ FailAnchor(r) \/ StopJob(r)
  PROVE  Altered'
<1> DEFINE x == reader[r]
<1>1. x.at \in {10, 11} /\ r \in Jobs /\ UNCHANGED <<db, minted, damage>>
  BY JobEnds
<1>2. PICK status \in {"signed", "failed", "stopped"} :
        reader' = [reader EXCEPT ![r] = Ended(x, status)]
  BY JobEnds
<1>3. (\A i \in DOMAIN damage : damage[i] \in {"alter", "lose"}) => Found(Ended(x, status), db)
  BY <1>1, JobFindsNothing, FoundAtTheEnd
<1> HIDE DEF x
<1> QED
  BY <1>1, <1>2, <1>3, AlteredOfReader

\* Every step keeps what holds of a history that was only altered.
LEMMA AlteredStep ==
  ASSUME Core, Altered, [Next]_vars
  PROVE  Altered'
<1>1. CASE Operate
  BY <1>1, AlteredOperate
<1>2. CASE Alter \/ Lose \/ Rewrite \/ Restore
  BY <1>2, AlteredDamage
<1>3. ASSUME NEW r \in Readers, Step(r) PROVE Altered'
  BY <1>3, AlteredReadTable, AlteredFind, AlteredCheck, AlteredOpen, AlteredWrite,
     AlteredJobEnds
  DEF Step
<1>4. CASE UNCHANGED vars
  BY <1>4 DEF vars, Altered
<1> QED
  BY <1>1, <1>2, <1>3, <1>4 DEF Next

-----------------------------------------------------------------------------
(***************************************************************************)
(* Operations keep the history in order.                                   *)
(***************************************************************************)

LEMMA PreviousStays ==
  ASSUME NEW c, IsTable(c), NEW x
  PROVE  LET f == Append(c, x)
         IN  /\ \A i \in 1 .. Len(c) : PreviousHash(f, i) = PreviousHash(c, i)
             /\ PreviousHash(f, Len(c) + 1) = Latest(c)
<1> DEFINE f == Append(c, x)
<1>1. \A i \in 1 .. Len(c) : f[i] = c[i]
  BY TableGrows
<1>2. Len(c) \in Nat /\ DOMAIN c = 1 .. Len(c)
  BY TableLength
<1>3. Len(c) = 0 <=> c = <<>>
  BY EmptySeq DEF IsTable
<1> HIDE DEF f
<1>4. \A i \in 1 .. Len(c) : PreviousHash(f, i) = PreviousHash(c, i)
  <2> SUFFICES ASSUME NEW i \in 1 .. Len(c), i # 1
               PROVE  f[i - 1] = c[i - 1]
    BY DEF PreviousHash
  <2>1. i - 1 \in 1 .. Len(c)
    BY <1>2
  <2> QED
    BY <1>1, <2>1
<1>5. PreviousHash(f, Len(c) + 1) = Latest(c)
  <2>1. CASE Len(c) = 0
    BY <1>3, <2>1 DEF PreviousHash, Latest
  <2>2. CASE Len(c) # 0
    <3>1. Len(c) \in 1 .. Len(c) /\ Len(c) + 1 # 1 /\ (Len(c) + 1) - 1 = Len(c) /\ c # <<>>
      BY <1>2, <1>3, <2>2
    <3> QED
      BY <1>1, <3>1 DEF PreviousHash, Latest
  <2> QED
    BY <2>1, <2>2
<1> QED
  BY <1>4, <1>5 DEF f

LEMMA ChainGrows ==
  ASSUME NEW c, EventTable(c), VerifyChain(c), NEW id,
         \A i \in DOMAIN c : c[i].text = "written"
  PROVE  LET f == Append(c, Event(c, id))
         IN  VerifyChain(f) /\ \A i \in DOMAIN f : f[i].text = "written"
<1> DEFINE x == Event(c, id)
           f == Append(c, x)
<1>1. IsTable(c)
  BY DEF EventTable
<1>2. /\ x.prev = Latest(c) /\ x.hash = ChainHash(Latest(c), EventContent(x))
      /\ x.text = "written"
  BY DEF Event, EventContent
<1> HIDE DEF x
<1>3. /\ DOMAIN f = 1 .. Len(c) + 1 /\ f[Len(c) + 1] = x
      /\ \A i \in 1 .. Len(c) : f[i] = c[i]
  BY <1>1, TableGrows
<1>4. Len(c) \in Nat /\ DOMAIN c = 1 .. Len(c)
  BY <1>1, TableLength
<1>5. /\ \A i \in 1 .. Len(c) : PreviousHash(f, i) = PreviousHash(c, i)
      /\ PreviousHash(f, Len(c) + 1) = Latest(c)
  BY <1>1, PreviousStays
<1> HIDE DEF f
<1>6. ASSUME NEW i \in DOMAIN f
      PROVE  /\ f[i].prev = PreviousHash(f, i)
             /\ f[i].hash = ChainHash(PreviousHash(f, i), EventContent(f[i]))
             /\ f[i].text = "written"
  <2>1. CASE i \in 1 .. Len(c)
    BY <1>3, <1>4, <1>5, <2>1 DEF VerifyChain
  <2>2. CASE i = Len(c) + 1
    BY <1>2, <1>3, <1>5, <2>2
  <2> QED
    BY <1>3, <1>4, <2>1, <2>2
<1>7. VerifyChain(f) /\ \A i \in DOMAIN f : f[i].text = "written"
  BY <1>6 DEF VerifyChain
<1> QED
  BY <1>7 DEF f, x

LEMMA PacketChainGrows ==
  ASSUME NEW c, PacketTable(c), VerifyPackets(c), NEW id,
         \A i \in DOMAIN c : c[i].document = "written" /\ c[i].pdf = "written"
  PROVE  LET f == Append(c, PacketRow(c, id))
         IN  /\ VerifyPackets(f)
             /\ \A i \in DOMAIN f : f[i].document = "written" /\ f[i].pdf = "written"
<1> DEFINE x == PacketRow(c, id)
           f == Append(c, x)
<1>1. IsTable(c)
  BY DEF PacketTable
<1>2. /\ x.prev = Latest(c) /\ x.hash = ChainHash(Latest(c), PacketContent(x))
      /\ x.recorded = x.document /\ x.pdf = x.pdfHash
      /\ x.document = "written" /\ x.pdf = "written"
  BY DEF PacketRow, PacketContent
<1> HIDE DEF x
<1>3. /\ DOMAIN f = 1 .. Len(c) + 1 /\ f[Len(c) + 1] = x
      /\ \A i \in 1 .. Len(c) : f[i] = c[i]
  BY <1>1, TableGrows
<1>4. Len(c) \in Nat /\ DOMAIN c = 1 .. Len(c)
  BY <1>1, TableLength
<1>5. /\ \A i \in 1 .. Len(c) : PreviousHash(f, i) = PreviousHash(c, i)
      /\ PreviousHash(f, Len(c) + 1) = Latest(c)
  BY <1>1, PreviousStays
<1> HIDE DEF f
<1>6. ASSUME NEW i \in DOMAIN f
      PROVE  /\ f[i].prev = PreviousHash(f, i)
             /\ f[i].hash = ChainHash(PreviousHash(f, i), PacketContent(f[i]))
             /\ f[i].recorded = f[i].document /\ f[i].pdf = f[i].pdfHash
             /\ f[i].document = "written" /\ f[i].pdf = "written"
  <2>1. CASE i \in 1 .. Len(c)
    BY <1>3, <1>4, <1>5, <2>1 DEF VerifyPackets
  <2>2. CASE i = Len(c) + 1
    BY <1>2, <1>3, <1>5, <2>2
  <2> QED
    BY <1>3, <1>4, <2>1, <2>2
<1>7. VerifyPackets(f) /\ \A i \in DOMAIN f : f[i].document = "written" /\ f[i].pdf = "written"
  BY <1>6 DEF VerifyPackets
<1> QED
  BY <1>7 DEF f, x

\* The hash of the parent a row names.
ParentHash(rows, row) ==
  LET parents == {up \in rows : up.id = row.parent}
  IN  IF parents = {} THEN NoHash ELSE (CHOOSE up \in parents : TRUE).hash

HashedAfter(rows, row) ==
  /\ row.textHash = row.text
  /\ row.parent # 0 => \E up \in rows : up.id = row.parent
  /\ row.prev = ParentHash(rows, row)
  /\ row.hash = ChainHash(ParentHash(rows, row), RevisionContent(row))

LEMMA LineageIs ==
  ASSUME NEW rows
  PROVE  VerifyLineage(rows) <=>
           /\ \E row \in rows : row.parent = 0
           /\ \A a, b \in rows : a.parent = b.parent => a = b
           /\ \A row \in rows : HashedAfter(rows, row)
BY DEF VerifyLineage, HashedAfter, ParentHash

\* Parents are earlier revisions.
LEMMA ParentsAreOld ==
  ASSUME NEW V, VerifyRevisions(V), NEW n \in Nat, \A row \in V : row.id \in 1 .. n,
         NEW row \in V
  PROVE  row.parent \in 0 .. n
<1> DEFINE L == OfSection(V, row.section)
<1>1. VerifyLineage(L) /\ row \in L
  BY DEF VerifyRevisions, OfSection
<1>2. row.parent # 0 => \E up \in L : up.id = row.parent
  BY <1>1 DEF VerifyLineage
<1> QED
  BY <1>2 DEF OfSection

\* A revision made of the tip of its section extends the lineage.
LEMMA LineageGrows ==
  ASSUME NEW L, NEW n \in Nat, \A up \in L : up.id \in 1 .. n /\ up.parent \in 0 .. n,
         \A a, b \in L : a.id = b.id => a = b, VerifyLineage(L),
         NEW tip \in L, \A up \in L : up.parent # tip.id,
         NEW row, row.id = n + 1, row.parent = tip.id, row.textHash = row.text,
         row.prev = tip.hash, row.hash = ChainHash(tip.hash, RevisionContent(row))
  PROVE  VerifyLineage(L \cup {row})
<1> DEFINE M == L \cup {row}
<1>1. /\ \E up \in L : up.parent = 0
      /\ \A a, b \in L : a.parent = b.parent => a = b
      /\ \A up \in L : HashedAfter(L, up)
  BY LineageIs
<1>2. \A a, b \in M : a.parent = b.parent => a = b
  BY <1>1
<1>3. ASSUME NEW up \in L PROVE HashedAfter(M, up)
  <2>1. {a \in M : a.id = up.parent} = {a \in L : a.id = up.parent}
    <3>1. row.id # up.parent
      BY <1>3
    <3> QED
      BY <3>1
  <2>2. ParentHash(M, up) = ParentHash(L, up)
    BY <2>1 DEF ParentHash
  <2>3. HashedAfter(L, up)
    BY <1>1
  <2> HIDE DEF M
  <2>4. L \subseteq M
    BY DEF M
  <2> QED
    BY <2>2, <2>3, <2>4 DEF HashedAfter
<1>4. HashedAfter(M, row)
  <2>1. {a \in M : a.id = row.parent} = {tip}
    <3>1. row.id # tip.id
      OBVIOUS
    <3> QED
      BY <3>1
  <2>2. ParentHash(M, row) = tip.hash
    <3>1. (CHOOSE up \in {tip} : TRUE) = tip
      OBVIOUS
    <3> QED
      BY <2>1, <3>1 DEF ParentHash
  <2>3. tip \in M /\ tip.id = row.parent
    OBVIOUS
  <2> HIDE DEF M
  <2> QED
    BY <2>2, <2>3 DEF HashedAfter
<1>5. \E up \in M : up.parent = 0
  BY <1>1
<1>6. \A up \in M : HashedAfter(M, up)
  BY <1>3, <1>4
<1> HIDE DEF M
<1>7. VerifyLineage(M)
  BY <1>2, <1>5, <1>6, LineageIs
<1> QED
  BY <1>7 DEF M

LEMMA LineageBegins ==
  ASSUME NEW row, row.id # 0, row.parent = 0, row.textHash = row.text,
         row.prev = NoHash, row.hash = ChainHash(NoHash, RevisionContent(row))
  PROVE  VerifyLineage({row})
<1> DEFINE M == {row}
<1>1. {up \in M : up.id = row.parent} = {}
  OBVIOUS
<1>2. ParentHash(M, row) = NoHash
  BY <1>1 DEF ParentHash
<1>3. HashedAfter(M, row)
  <2> HIDE DEF M
  <2> QED
    BY <1>2 DEF HashedAfter
<1>4. /\ \E up \in M : up.parent = 0
      /\ \A a, b \in M : a.parent = b.parent => a = b
      /\ \A up \in M : HashedAfter(M, up)
  BY <1>3
<1> HIDE DEF M
<1>5. VerifyLineage(M)
  BY <1>4, LineageIs
<1> QED
  BY <1>5 DEF M

LEMMA RevisionsGrow ==
  ASSUME NEW d, NEW e, NEW n \in Nat, InOrder(d, n), NEW s \in Sections,
         e.revisions = d.revisions \cup {RevisionRow(d, s, n + 1)},
         e.active = [d.active EXCEPT ![s] = n + 1]
  PROVE  VerifyRevisions(e.revisions) /\ \A t \in Sections : HasTip(e, t)
<1> DEFINE V == d.revisions
           row == RevisionRow(d, s, n + 1)
           W == e.revisions
           active == d.active[s]
<1>1. /\ row.id = n + 1 /\ row.section = s /\ row.parent = active
      /\ row.text = "written" /\ row.textHash = row.text
      /\ row.prev = HashOfActive(d, s)
      /\ row.hash = ChainHash(HashOfActive(d, s), RevisionContent(row))
  BY DEF RevisionRow, RevisionContent
<1>2. W = V \cup {row}
  OBVIOUS
<1>3. /\ VerifyRevisions(V)
      /\ \A a, b \in V : a.id = b.id => a = b
      /\ \A up \in V : up.id \in 1 .. n /\ up.section \in Sections
      /\ \A t \in Sections : HasTip(d, t)
      /\ d.active = [t \in Sections |-> d.active[t]]
  BY DEF InOrder, VerifiesInternally, ReadOf, IsHistory
<1>4. \A up \in V : up.parent \in 0 .. n
  BY <1>3, ParentsAreOld
<1>5. \A t \in Sections : e.active[t] = IF t = s THEN n + 1 ELSE d.active[t]
  BY <1>3
<1> HIDE DEF row, W
\* What the new revision follows.
<1> DEFINE L == OfSection(V, s)
<1>6. \/ /\ L = {} /\ active = 0 /\ HashOfActive(d, s) = NoHash
      \/ \E tip \in L : /\ active = tip.id /\ HashOfActive(d, s) = tip.hash
                        /\ \A up \in V : up.parent # tip.id
  <2>1. CASE active = 0 /\ L = {}
    <3>1. RevisionOf(d, s) = {}
      BY <1>3, <2>1 DEF RevisionOf
    <3> QED
      BY <2>1, <3>1 DEF HashOfActive
  <2>2. ASSUME NEW tip \in L, tip.id = active, \A up \in V : up.parent # tip.id
        PROVE  HashOfActive(d, s) = tip.hash
    <3>1. RevisionOf(d, s) = {tip}
      BY <1>3, <2>2 DEF RevisionOf, OfSection
    <3>2. (CHOOSE up \in {tip} : TRUE) = tip
      OBVIOUS
    <3> QED
      BY <3>1, <3>2 DEF HashOfActive
  <2>3. HasTip(d, s)
    BY <1>3
  <2> QED
    BY <2>1, <2>2, <2>3 DEF HasTip
<1>7. active \in 0 .. n
  BY <1>3, <1>6 DEF OfSection
<1>8. OfSection(W, s) = L \cup {row} /\ \A t : t # s => OfSection(W, t) = OfSection(V, t)
  BY <1>1, <1>2 DEF OfSection
<1> HIDE DEF V, L, active
<1>9. VerifyRevisions(W)
  <2> SUFFICES ASSUME NEW t \in {up.section : up \in W}
               PROVE  VerifyLineage(OfSection(W, t))
    BY DEF VerifyRevisions
  <2>1. CASE t # s
    <3>1. t \in {up.section : up \in V}
      BY <1>1, <1>2, <2>1
    <3> QED
      BY <1>3, <1>8, <2>1, <3>1 DEF VerifyRevisions
  <2>2. CASE t = s /\ L = {} /\ active = 0 /\ HashOfActive(d, s) = NoHash
    <3>1. VerifyLineage({row})
      <4>1. row.id # 0 /\ row.parent = 0
        BY <1>1, <2>2
      <4> QED
        BY <1>1, <2>2, <4>1, LineageBegins
    <3>2. OfSection(W, s) = {row}
      BY <1>8, <2>2
    <3> QED
      BY <2>2, <3>1, <3>2
  <2>3. ASSUME t = s, NEW tip \in L, active = tip.id, HashOfActive(d, s) = tip.hash,
               \A up \in V : up.parent # tip.id
        PROVE  VerifyLineage(OfSection(W, t))
    <3>1. L \subseteq V /\ \A up \in L : up.section = s
      BY DEF L, OfSection
    <3>2. VerifyLineage(L)
      BY <1>3, <2>3, <3>1 DEF VerifyRevisions, L
    <3>3. \A up \in L : up.id \in 1 .. n /\ up.parent \in 0 .. n
      BY <1>3, <1>4, <3>1
    <3>4. \A a, b \in L : a.id = b.id => a = b
      BY <1>3, <3>1
    <3>5. \A up \in L : up.parent # tip.id
      BY <2>3, <3>1
    <3>6. VerifyLineage(L \cup {row})
      BY <1>1, <2>3, <3>2, <3>3, <3>4, <3>5, LineageGrows
    <3> QED
      BY <1>8, <2>3, <3>6
  <2> QED
    BY <1>6, <2>1, <2>2, <2>3
<1>10. ASSUME NEW t \in Sections PROVE HasTip(e, t)
  <2>1. CASE t = s
    <3>1. row \in OfSection(W, s) /\ row.id = e.active[s]
      BY <1>1, <1>5, <1>8
    <3>2. \A up \in W : up.parent # row.id
      BY <1>1, <1>2, <1>4, <1>7
    <3> QED
      BY <2>1, <3>1, <3>2 DEF HasTip, W
  <2>2. CASE t # s
    <3>1. OfSection(W, t) = OfSection(V, t) /\ e.active[t] = d.active[t]
      BY <1>5, <1>8, <2>2
    <3>2. CASE d.active[t] = 0 /\ OfSection(V, t) = {}
      BY <3>1, <3>2 DEF HasTip, W
    <3>3. ASSUME NEW tip \in OfSection(V, t), tip.id = d.active[t],
                 \A up \in V : up.parent # tip.id
          PROVE  HasTip(e, t)
      <4>1. row.parent # tip.id
        <5>1. tip \in V /\ tip.section = t /\ tip.id # 0
          BY <1>3, <3>3 DEF OfSection
        <5>2. ASSUME NEW up \in L PROVE up.id # tip.id
          <6>1. up \in V /\ up.section = s
            BY <5>2 DEF L, OfSection
          <6> QED
            BY <1>3, <2>2, <5>1, <6>1
        <5> QED
          BY <1>1, <1>6, <5>1, <5>2
      <4>2. \A up \in W : up.parent # tip.id
        BY <1>2, <3>3, <4>1
      <4> QED
        BY <3>1, <3>3, <4>2 DEF HasTip, W
    <3>4. HasTip(d, t)
      BY <1>3
    <3> QED
      BY <3>2, <3>3, <3>4 DEF HasTip, V
  <2> QED
    BY <2>1, <2>2
<1> QED
  BY <1>9, <1>10 DEF W

\* The hash of a document there is.
LEMMA FileHashIs ==
  ASSUME NEW hashes, \A h \in hashes : h = <<h[1], "written">>, NEW source,
         <<source, "written">> \in hashes
  PROVE  FileHash(hashes, source) = "written"
<1>1. \E h \in hashes : h[1] = source
  <2>1. <<source, "written">>[1] = source
    OBVIOUS
  <2> QED
    BY <2>1
<1> DEFINE h == CHOOSE h \in hashes : h[1] = source
<1>2. h \in hashes
  BY <1>1
<1>3. FileHash(hashes, source) = h[2]
  BY <1>1 DEF FileHash
<1> HIDE DEF h
<1>4. h = <<h[1], "written">>
  BY <1>2
<1>5. h[2] = "written"
  BY <1>4
<1> QED
  BY <1>3, <1>5

\* The hashes of the files there are.
LEMMA HashesAre ==
  ASSUME NEW files, NEW n, FileTable(files, n)
  PROVE  LET hashes == {<<f.source, f.hash>> : f \in files}
         IN  /\ \A h \in hashes : h = <<h[1], "written">>
             /\ \A f \in files : FileHash(hashes, f.source) = "written"
<1> DEFINE hashes == {<<f.source, f.hash>> : f \in files}
<1>1. \A f \in files : f.hash = "written"
  <2> SUFFICES ASSUME NEW f \in files PROVE f.hash = "written"
    OBVIOUS
  <2>1. f = [source |-> f.source, content |-> f.content, hash |-> "written"]
    BY DEF FileTable
  <2> QED
    BY <2>1
<1>2. ASSUME NEW h \in hashes PROVE h = <<h[1], "written">>
  <2>1. PICK f \in files : h = <<f.source, f.hash>>
    OBVIOUS
  <2> QED
    BY <1>1, <2>1
<1>3. \A f \in files : <<f.source, "written">> \in hashes
  BY <1>1
<1> HIDE DEF hashes
<1>4. \A f \in files : FileHash(hashes, f.source) = "written"
  BY <1>2, <1>3, FileHashIs
<1> QED
  BY <1>2, <1>4 DEF hashes

LEMMA ExtractionsGrow ==
  ASSUME NEW d, NEW e, NEW n \in Nat, InOrder(d, n), IsHistory(e, n + 1),
         e.runs = d.runs \cup {RunRow(n + 1)}, e.pages = d.pages \cup {PageRow(n + 1)},
         e.files = d.files \cup {FileRow(n + 1)}
  PROVE  VerifyExtractions(ReadOf(e))
<1> DEFINE v == ReadOf(d)
           w == ReadOf(e)
<1>1. /\ v.runs = d.runs /\ v.pages = d.pages /\ v.files = d.files
      /\ w.runs = e.runs /\ w.pages = e.pages /\ w.files = e.files
      /\ v.hashes = {<<f.source, f.hash>> : f \in d.files}
      /\ w.hashes = {<<f.source, f.hash>> : f \in e.files}
  BY DEF ReadOf
<1>2. /\ \A f \in d.files : FileHash(v.hashes, f.source) = "written"
      /\ \A f \in e.files : FileHash(w.hashes, f.source) = "written"
  <2>1. FileTable(d.files, n) /\ FileTable(e.files, n + 1)
    BY DEF InOrder, IsHistory
  <2>2. \A f \in d.files : FileHash({<<g.source, g.hash>> : g \in d.files}, f.source) = "written"
    BY <2>1, HashesAre
  <2>3. \A f \in e.files : FileHash({<<g.source, g.hash>> : g \in e.files}, f.source) = "written"
    BY <2>1, HashesAre
  <2> HIDE DEF v, w
  <2> QED
    BY <1>1, <2>2, <2>3
<1>3. /\ VerifyExtractions(v) /\ \A run \in d.runs : run.id \in 1 .. n
      /\ \A page \in d.pages : \E run \in d.runs : run.id = page.run
  BY DEF InOrder, VerifiesInternally
<1> HIDE DEF v, w
<1>4. ASSUME NEW run \in d.runs
      PROVE  /\ \E file \in w.files : file.source = run.source /\ file.content = file.hash
             /\ \A page \in PagesOf(w.pages, run) : page.text = page.hash
             /\ run.manifest = Manifest(FileHash(w.hashes, run.source), run, PagesOf(w.pages, run))
  <2>1. PICK file \in d.files : file.source = run.source /\ file.content = file.hash
    BY <1>1, <1>3 DEF VerifyExtractions
  <2>2. FileHash(w.hashes, run.source) = FileHash(v.hashes, run.source)
    BY <1>2, <2>1
  <2>3. PagesOf(w.pages, run) = PagesOf(v.pages, run)
    <3>1. PageRow(n + 1).run # run.id
      BY <1>3 DEF PageRow
    <3> QED
      BY <1>1, <3>1 DEF PagesOf
  <2>4. /\ \A page \in PagesOf(v.pages, run) : page.text = page.hash
        /\ run.manifest = Manifest(FileHash(v.hashes, run.source), run, PagesOf(v.pages, run))
    BY <1>1, <1>3 DEF VerifyExtractions
  <2> QED
    BY <1>1, <2>1, <2>2, <2>3, <2>4
<1>5. LET run == RunRow(n + 1)
      IN  /\ \E file \in w.files : file.source = run.source /\ file.content = file.hash
          /\ \A page \in PagesOf(w.pages, run) : page.text = page.hash
          /\ run.manifest = Manifest(FileHash(w.hashes, run.source), run, PagesOf(w.pages, run))
  <2> DEFINE run == RunRow(n + 1)
             file == FileRow(n + 1)
             page == PageRow(n + 1)
  <2>1. /\ run.id = n + 1 /\ run.source = n + 1 /\ run.text = "written"
        /\ run.manifest = <<"written", n + 1, n + 1, "written", {<<n + 1, "written">>}>>
        /\ file.source = n + 1 /\ file.content = file.hash
        /\ page.id = n + 1 /\ page.run = n + 1 /\ page.text = "written" /\ page.hash = "written"
        /\ file \in e.files
    BY DEF RunRow, FileRow, PageRow
  <2> HIDE DEF run, file, page
  <2>2. FileHash(w.hashes, run.source) = "written"
    BY <1>2, <2>1
  <2>3. PagesOf(w.pages, run) = {page}
    <3>1. \A p \in d.pages : p.run # run.id
      BY <1>3, <2>1
    <3> QED
      BY <1>1, <2>1, <3>1 DEF PagesOf, page
  <2>4. {<<p.id, p.hash>> : p \in {page}} = {<<n + 1, "written">>}
    BY <2>1
  <2>5. Manifest("written", run, {page}) = run.manifest
    BY <2>1, <2>4 DEF Manifest
  <2> QED
    BY <1>1, <2>1, <2>2, <2>3, <2>5 DEF run
<1>6. VerifyExtractions(w)
  BY <1>1, <1>4, <1>5 DEF VerifyExtractions
<1> QED
  BY <1>6 DEF w

\* An operation leaves a history in order.
LEMMA OrderGrows ==
  ASSUME NEW d, NEW e, NEW n \in Nat, InOrder(d, n), Grown(d, e, n + 1)
  PROVE  InOrder(e, n + 1)
<1>1. IsHistory(d, n) /\ IsHistory(e, n + 1)
  BY HistoryGrows DEF InOrder
<1>2. /\ VerifyChain(d.audit) /\ VerifyChain(d.decisions) /\ VerifyPackets(d.packets)
      /\ VerifyRevisions(d.revisions) /\ VerifyExtractions(ReadOf(d))
  BY DEF InOrder, VerifiesInternally, ReadOf
<1>3. AsWritten(d)
  BY DEF InOrder
<1>4. /\ VerifyChain(e.audit) /\ VerifyChain(e.decisions) /\ VerifyPackets(e.packets)
      /\ \A i \in DOMAIN e.audit : e.audit[i].text = "written"
      /\ \A i \in DOMAIN e.decisions : e.decisions[i].text = "written"
      /\ \A i \in DOMAIN e.packets : e.packets[i].document = "written" /\ e.packets[i].pdf = "written"
  <2>1. /\ \A i \in DOMAIN d.audit : d.audit[i].text = "written"
        /\ \A i \in DOMAIN d.decisions : d.decisions[i].text = "written"
        /\ \A i \in DOMAIN d.packets : d.packets[i].document = "written" /\ d.packets[i].pdf = "written"
    BY <1>3 DEF AsWritten
  <2>2. EventTable(d.audit) /\ EventTable(d.decisions) /\ PacketTable(d.packets)
    BY <1>1 DEF IsHistory
  <2>3. /\ e.audit = Append(d.audit, Event(d.audit, n + 1))
        /\ \/ e.decisions = d.decisions
           \/ e.decisions = Append(d.decisions, Event(d.decisions, n + 1))
        /\ \/ e.packets = d.packets
           \/ e.packets = Append(d.packets, PacketRow(d.packets, n + 1))
    BY DEF Grown
  <2>4. VerifyChain(e.audit) /\ \A i \in DOMAIN e.audit : e.audit[i].text = "written"
    BY <1>2, <2>1, <2>2, <2>3, ChainGrows
  <2>5. VerifyChain(e.decisions) /\ \A i \in DOMAIN e.decisions : e.decisions[i].text = "written"
    <3> DEFINE f == Append(d.decisions, Event(d.decisions, n + 1))
    <3>1. VerifyChain(f) /\ \A i \in DOMAIN f : f[i].text = "written"
      BY <1>2, <2>1, <2>2, ChainGrows
    <3>2. e.decisions = d.decisions \/ e.decisions = f
      BY <2>3
    <3> HIDE DEF f
    <3> QED
      BY <1>2, <2>1, <3>1, <3>2
  <2>6. /\ VerifyPackets(e.packets)
        /\ \A i \in DOMAIN e.packets : e.packets[i].document = "written" /\ e.packets[i].pdf = "written"
    <3> DEFINE f == Append(d.packets, PacketRow(d.packets, n + 1))
    <3>1. VerifyPackets(f) /\ \A i \in DOMAIN f : f[i].document = "written" /\ f[i].pdf = "written"
      BY <1>2, <2>1, <2>2, PacketChainGrows
    <3>2. e.packets = d.packets \/ e.packets = f
      BY <2>3
    <3> HIDE DEF f
    <3> QED
      BY <1>2, <2>1, <3>1, <3>2
  <2> QED
    BY <2>4, <2>5, <2>6
<1>5. /\ VerifyRevisions(e.revisions) /\ \A s \in Sections : HasTip(e, s)
      /\ \A row \in e.revisions : /\ row.section \in Sections /\ row.text = "written"
                                  /\ row.id \in 1 .. n + 1
      /\ IsFiniteSet(e.revisions) /\ \A a, b \in e.revisions : a.id = b.id => a = b
  <2>1. /\ IsFiniteSet(d.revisions) /\ \A a, b \in d.revisions : a.id = b.id => a = b
        /\ \A row \in d.revisions : /\ row.section \in Sections /\ row.text = "written"
                                    /\ row.id \in 1 .. n
        /\ \A s \in Sections : HasTip(d, s)
    BY DEF InOrder, AsWritten
  <2>2. CASE e.revisions = d.revisions /\ e.active = d.active
    BY <1>2, <2>1, <2>2 DEF HasTip
  <2>3. ASSUME NEW s \in Sections, e.revisions = d.revisions \cup {RevisionRow(d, s, n + 1)},
               e.active = [d.active EXCEPT ![s] = n + 1]
        PROVE  /\ VerifyRevisions(e.revisions) /\ \A t \in Sections : HasTip(e, t)
               /\ \A row \in e.revisions : /\ row.section \in Sections /\ row.text = "written"
                                           /\ row.id \in 1 .. n + 1
               /\ IsFiniteSet(e.revisions) /\ \A a, b \in e.revisions : a.id = b.id => a = b
    <3> DEFINE x == RevisionRow(d, s, n + 1)
    <3>1. VerifyRevisions(e.revisions) /\ \A t \in Sections : HasTip(e, t)
      BY <2>3, RevisionsGrow
    <3>2. x.id = n + 1 /\ x.section = s /\ x.text = "written"
      BY DEF RevisionRow
    <3> HIDE DEF x
    <3>3. IsFiniteSet(d.revisions \cup {x})
      BY <2>1, FS_AddElement
    <3>4. e.revisions = d.revisions \cup {x}
      BY <2>3 DEF x
    <3> QED
      BY <2>1, <3>1, <3>2, <3>3, <3>4
  <2> QED
    BY <2>2, <2>3 DEF Grown
<1>6. /\ VerifyExtractions(ReadOf(e))
      /\ \A name \in {"runs", "pages"} :
           /\ IsFiniteSet(e[name]) /\ \A a, b \in e[name] : a.id = b.id => a = b
           /\ \A row \in e[name] : row.id \in 1 .. n + 1 /\ row.text = "written"
      /\ IsFiniteSet(e.files) /\ \A file \in e.files : file.content = "written"
      /\ \A page \in e.pages : \E run \in e.runs : run.id = page.run
      /\ \A file \in e.files : \E run \in e.runs : run.source = file.source
  <2>1. /\ \A name \in {"runs", "pages"} :
             /\ IsFiniteSet(d[name]) /\ \A a, b \in d[name] : a.id = b.id => a = b
             /\ \A row \in d[name] : row.id \in 1 .. n /\ row.text = "written"
        /\ IsFiniteSet(d.files) /\ \A file \in d.files : file.content = "written"
        /\ \A page \in d.pages : \E run \in d.runs : run.id = page.run
        /\ \A file \in d.files : \E run \in d.runs : run.source = file.source
    BY DEF InOrder, AsWritten
  <2>2. CASE e.runs = d.runs /\ e.pages = d.pages /\ e.files = d.files
    <3>1. VerifyExtractions(ReadOf(e))
      <4> DEFINE v == ReadOf(d)
                 w == ReadOf(e)
      <4>1. v.runs = w.runs /\ v.pages = w.pages /\ v.files = w.files /\ v.hashes = w.hashes
        BY <2>2 DEF ReadOf
      <4> HIDE DEF v, w
      <4>2. VerifyExtractions(v)
        BY <1>2 DEF v
      <4>3. VerifyExtractions(w)
        BY <4>1, <4>2 DEF VerifyExtractions
      <4> QED
        BY <4>3 DEF w
    <3>2. \A name \in {"runs", "pages"} : e[name] = d[name]
      BY <2>2
    <3> QED
      BY <2>1, <2>2, <3>1, <3>2
  <2>3. CASE /\ e.runs  = d.runs \cup {RunRow(n + 1)}
             /\ e.pages = d.pages \cup {PageRow(n + 1)}
             /\ e.files = d.files \cup {FileRow(n + 1)}
    <3> DEFINE x == RunRow(n + 1)
               y == PageRow(n + 1)
               z == FileRow(n + 1)
    <3>1. VerifyExtractions(ReadOf(e))
      BY <1>1, <2>3, ExtractionsGrow
    <3>2. /\ x.id = n + 1 /\ x.source = n + 1 /\ x.text = "written"
          /\ y.id = n + 1 /\ y.run = n + 1 /\ y.text = "written"
          /\ z.source = n + 1 /\ z.content = "written"
      BY DEF RunRow, PageRow, FileRow
    <3>3. e.runs = d.runs \cup {x} /\ e.pages = d.pages \cup {y} /\ e.files = d.files \cup {z}
      BY <2>3
    <3> HIDE DEF x, y, z
    <3>4. IsFiniteSet(e.runs) /\ IsFiniteSet(e.pages) /\ IsFiniteSet(e.files)
      <4>1. IsFiniteSet(d.runs) /\ IsFiniteSet(d.pages) /\ IsFiniteSet(d.files)
        BY <2>1
      <4>2. /\ IsFiniteSet(d.runs \cup {x}) /\ IsFiniteSet(d.pages \cup {y})
            /\ IsFiniteSet(d.files \cup {z})
        BY <4>1, FS_AddElement
      <4> QED
        BY <3>3, <4>2
    <3>5. /\ \A a, b \in e.runs : a.id = b.id => a = b
          /\ \A row \in e.runs : row.id \in 1 .. n + 1 /\ row.text = "written"
      BY <2>1, <3>2, <3>3
    <3>6. /\ \A a, b \in e.pages : a.id = b.id => a = b
          /\ \A row \in e.pages : row.id \in 1 .. n + 1 /\ row.text = "written"
      BY <2>1, <3>2, <3>3
    <3>7. /\ \A page \in e.pages : \E run \in e.runs : run.id = page.run
          /\ \A file \in e.files : \E run \in e.runs : run.source = file.source
          /\ \A file \in e.files : file.content = "written"
      BY <2>1, <3>2, <3>3
    <3> QED
      BY <3>1, <3>4, <3>5, <3>6, <3>7
  <2> QED
    BY <2>2, <2>3 DEF Grown
<1>7. AsWritten(e)
  BY <1>4, <1>5, <1>6 DEF AsWritten
<1>8. VerifiesInternally(ReadOf(e))
  BY <1>4, <1>5, <1>6 DEF VerifiesInternally, ReadOf
<1> QED
  BY <1>1, <1>5, <1>6, <1>7, <1>8 DEF InOrder

-----------------------------------------------------------------------------
(***************************************************************************)
(* What is read of a history nobody has touched, while it grows.           *)
(***************************************************************************)

LEMMA OrderIsSound ==
  ASSUME NEW d, NEW n, InOrder(d, n)
  PROVE  Sound(Snapshot(d))
<1> DEFINE v == Snapshot(d)
<1>1. /\ v.audit = d.audit /\ v.packets = d.packets /\ v.revisions = d.revisions
      /\ v.decisions = d.decisions /\ v.runs = d.runs /\ v.pages = PagesFor(d, d.runs)
      /\ v.hashes = HashesFor(d, d.runs) /\ v.files = FilesFor(d, d.runs)
  BY SnapshotFields
<1>2. VerifiesInternally(v) /\ v.pages = d.pages /\ v.files = d.files
  BY <1>1, ReadAtRest DEF InOrder
<1>3. IsRead(v, n)
  BY SnapshotIsRead DEF InOrder
<1> HIDE DEF v
<1>4. \A name \in {"revisions", "runs", "pages"} :
        IsFiniteSet(v[name]) /\ \A a, b \in v[name] : a.id = b.id => a = b
  <2>1. /\ IsFiniteSet(d.revisions) /\ IsFiniteSet(d.runs) /\ IsFiniteSet(d.pages)
        /\ \A a, b \in d.revisions : a.id = b.id => a = b
        /\ \A a, b \in d.runs : a.id = b.id => a = b
        /\ \A a, b \in d.pages : a.id = b.id => a = b
    BY DEF InOrder
  <2> QED
    BY <1>1, <1>2, <2>1
<1>5. v.hashes = {<<source, "written">> : source \in SourcesOf(v.runs)}
  <2>1. ASSUME NEW h \in v.hashes
        PROVE  h \in {<<source, "written">> : source \in SourcesOf(v.runs)}
    BY <1>3, <2>1 DEF IsRead
  <2>2. ASSUME NEW source \in SourcesOf(v.runs)
        PROVE  <<source, "written">> \in v.hashes
    <3>1. PICK run \in v.runs : run.source = source
      BY DEF SourcesOf
    <3>2. PICK file \in v.files : file.source = source
      BY <1>2, <3>1 DEF VerifiesInternally, VerifyExtractions
    <3>3. file \in FilesFor(d, d.runs)
      BY <1>1, <3>2
    <3>4. file = [source |-> file.source, content |-> file.content, hash |-> "written"]
      BY <1>3, <3>2 DEF IsRead, FileTable
    <3>5. file.hash = "written"
      BY <3>4
    <3> QED
      BY <1>1, <3>2, <3>3, <3>5 DEF HashesFor
  <2> QED
    BY <2>1, <2>2
<1>6. Sound(v)
  BY <1>2, <1>4, <1>5 DEF Sound
<1> QED
  BY <1>6 DEF v

Tabled(v) == \A name \in Ordered : IsTable(v[name])

LEMMA ReadIsTabled ==
  ASSUME NEW v, NEW n, IsRead(v, n)
  PROVE  Tabled(v)
BY DEF Tabled, Ordered, IsRead, EventTable, PacketTable

LEMMA ContainedInItself ==
  ASSUME NEW v, Tabled(v)
  PROVE  Contained(v, v)
<1>1. \A name \in Ordered : Len(v[name]) <= Len(v[name])
  BY TableLength DEF Tabled
<1> QED
  BY <1>1 DEF Contained, Within

LEMMA ContainedTransitive ==
  ASSUME NEW u, NEW v, NEW w, Tabled(u), Tabled(v), Tabled(w),
         Contained(u, v), Contained(v, w)
  PROVE  Contained(u, w)
<1>1. ASSUME NEW name \in Ordered
      PROVE  /\ Len(u[name]) <= Len(w[name])
             /\ \A i \in DOMAIN u[name] : u[name][i] = w[name][i]
  <2>1. /\ Len(u[name]) \in Nat /\ DOMAIN u[name] = 1 .. Len(u[name])
        /\ Len(v[name]) \in Nat /\ DOMAIN v[name] = 1 .. Len(v[name])
        /\ Len(w[name]) \in Nat
    BY TableLength DEF Tabled
  <2>2. /\ Len(u[name]) <= Len(v[name]) /\ Len(v[name]) <= Len(w[name])
        /\ \A i \in DOMAIN u[name] : u[name][i] = v[name][i]
        /\ \A i \in DOMAIN v[name] : v[name][i] = w[name][i]
    BY DEF Contained, Within
  <2> QED
    BY <2>1, <2>2
<1>2. /\ \A name \in {"revisions", "runs", "pages", "files"} : u[name] \subseteq w[name]
      /\ u.hashes \subseteq w.hashes
  BY DEF Contained, Within
<1> QED
  BY <1>1, <1>2 DEF Contained, Within

\* w has read some of its tables as v has, and the others as s.
Extracted(w, v) ==
  w.runs = v.runs /\ w.pages = v.pages /\ w.hashes = v.hashes /\ w.files = v.files

Blend(w, v, s) ==
  /\ w.audit \in {v.audit, s.audit} /\ w.packets \in {v.packets, s.packets}
  /\ w.revisions \in {v.revisions, s.revisions} /\ w.decisions \in {v.decisions, s.decisions}
  /\ Extracted(w, v) \/ Extracted(w, s)

\* Tables read at two times verify together: the pages, hashes and files of a run are
\* read with the runs of one time.
LEMMA BlendIsSound ==
  ASSUME NEW w, NEW v, NEW s, Blend(w, v, s), Sound(v), Sound(s)
  PROVE  Sound(w)
<1>1. /\ VerifyChain(w.audit) /\ VerifyPackets(w.packets) /\ VerifyRevisions(w.revisions)
      /\ VerifyChain(w.decisions)
  BY DEF Blend, Sound, VerifiesInternally
<1>2. IsFiniteSet(w.revisions) /\ \A a, b \in w.revisions : a.id = b.id => a = b
  BY DEF Blend, Sound
<1>3. ASSUME NEW x, Sound(x), Extracted(w, x)
      PROVE  /\ VerifyExtractions(w)
             /\ IsFiniteSet(w.runs) /\ \A a, b \in w.runs : a.id = b.id => a = b
             /\ IsFiniteSet(w.pages) /\ \A a, b \in w.pages : a.id = b.id => a = b
             /\ w.hashes = {<<source, "written">> : source \in SourcesOf(w.runs)}
  <2>1. VerifyExtractions(x)
    BY <1>3 DEF Sound, VerifiesInternally
  <2>2. VerifyExtractions(w)
    BY <1>3, <2>1 DEF VerifyExtractions, Extracted
  <2> QED
    BY <1>3, <2>2 DEF Sound, Extracted
<1>4. /\ VerifyExtractions(w)
      /\ IsFiniteSet(w.runs) /\ \A a, b \in w.runs : a.id = b.id => a = b
      /\ IsFiniteSet(w.pages) /\ \A a, b \in w.pages : a.id = b.id => a = b
      /\ w.hashes = {<<source, "written">> : source \in SourcesOf(w.runs)}
  BY <1>3 DEF Blend
<1>5. VerifiesInternally(w)
  BY <1>1, <1>4 DEF VerifiesInternally
<1> QED
  BY <1>2, <1>4, <1>5 DEF Sound

LEMMA BlendIsBetween ==
  ASSUME NEW w, NEW v, NEW s, Blend(w, v, s), Tabled(v), Tabled(s), Contained(v, s)
  PROVE  Contained(v, w) /\ Contained(w, s)
<1>1. ASSUME NEW name \in Ordered
      PROVE  /\ Len(v[name]) <= Len(w[name]) /\ Len(w[name]) <= Len(s[name])
             /\ \A i \in DOMAIN v[name] : v[name][i] = w[name][i]
             /\ \A i \in DOMAIN w[name] : w[name][i] = s[name][i]
  <2>1. w[name] = v[name] \/ w[name] = s[name]
    BY DEF Blend, Ordered
  <2>2. Len(v[name]) \in Nat /\ Len(s[name]) \in Nat
    BY TableLength DEF Tabled
  <2>3. Len(v[name]) <= Len(s[name]) /\ \A i \in DOMAIN v[name] : v[name][i] = s[name][i]
    BY DEF Contained, Within
  <2> QED
    BY <2>1, <2>2, <2>3
<1>2. /\ \A name \in {"revisions", "runs", "pages", "files"} :
           v[name] \subseteq w[name] /\ w[name] \subseteq s[name]
      /\ v.hashes \subseteq w.hashes /\ w.hashes \subseteq s.hashes
  <2>1. /\ v.revisions \subseteq s.revisions /\ v.runs \subseteq s.runs
        /\ v.pages \subseteq s.pages /\ v.files \subseteq s.files /\ v.hashes \subseteq s.hashes
    BY DEF Contained, Within
  <2>2. /\ v.revisions \subseteq w.revisions /\ w.revisions \subseteq s.revisions
        /\ v.runs \subseteq w.runs /\ w.runs \subseteq s.runs
        /\ v.pages \subseteq w.pages /\ w.pages \subseteq s.pages
        /\ v.files \subseteq w.files /\ w.files \subseteq s.files
        /\ v.hashes \subseteq w.hashes /\ w.hashes \subseteq s.hashes
    BY <2>1 DEF Blend, Extracted
  <2> QED
    BY <2>2
<1> QED
  BY <1>1, <1>2 DEF Contained, Within

\* An operation between two statements: what has been read stays, what has not been
\* is read as it is now, and the pages and files of runs already read are the same.
LEMMA ViewBlends ==
  ASSUME NEW at \in 1 .. 11, NEW read, NEW d, NEW e, NEW n \in Nat,
         IsRead(View(at, read, d), n), Grown(d, e, n + 1)
  PROVE  Blend(View(at, read, e), View(at, read, d), Snapshot(e))
<1> DEFINE v == View(at, read, d)
           w == View(at, read, e)
           s == Snapshot(e)
<1>v. /\ v.audit     = IF at > 1 THEN read.audit     ELSE d.audit
      /\ v.packets   = IF at > 2 THEN read.packets   ELSE d.packets
      /\ v.revisions = IF at > 3 THEN read.revisions ELSE d.revisions
      /\ v.decisions = IF at > 4 THEN read.decisions ELSE d.decisions
      /\ v.runs      = IF at > 5 THEN read.runs      ELSE d.runs
      /\ v.pages     = IF at > 6 THEN read.pages     ELSE PagesFor(d, v.runs)
      /\ v.hashes    = IF at > 7 THEN read.hashes    ELSE HashesFor(d, v.runs)
      /\ v.files     = IF at > 8 THEN read.files     ELSE FilesFor(d, v.runs)
  BY ViewFields
<1>w. /\ w.audit     = IF at > 1 THEN read.audit     ELSE e.audit
      /\ w.packets   = IF at > 2 THEN read.packets   ELSE e.packets
      /\ w.revisions = IF at > 3 THEN read.revisions ELSE e.revisions
      /\ w.decisions = IF at > 4 THEN read.decisions ELSE e.decisions
      /\ w.runs      = IF at > 5 THEN read.runs      ELSE e.runs
      /\ w.pages     = IF at > 6 THEN read.pages     ELSE PagesFor(e, w.runs)
      /\ w.hashes    = IF at > 7 THEN read.hashes    ELSE HashesFor(e, w.runs)
      /\ w.files     = IF at > 8 THEN read.files     ELSE FilesFor(e, w.runs)
  BY ViewFields
<1>s. /\ s.audit = e.audit /\ s.packets = e.packets /\ s.revisions = e.revisions
      /\ s.decisions = e.decisions /\ s.runs = e.runs /\ s.pages = PagesFor(e, e.runs)
      /\ s.hashes = HashesFor(e, e.runs) /\ s.files = FilesFor(e, e.runs)
  BY SnapshotFields
<1>0. \A run \in v.runs : run.id \in 1 .. n /\ run.source \in 1 .. n
  BY DEF IsRead, RunTable
<1> HIDE DEF v, w, s
<1>1. /\ w.audit \in {v.audit, s.audit} /\ w.packets \in {v.packets, s.packets}
      /\ w.revisions \in {v.revisions, s.revisions} /\ w.decisions \in {v.decisions, s.decisions}
  BY <1>v, <1>w, <1>s
<1>2. CASE ~(at > 5)
  <2>1. ~(at > 6) /\ ~(at > 7) /\ ~(at > 8)
    BY <1>2
  <2> QED
    BY <1>1, <1>2, <1>w, <1>s, <2>1 DEF Blend, Extracted, v, w, s
<1>3. CASE at > 5
  <2>1. w.runs = v.runs
    BY <1>3, <1>v, <1>w
  <2>2. PagesFor(e, v.runs) = PagesFor(d, v.runs)
    <3>1. PageRow(n + 1).run = n + 1 /\ \A run \in v.runs : run.id # n + 1
      BY <1>0 DEF PageRow
    <3>2. e.pages = d.pages \/ e.pages = d.pages \cup {PageRow(n + 1)}
      BY DEF Grown
    <3> QED
      BY <3>1, <3>2 DEF PagesFor
  <2>3. FilesFor(e, v.runs) = FilesFor(d, v.runs)
    <3>1. FileRow(n + 1).source = n + 1 /\ n + 1 \notin SourcesOf(v.runs)
      BY <1>0 DEF FileRow, SourcesOf
    <3>2. e.files = d.files \/ e.files = d.files \cup {FileRow(n + 1)}
      BY DEF Grown
    <3> QED
      BY <3>1, <3>2 DEF FilesFor
  <2>4. HashesFor(e, v.runs) = HashesFor(d, v.runs)
    BY <2>3 DEF HashesFor
  <2>5. w.pages = v.pages /\ w.hashes = v.hashes /\ w.files = v.files
    BY <1>v, <1>w, <2>1, <2>2, <2>3, <2>4
  <2> QED
    BY <1>1, <2>1, <2>5 DEF Blend, Extracted, v, w, s
<1> QED
  BY <1>2, <1>3

\* What was read before an operation is there after it.
LEMMA GrownContains ==
  ASSUME NEW d, NEW e, NEW n, NEW id, IsHistory(d, n), Grown(d, e, id)
  PROVE  Contained(Snapshot(d), Snapshot(e))
<1> DEFINE v == Snapshot(d)
           w == Snapshot(e)
<1>1. /\ v.audit = d.audit /\ v.packets = d.packets /\ v.revisions = d.revisions
      /\ v.decisions = d.decisions /\ v.runs = d.runs /\ v.pages = PagesFor(d, d.runs)
      /\ v.hashes = HashesFor(d, d.runs) /\ v.files = FilesFor(d, d.runs)
  BY SnapshotFields
<1>2. /\ w.audit = e.audit /\ w.packets = e.packets /\ w.revisions = e.revisions
      /\ w.decisions = e.decisions /\ w.runs = e.runs /\ w.pages = PagesFor(e, e.runs)
      /\ w.hashes = HashesFor(e, e.runs) /\ w.files = FilesFor(e, e.runs)
  BY SnapshotFields
<1> HIDE DEF v, w
<1>3. ASSUME NEW c, IsTable(c), NEW x, NEW f, f = c \/ f = Append(c, x)
      PROVE  Len(c) <= Len(f) /\ \A i \in DOMAIN c : c[i] = f[i]
  <2>1. Len(c) \in Nat /\ DOMAIN c = 1 .. Len(c)
    BY <1>3, TableLength
  <2>2. Len(Append(c, x)) = Len(c) + 1 /\ \A i \in 1 .. Len(c) : Append(c, x)[i] = c[i]
    BY <1>3, TableGrows
  <2> QED
    BY <1>3, <2>1, <2>2
<1>4. /\ Len(d.audit) <= Len(e.audit) /\ \A i \in DOMAIN d.audit : d.audit[i] = e.audit[i]
      /\ Len(d.packets) <= Len(e.packets) /\ \A i \in DOMAIN d.packets : d.packets[i] = e.packets[i]
      /\ Len(d.decisions) <= Len(e.decisions)
      /\ \A i \in DOMAIN d.decisions : d.decisions[i] = e.decisions[i]
  <2>1. IsTable(d.audit) /\ IsTable(d.packets) /\ IsTable(d.decisions)
    BY DEF IsHistory, EventTable, PacketTable
  <2>2. /\ e.audit = Append(d.audit, Event(d.audit, id))
        /\ e.packets = d.packets \/ e.packets = Append(d.packets, PacketRow(d.packets, id))
        /\ e.decisions = d.decisions \/ e.decisions = Append(d.decisions, Event(d.decisions, id))
    BY DEF Grown
  <2>3. Len(d.audit) <= Len(e.audit) /\ \A i \in DOMAIN d.audit : d.audit[i] = e.audit[i]
    BY ONLY <1>3, <2>1, <2>2
  <2>4. Len(d.packets) <= Len(e.packets) /\ \A i \in DOMAIN d.packets : d.packets[i] = e.packets[i]
    BY ONLY <1>3, <2>1, <2>2
  <2>5. /\ Len(d.decisions) <= Len(e.decisions)
        /\ \A i \in DOMAIN d.decisions : d.decisions[i] = e.decisions[i]
    BY ONLY <1>3, <2>1, <2>2
  <2> QED
    BY <2>3, <2>4, <2>5
<1>5. /\ d.revisions \subseteq e.revisions /\ d.runs \subseteq e.runs
      /\ d.pages \subseteq e.pages /\ d.files \subseteq e.files
  BY DEF Grown
<1>6. /\ PagesFor(d, d.runs) \subseteq PagesFor(e, e.runs)
      /\ FilesFor(d, d.runs) \subseteq FilesFor(e, e.runs)
      /\ HashesFor(d, d.runs) \subseteq HashesFor(e, e.runs)
  BY <1>5 DEF PagesFor, FilesFor, HashesFor, SourcesOf
<1>7. \A name \in Ordered : /\ Len(v[name]) <= Len(w[name])
                            /\ \A i \in DOMAIN v[name] : v[name][i] = w[name][i]
  BY <1>1, <1>2, <1>4 DEF Ordered
<1>8. \A name \in {"revisions", "runs", "pages", "files"} : v[name] \subseteq w[name]
  BY <1>1, <1>2, <1>5, <1>6
<1>9. Contained(v, w)
  BY <1>1, <1>2, <1>6, <1>7, <1>8 DEF Contained, Within
<1> QED
  BY <1>9 DEF v, w

-----------------------------------------------------------------------------
(***************************************************************************)
(* A history nobody has touched: every row counted is a member, and no     *)
(* checkpoint of it is contradicted.                                       *)
(***************************************************************************)

\* The image of a function that is one-to-one.
LEMMA ImageIsAsLarge ==
  ASSUME NEW S, IsFiniteSet(S), NEW f, DOMAIN f = S, f = [x \in S |-> f[x]],
         \A a, b \in S : f[a] = f[b] => a = b,
         NEW T, T = {f[x] : x \in S}
  PROVE  IsFiniteSet(T) /\ Cardinality(T) = Cardinality(S)
<1>1. f \in [S -> T]
  OBVIOUS
<1>2. f \in Injection(S, T) /\ f \in Surjection(S, T)
  BY <1>1 DEF Injection, Surjection, IsInjective
<1>3. ExistsBijection(S, T)
  BY <1>2 DEF ExistsBijection, Bijection
<1> QED
  BY <1>3, FS_Bijection

LEMMA SourcesFinite ==
  ASSUME NEW runs, IsFiniteSet(runs)
  PROVE  IsFiniteSet(SourcesOf(runs)) /\ Cardinality(SourcesOf(runs)) \in Nat
<1> DEFINE f == [run \in runs |-> run.source]
<1>1. f \in Surjection(runs, SourcesOf(runs))
  BY DEF Surjection, SourcesOf
<1> HIDE DEF f
<1>2. IsFiniteSet(SourcesOf(runs))
  BY <1>1, FS_Surjection
<1> QED
  BY <1>2, FS_CardinalityType

\* Every row that is counted has its member (checkpoint_from_verification).
LEMMA SoundIsComplete ==
  ASSUME NEW v, NEW n, IsRead(v, n), Sound(v)
  PROVE  Complete(v)
<1> SUFFICES ASSUME NEW name \in Chains
             PROVE  HasMembers(Checkpoint(v)[name], name)
  BY DEF Complete
<1>1. /\ Checkpoint(v)[name].count = Count(v, name)
      /\ Checkpoint(v)[name].members = Members(v, name)
  BY DEF Checkpoint
<1>2. CASE name \in Ordered
  <2>1. name # "revisions" /\ name # "extractions"
    BY <1>2 DEF Ordered
  <2> DEFINE c == v[name]
             f == OrderedMembers(c)
             S == {f[i] : i \in DOMAIN c}
  <2>2. IsTable(c)
    BY <1>2, ReadIsTabled DEF Tabled
  <2>3. Len(c) \in Nat /\ DOMAIN c = 1 .. Len(c)
    BY <2>2, TableLength
  <2>4. Count(v, name) = Len(c) /\ Members(v, name) = f
    BY <1>2, <2>1 DEF Count, Members
  <2> HIDE DEF c
  <2>5. f \in [1 .. Len(c) -> S]
    BY <2>3 DEF OrderedMembers
  <2> HIDE DEF f, S
  <2>6. Len(f) = Len(c)
    BY <2>3, <2>5, TableOfFunction
  <2> QED
    BY <1>1, <1>2, <2>4, <2>6 DEF HasMembers
<1>3. CASE name = "revisions"
  <2> DEFINE V == v.revisions
             f == [row \in V |-> <<row.id, row.section, row.parent, row.textHash, row.hash>>]
  <2>1. IsFiniteSet(V) /\ \A a, b \in V : a.id = b.id => a = b
    BY DEF Sound
  <2>2. \A a, b \in V : f[a] = f[b] => a = b
    <3> SUFFICES ASSUME NEW a \in V, NEW b \in V, f[a] = f[b] PROVE a.id = b.id
      BY <2>1
    <3>1. /\ <<a.id, a.section, a.parent, a.textHash, a.hash>>[1] = a.id
          /\ <<b.id, b.section, b.parent, b.textHash, b.hash>>[1] = b.id
      OBVIOUS
    <3> QED
      BY <3>1
  <2>3. RevisionMembers(V) = {f[row] : row \in V}
    BY DEF RevisionMembers
  <2>4. DOMAIN f = V /\ f = [row \in V |-> f[row]]
    OBVIOUS
  <2> HIDE DEF f, V
  <2>5. Cardinality(RevisionMembers(V)) = Cardinality(V)
    BY <2>1, <2>2, <2>3, <2>4, ImageIsAsLarge
  <2>6. Count(v, name) = Cardinality(V) /\ Members(v, name) = RevisionMembers(V)
    BY <1>3 DEF Count, Members, Ordered, V
  <2>7. name \notin Ordered
    BY <1>3 DEF Ordered
  <2> QED
    BY <1>1, <2>5, <2>6, <2>7 DEF HasMembers
<1>4. CASE name = "extractions"
  <2> DEFINE U == v.runs
             G == v.pages
             O == SourcesOf(U)
             D(source) == <<"document", source, "written">>
             R(run) == <<"run", run.id, run.manifest>>
             P(page) == <<"page", page.id, page.hash>>
             DD == {D(source) : source \in O}
             RR == {R(run) : run \in U}
             PP == {P(page) : page \in G}
  <2>1. /\ IsFiniteSet(U) /\ \A a, b \in U : a.id = b.id => a = b
        /\ IsFiniteSet(G) /\ \A a, b \in G : a.id = b.id => a = b
        /\ v.hashes = {<<source, "written">> : source \in O}
    BY DEF Sound
  <2>2. ExtractionMembers(v) = (DD \cup RR) \cup PP
    <3>1. {<<"document", h[1], h[2]>> : h \in v.hashes} = DD
      <4> DEFINE H(source) == <<source, "written">>
                 E(h) == <<"document", h[1], h[2]>>
      <4>1. \A source : E(H(source)) = D(source)
        OBVIOUS
      <4>2. v.hashes = {H(source) : source \in O}
        BY <2>1
      <4> HIDE DEF H, E, D, O
      <4>3. {E(h) : h \in v.hashes} = DD
        BY <4>1, <4>2
      <4> QED
        BY <4>3 DEF E
    <3> QED
      BY <3>1 DEF ExtractionMembers
  <2>3. IsFiniteSet(O)
    BY <2>1, SourcesFinite
  <2>4. IsFiniteSet(DD) /\ Cardinality(DD) = Cardinality(O)
    <3> DEFINE f == [source \in O |-> D(source)]
    <3>1. \A a, b \in O : f[a] = f[b] => a = b
      <4>1. \A a : D(a)[2] = a
        OBVIOUS
      <4> HIDE DEF D, O
      <4> QED
        BY <4>1
    <3>2. DD = {f[a] : a \in O} /\ DOMAIN f = O /\ f = [a \in O |-> f[a]]
      OBVIOUS
    <3> HIDE DEF f, DD, O
    <3> QED
      BY <2>3, <3>1, <3>2, ImageIsAsLarge
  <2>5. IsFiniteSet(RR) /\ Cardinality(RR) = Cardinality(U)
    <3> DEFINE f == [a \in U |-> R(a)]
    <3>1. \A a, b \in U : f[a] = f[b] => a = b
      <4>1. \A a : R(a)[2] = a.id
        OBVIOUS
      <4> HIDE DEF R, U
      <4> QED
        BY <2>1, <4>1
    <3>2. RR = {f[a] : a \in U} /\ DOMAIN f = U /\ f = [a \in U |-> f[a]]
      OBVIOUS
    <3> HIDE DEF f, RR, U
    <3> QED
      BY <2>1, <3>1, <3>2, ImageIsAsLarge
  <2>6. IsFiniteSet(PP) /\ Cardinality(PP) = Cardinality(G)
    <3> DEFINE f == [a \in G |-> P(a)]
    <3>1. \A a, b \in G : f[a] = f[b] => a = b
      <4>1. \A a : P(a)[2] = a.id
        OBVIOUS
      <4> HIDE DEF P, G
      <4> QED
        BY <2>1, <4>1
    <3>2. PP = {f[a] : a \in G} /\ DOMAIN f = G /\ f = [a \in G |-> f[a]]
      OBVIOUS
    <3> HIDE DEF f, PP, G
    <3> QED
      BY <2>1, <3>1, <3>2, ImageIsAsLarge
  <2>7. DD \cap RR = {} /\ (DD \cup RR) \cap PP = {}
    <3>1. /\ \A a : D(a)[1] = "document"
          /\ \A a : R(a)[1] = "run"
          /\ \A a : P(a)[1] = "page"
      OBVIOUS
    <3> HIDE DEF D, R, P, O, U, G
    <3> QED
      BY <3>1
  <2>8. /\ Count(v, name) = Cardinality(U) + Cardinality(G) + Cardinality(O)
        /\ Members(v, name) = ExtractionMembers(v)
    BY <1>4 DEF Count, Members, Ordered
  <2>9. name \notin Ordered
    BY <1>4 DEF Ordered
  <2> HIDE DEF DD, RR, PP, O, U, G
  <2>10. IsFiniteSet(DD \cup RR) /\ Cardinality(DD \cup RR) = Cardinality(DD) + Cardinality(RR) - 0
    BY <2>4, <2>5, <2>7, FS_Union, FS_EmptySet
  <2>11. Cardinality((DD \cup RR) \cup PP) = Cardinality(DD \cup RR) + Cardinality(PP) - 0
    BY <2>6, <2>7, <2>10, FS_Union, FS_EmptySet
  <2>12. Cardinality(U) \in Nat /\ Cardinality(G) \in Nat /\ Cardinality(O) \in Nat
    BY <2>1, <2>3, FS_CardinalityType DEF U, G
  <2>13. Cardinality(ExtractionMembers(v)) = Cardinality(U) + Cardinality(G) + Cardinality(O)
    BY <2>2, <2>4, <2>5, <2>6, <2>10, <2>11, <2>12
  <2> QED
    BY <1>1, <2>8, <2>9, <2>13 DEF HasMembers
<1> QED
  BY <1>2, <1>3, <1>4 DEF Chains

\* A history that contains another has its members, in their places, and the same roots
\* if it has no more of them.
LEMMA SignedStays ==
  ASSUME NEW v, NEW w, NEW n, NEW m, IsRead(v, n), IsRead(w, m), Sound(v), Sound(w),
         Contained(v, w), NEW name \in Chains
  PROVE  /\ Count(v, name) <= Count(w, name)
         /\ Retains(Checkpoint(w)[name], Checkpoint(v)[name], name)
         /\ Count(w, name) = Count(v, name) => Root(w, name) = Root(v, name)
<1>1. /\ Checkpoint(v)[name].count = Count(v, name) /\ Checkpoint(w)[name].count = Count(w, name)
      /\ Checkpoint(v)[name].members = Members(v, name)
      /\ Checkpoint(w)[name].members = Members(w, name)
  BY DEF Checkpoint
<1>2. CASE name \in Ordered
  <2>1. name # "revisions" /\ name # "extractions"
    BY <1>2 DEF Ordered
  <2> DEFINE c == v[name]
             f == w[name]
             x == OrderedMembers(c)
             y == OrderedMembers(f)
  <2>2. IsTable(c) /\ IsTable(f)
    BY <1>2, ReadIsTabled DEF Tabled
  <2>3. /\ Len(c) \in Nat /\ DOMAIN c = 1 .. Len(c) /\ Len(f) \in Nat /\ DOMAIN f = 1 .. Len(f)
    BY <2>2, TableLength
  <2>4. Len(c) <= Len(f) /\ \A i \in DOMAIN c : c[i] = f[i]
    BY <1>2 DEF Contained, Within
  <2>5. /\ Count(v, name) = Len(c) /\ Count(w, name) = Len(f)
        /\ Members(v, name) = x /\ Members(w, name) = y
        /\ Root(v, name) = Latest(c) /\ Root(w, name) = Latest(f)
    BY <1>2, <2>1 DEF Count, Members, Root
  <2> HIDE DEF c, f
  <2>6. SubSeq(y, 1, Len(c)) = x
    <3> DEFINE S == {y[j] : j \in DOMAIN f}
               k == Len(c)
    <3>1. DOMAIN y = DOMAIN f /\ DOMAIN x = 1 .. k /\ x = [i \in 1 .. k |-> x[i]]
      BY <2>3 DEF OrderedMembers
    <3>2. \A i \in 1 .. k : i \in DOMAIN f /\ y[i] = x[i] /\ y[i] \in S
      BY <2>3, <2>4 DEF OrderedMembers
    <3>3. 1 \in Int /\ k \in Int /\ k \in Nat
      BY <2>3
    <3> HIDE DEF S, k, x, y
    <3>4. /\ SubSeq(y, 1, k) \in Seq(S)
          /\ Len(SubSeq(y, 1, k)) = IF 1 <= k THEN k - 1 + 1 ELSE 0
          /\ \A i \in 1 .. k - 1 + 1 : SubSeq(y, 1, k)[i] = y[1 + i - 1]
      BY <3>2, <3>3, SubSeqProperties
    <3> DEFINE z == SubSeq(y, 1, k)
    <3>5. Len(z) = k /\ \A i \in 1 .. k : z[i] = y[i]
      BY <3>3, <3>4
    <3>6. z = [i \in 1 .. Len(z) |-> z[i]]
      BY <3>4, LenProperties
    <3> HIDE DEF z
    <3>7. z = x
      BY <3>1, <3>2, <3>5, <3>6
    <3> QED
      BY <3>7 DEF z, k
  <2>7. Retains(Checkpoint(w)[name], Checkpoint(v)[name], name)
    BY <1>1, <1>2, <2>5, <2>6 DEF Retains
  <2>8. Len(f) = Len(c) => c = f
    <3> SUFFICES ASSUME Len(f) = Len(c) PROVE c = f
      OBVIOUS
    <3>1. c = [i \in 1 .. Len(c) |-> c[i]] /\ f = [i \in 1 .. Len(f) |-> f[i]]
      BY <2>2, LenProperties DEF IsTable
    <3> QED
      BY <2>3, <2>4, <3>1
  <2> QED
    BY <2>4, <2>5, <2>7, <2>8
<1>3. CASE name = "revisions"
  <2> DEFINE V == v.revisions
             W == w.revisions
  <2>1. V \in SUBSET W /\ IsFiniteSet(W)
    BY DEF Contained, Within, Sound
  <2>2. /\ Count(v, name) = Cardinality(V) /\ Count(w, name) = Cardinality(W)
        /\ Members(v, name) = RevisionMembers(V) /\ Members(w, name) = RevisionMembers(W)
        /\ Root(v, name) = Tips(V) /\ Root(w, name) = Tips(W)
    BY <1>3 DEF Count, Members, Root, Ordered
  <2> HIDE DEF V, W
  <2>3. Cardinality(V) <= Cardinality(W) /\ (Cardinality(W) = Cardinality(V) => W = V)
    BY <2>1, FS_Subset
  <2>4. RevisionMembers(V) \subseteq RevisionMembers(W)
    BY <2>1 DEF RevisionMembers
  <2>5. name \notin Ordered
    BY <1>3 DEF Ordered
  <2> QED
    BY <1>1, <2>2, <2>3, <2>4, <2>5 DEF Retains
<1>4. CASE name = "extractions"
  <2> DEFINE U == v.runs
             X == w.runs
             G == v.pages
             Y == w.pages
             O == SourcesOf(v.runs)
             Z == SourcesOf(w.runs)
  <2>1. /\ U \in SUBSET X /\ G \in SUBSET Y /\ v.hashes \subseteq w.hashes
        /\ IsFiniteSet(X) /\ IsFiniteSet(Y) /\ IsFiniteSet(U) /\ IsFiniteSet(G)
        /\ v.hashes = {<<source, "written">> : source \in O}
        /\ w.hashes = {<<source, "written">> : source \in Z}
    BY DEF Contained, Within, Sound
  <2>2. O \in SUBSET Z /\ IsFiniteSet(Z)
    BY <2>1, SourcesFinite DEF SourcesOf
  <2>3. /\ Count(v, name) = Cardinality(U) + Cardinality(G) + Cardinality(O)
        /\ Count(w, name) = Cardinality(X) + Cardinality(Y) + Cardinality(Z)
        /\ Members(v, name) = ExtractionMembers(v) /\ Members(w, name) = ExtractionMembers(w)
        /\ Root(v, name) = ExtractionMembers(v) /\ Root(w, name) = ExtractionMembers(w)
    BY <1>4 DEF Count, Members, Root, Ordered
  <2>4. ExtractionMembers(v) \subseteq ExtractionMembers(w)
    BY <2>1 DEF ExtractionMembers
  <2>5. X = U /\ Y = G /\ Z = O => ExtractionMembers(v) = ExtractionMembers(w)
    BY <2>1 DEF ExtractionMembers
  <2>6. name \notin Ordered
    BY <1>4 DEF Ordered
  <2> HIDE DEF U, X, G, Y, O, Z
  <2>7. /\ Cardinality(U) <= Cardinality(X) /\ (Cardinality(X) = Cardinality(U) => X = U)
        /\ Cardinality(G) <= Cardinality(Y) /\ (Cardinality(Y) = Cardinality(G) => Y = G)
        /\ Cardinality(O) <= Cardinality(Z) /\ (Cardinality(Z) = Cardinality(O) => Z = O)
    BY <2>1, <2>2, FS_Subset
  <2>8. /\ Cardinality(U) \in Nat /\ Cardinality(X) \in Nat /\ Cardinality(G) \in Nat
        /\ Cardinality(Y) \in Nat /\ Cardinality(O) \in Nat /\ Cardinality(Z) \in Nat
    BY <2>1, <2>2, FS_CardinalityType, FS_Subset
  <2>9. Count(v, name) <= Count(w, name)
    BY <2>3, <2>7, <2>8
  <2>10. Count(w, name) = Count(v, name) => X = U /\ Y = G /\ Z = O
    BY <2>3, <2>7, <2>8
  <2>11. Retains(Checkpoint(w)[name], Checkpoint(v)[name], name)
    BY <1>1, <2>3, <2>4, <2>6 DEF Retains
  <2> QED
    BY <2>3, <2>5, <2>9, <2>10, <2>11
<1> QED
  BY <1>2, <1>3, <1>4 DEF Chains

LEMMA CountsAreNumbers ==
  ASSUME NEW v, NEW n, IsRead(v, n), Sound(v), NEW name \in Chains
  PROVE  Count(v, name) \in Nat
<1>1. CASE name \in Ordered
  <2>1. IsTable(v[name])
    BY <1>1, ReadIsTabled DEF Tabled
  <2> QED
    BY <1>1, <2>1, TableLength DEF Count, Ordered
<1>2. CASE name = "revisions"
  <2>1. Count(v, name) = Cardinality(v.revisions)
    BY <1>2 DEF Count, Ordered
  <2>2. IsFiniteSet(v.revisions)
    BY DEF Sound
  <2> QED
    BY <2>1, <2>2, FS_CardinalityType
<1>3. CASE name = "extractions"
  <2>1. Count(v, name) = Cardinality(v.runs) + Cardinality(v.pages) + Cardinality(SourcesOf(v.runs))
    BY <1>3 DEF Count, Ordered
  <2>2. IsFiniteSet(v.runs) /\ IsFiniteSet(v.pages)
    BY DEF Sound
  <2>3. /\ Cardinality(v.runs) \in Nat /\ Cardinality(v.pages) \in Nat
        /\ Cardinality(SourcesOf(v.runs)) \in Nat
    BY <2>2, FS_CardinalityType, SourcesFinite
  <2> QED
    BY <2>1, <2>3
<1> QED
  BY <1>1, <1>2, <1>3 DEF Chains

\* A history that contains another is never told to contradict its checkpoint.
LEMMA NothingContradicted ==
  ASSUME NEW v, NEW w, NEW n, NEW m, IsRead(v, n), IsRead(w, m), Sound(v), Sound(w),
         Contained(v, w)
  PROVE  CompareWith(Checkpoint(w), Checkpoint(v)) \in Fine
<1> DEFINE cur == Checkpoint(w)
           anc == Checkpoint(v)
           rollback   == {name \in Chains : cur[name].count < anc[name].count}
           mismatched == {name \in Chains \ rollback :
                            \/ ~Retains(cur[name], anc[name], name)
                            \/ /\ cur[name].count = anc[name].count
                               /\ cur[name].root # anc[name].root}
           advanced   == {name \in Chains : cur[name].count > anc[name].count}
<1>1. CompareWith(cur, anc) =
        IF rollback # {}        THEN "rollback_detected"
        ELSE IF mismatched # {} THEN "checkpoint_mismatch"
        ELSE IF advanced # {}   THEN "advanced"
        ELSE "matched"
  BY DEF CompareWith
<1>2. \A name \in Chains :
        /\ cur[name].count = Count(w, name) /\ anc[name].count = Count(v, name)
        /\ cur[name].root = Root(w, name) /\ anc[name].root = Root(v, name)
  BY DEF Checkpoint
<1>3. \A name \in Chains :
        /\ Count(v, name) \in Nat /\ Count(w, name) \in Nat
        /\ Count(v, name) <= Count(w, name)
        /\ Retains(cur[name], anc[name], name)
        /\ Count(w, name) = Count(v, name) => Root(w, name) = Root(v, name)
  BY SignedStays, CountsAreNumbers
<1> HIDE DEF cur, anc
<1>4. rollback = {}
  BY <1>2, <1>3
<1>5. mismatched = {}
  BY <1>2, <1>3
<1> HIDE DEF rollback, mismatched, advanced
<1>6. CompareWith(cur, anc) \in Fine
  BY <1>1, <1>4, <1>5 DEF Fine
<1> QED
  BY <1>6 DEF cur, anc

-----------------------------------------------------------------------------
(***************************************************************************)
(* A history nobody has touched is followed by its readers.                *)
(***************************************************************************)

\* An operation.
LEMMA FollowingGrows ==
  ASSUME NEW r, NEW x, NEW d, NEW e, NEW n \in Nat, NEW k, NEW an,
         InOrder(d, n), Grown(d, e, n + 1), GoodReader(r, x, d, n, k, an),
         \A i \in Done(an) : Tabled(an[i].signed), Following(r, x, d, an)
  PROVE  Following(r, x, e, an)
<1> DEFINE v == View(x.at, x.read, d)
           w == View(x.at, x.read, e)
           t == Snapshot(d)
           s == Snapshot(e)
<1>1. ASSUME x.at # 0
      PROVE  /\ Sound(w) /\ Contained(w, s)
             /\ x.files = FilesOf(an) => \A i \in Done(an) : Contained(an[i].signed, w)
  <2>1. x.at \in 1 .. 11 /\ IsRead(v, n)
    BY <1>1 DEF GoodReader
  <2>2. InOrder(e, n + 1) /\ IsHistory(d, n) /\ IsHistory(e, n + 1)
    <3>1. InOrder(e, n + 1)
      BY OrderGrows
    <3> QED
      BY <3>1 DEF InOrder
  <2>3. Sound(s) /\ IsRead(s, n + 1) /\ IsRead(t, n)
    BY <2>2, OrderIsSound, SnapshotIsRead
  <2>4. Sound(v) /\ Contained(v, t)
    BY <1>1 DEF Following
  <2>5. Contained(t, s)
    BY <2>2, GrownContains
  <2>6. Blend(w, v, s)
    BY <2>1, ViewBlends
  <2>7. IsRead(w, n + 1)
    BY <2>1, <2>2, StillRead
  <2> HIDE DEF v, w, s, t
  <2>8. Tabled(v) /\ Tabled(t) /\ Tabled(s) /\ Tabled(w)
    BY <2>1, <2>3, <2>7, ReadIsTabled
  <2>9. Contained(v, s)
    BY <2>4, <2>5, <2>8, ContainedTransitive
  <2>10. Contained(v, w) /\ Contained(w, s) /\ Sound(w)
    BY <2>3, <2>4, <2>6, <2>8, <2>9, BlendIsSound, BlendIsBetween
  <2>11. ASSUME x.files = FilesOf(an), NEW i \in Done(an)
         PROVE  Contained(an[i].signed, w)
    <3>1. Contained(an[i].signed, v)
      BY <1>1, <2>11 DEF Following, v
    <3> QED
      BY <2>8, <2>10, <3>1, ContainedTransitive
  <2> QED
    BY <2>10, <2>11
<1>2. /\ r \in Verifiers /\ x.at = 10 /\ x.files = FilesOf(an) /\ Last(an) # {} => x.found \in Last(an)
      /\ r \in Verifiers /\ x.at = 0 /\ x.files = FilesOf(an) /\ (\E i \in Last(an) : an[i].complete) =>
           x.status \in Fine \cup {"refused"}
  BY DEF Following
<1> QED
  BY <1>1, <1>2 DEF Following

\* The files a reader knew of are not all there are any more.
LEMMA FilesBehind ==
  ASSUME NEW q, NEW x, NEW an, NEW bn, AnchorsMove(an, bn, q), Knew(x, an)
  PROVE  x.files # FilesOf(bn)
<1> SUFFICES ASSUME x.files = FilesOf(bn) PROVE FALSE
  OBVIOUS
<1>1. /\ DOMAIN x.files = DOMAIN bn
      /\ \A i \in DOMAIN bn : /\ x.files[i].complete = bn[i].complete
                              /\ x.files[i].there = bn[i].there
  BY DEF FilesOf
<1> QED
  BY <1>1 DEF AnchorsMove, Knew

LEMMA FollowingOnward ==
  ASSUME NEW q, NEW r, NEW x, NEW d, NEW n, NEW k, NEW an, NEW bn,
         AnchorsMove(an, bn, q), GoodReader(r, x, d, n, k, an),
         Following(r, x, d, an)
  PROVE  Following(r, x, d, bn)
<1>1. x.files # FilesOf(bn)
  BY FilesBehind DEF GoodReader
<1> QED
  BY <1>1 DEF Following

LEMMA FollowingAtTheEnd ==
  ASSUME NEW r, NEW x, NEW d, NEW an, NEW status,
         r \in Verifiers /\ x.files = FilesOf(an) /\ (\E i \in Last(an) : an[i].complete) =>
           status \in Fine \cup {"refused"}
  PROVE  Following(r, Ended(x, status), d, an)
<1> DEFINE y == Ended(x, status)
<1>1. y.at = 0 /\ y.files = x.files /\ y.status = status
  BY DEF Ended
<1> HIDE DEF y
<1>2. Following(r, y, d, an)
  BY <1>1 DEF Following
<1> QED
  BY <1>2 DEF y

LEMMA UntouchedOperate ==
  ASSUME Core, Untouched, Operate
  PROVE  Untouched'
<1>1. Grown(db, db', minted + 1) /\ minted' = minted + 1 /\ UNCHANGED <<damage, anchors, reader>>
  BY CoreOperate DEF Operate
<1> SUFFICES ASSUME damage = <<>>
             PROVE  /\ InOrder(db', minted + 1)
                    /\ \A i \in Done(anchors) : Signed(anchors[i], db')
                    /\ \A r \in Readers : Following(r, reader[r], db', anchors)
  BY <1>1 DEF Untouched
<1>2. /\ InOrder(db, minted) /\ minted \in Nat /\ IsHistory(db, minted)
      /\ \A i \in DOMAIN anchors : AnchorTrue(anchors[i], minted)
  BY DEF Untouched, Core, Ground
<1>3. InOrder(db', minted + 1)
  BY <1>1, <1>2, OrderGrows
<1>4. \A i \in Done(anchors) : Tabled(anchors[i].signed)
  BY <1>2, ReadIsTabled DEF Done, AnchorTrue
<1>5. ASSUME NEW i \in Done(anchors) PROVE Signed(anchors[i], db')
  <2>1. Sound(anchors[i].signed) /\ Contained(anchors[i].signed, Snapshot(db))
    BY DEF Untouched, Signed
  <2>2. Contained(Snapshot(db), Snapshot(db'))
    BY <1>1, <1>2, GrownContains
  <2>3. Tabled(Snapshot(db)) /\ Tabled(Snapshot(db'))
    <3>1. IsHistory(db', minted + 1)
      BY <1>3 DEF InOrder
    <3> QED
      BY <1>2, <3>1, SnapshotIsRead, ReadIsTabled
  <2>4. Contained(anchors[i].signed, Snapshot(db'))
    BY <1>4, <2>1, <2>2, <2>3, ContainedTransitive
  <2> QED
    BY <2>1, <2>4 DEF Signed
<1>6. ASSUME NEW r \in Readers PROVE Following(r, reader[r], db', anchors)
  <2>1. GoodReader(r, reader[r], db, minted, Len(damage), anchors) /\ Following(r, reader[r], db, anchors)
    BY DEF Core, Untouched
  <2> QED
    BY <1>1, <1>2, <1>4, <2>1, FollowingGrows
<1> QED
  BY <1>3, <1>5, <1>6

LEMMA UntouchedDamage ==
  ASSUME Core, Alter \/ Lose \/ Rewrite \/ Restore
  PROVE  Untouched'
<1>1. PICK kind \in {"alter", "lose", "rewrite", "restore"} : damage' = Append(damage, kind)
  BY CoreDamage
<1>2. damage \in Seq({"alter", "lose", "rewrite", "restore"})
  BY DEF Core, Ground
<1>3. Append(damage, kind) # <<>>
  BY <1>2, AppendProperties
<1>4. damage' # <<>>
  BY <1>1, <1>3
<1> QED
  BY <1>4 DEF Untouched

\* One reader takes a step.
LEMMA UntouchedOfReader ==
  ASSUME Core, Untouched, NEW r \in Readers, NEW y, reader' = [reader EXCEPT ![r] = y],
         UNCHANGED <<db, minted, damage>>,
         \/ UNCHANGED anchors
         \/ /\ AnchorsMove(anchors, anchors', r)
            /\ damage = <<>> => \A i \in Done(anchors') : Signed(anchors'[i], db),
         damage = <<>> => Following(r, y, db, anchors')
  PROVE  Untouched'
<1> SUFFICES ASSUME damage = <<>>
             PROVE  /\ InOrder(db, minted)
                    /\ \A i \in Done(anchors') : Signed(anchors'[i], db)
                    /\ \A q \in Readers : Following(q, reader'[q], db, anchors')
  BY DEF Untouched
<1>1. InOrder(db, minted) /\ \A i \in Done(anchors) : Signed(anchors[i], db)
  BY DEF Untouched
<1>2. \A i \in Done(anchors') : Signed(anchors'[i], db)
  BY <1>1
<1>3. ASSUME NEW q \in Readers PROVE Following(q, reader'[q], db, anchors')
  <2>1. CASE q = r
    BY <2>1 DEF Core, Ground
  <2>2. CASE q # r
    <3>1. reader'[q] = reader[q]
      BY <2>2 DEF Core, Ground
    <3>2. /\ GoodReader(q, reader[q], db, minted, Len(damage), anchors)
          /\ Following(q, reader[q], db, anchors)
      BY DEF Core, Ground, Untouched
    <3> QED
      BY <3>1, <3>2, FollowingOnward
  <2> QED
    BY <2>1, <2>2
<1> QED
  BY <1>1, <1>2, <1>3

LEMMA UntouchedReadTable ==
  ASSUME Core, Untouched, NEW r \in Readers, ReadTable(r)
  PROVE  Untouched'
<1> DEFINE x == reader[r]
           name == Tables[x.at]
           rows == Select(name, x.read)
           y == Further(x, rows)
<1>1. /\ GoodReader(r, x, db, minted, Len(damage), anchors)
      /\ reader = [q \in Readers |-> reader[q]]
  BY DEF Core, Ground
<1>2. IsReader(x) /\ Fields(x.read)
  BY <1>1 DEF GoodReader
<1>3. UNCHANGED <<db, minted, damage, anchors>>
  BY DEF ReadTable
<1>4. x.at \in 1 .. 8 /\ \/ reader' = [reader EXCEPT ![r] = y]
                         \/ reader' = [reader EXCEPT ![r] = Ended(x, "refused")]
  BY <1>1, <1>2, ReadTableReads
<1>5. CASE reader' = [reader EXCEPT ![r] = Ended(x, "refused")]
  <2>1. Following(r, Ended(x, "refused"), db, anchors)
    BY FollowingAtTheEnd
  <2> HIDE DEF x
  <2> QED
    BY <1>3, <1>5, <2>1, UntouchedOfReader
<1>6. CASE reader' = [reader EXCEPT ![r] = y]
  <2> DEFINE next == [x.read EXCEPT ![name] = rows]
  <2>1. View(x.at + 1, next, db) = View(x.at, x.read, db)
    BY <1>2, <1>4, ViewStays
  <2>2. /\ y.at = x.at + 1 /\ y.read = next
        /\ y.files = IF x.at = 1 THEN FilesOf(anchors) ELSE x.files
    BY DEF Further
  <2>3. damage = <<>> => Following(r, x, db, anchors) /\ \A i \in Done(anchors) : Signed(anchors[i], db)
    BY DEF Untouched
  <2>4. View(1, x.read, db) = Snapshot(db)
    BY ViewAtTheEnds
  <2> HIDE DEF x, y, next, rows, name
  <2>5. ASSUME damage = <<>> PROVE Following(r, y, db, anchors)
    <3>1. y.at # 0 /\ y.at # 10 /\ x.at # 0 /\ View(y.at, y.read, db) = View(x.at, x.read, db)
      BY <1>4, <2>1, <2>2
    <3>2. Sound(View(y.at, y.read, db)) /\ Contained(View(y.at, y.read, db), Snapshot(db))
      BY <2>3, <2>5, <3>1 DEF Following
    <3>3. y.files = FilesOf(anchors) =>
            \A i \in Done(anchors) : Contained(anchors[i].signed, View(y.at, y.read, db))
      <4>1. CASE x.at = 1
        BY <2>3, <2>4, <2>5, <3>1, <4>1 DEF Signed
      <4>2. CASE x.at # 1
        BY <2>2, <2>3, <2>5, <3>1, <4>2 DEF Following
      <4> QED
        BY <4>1, <4>2
    <3> QED
      BY <3>1, <3>2, <3>3 DEF Following
  <2> QED
    BY <1>3, <1>6, <2>5, UntouchedOfReader
<1> QED
  BY <1>4, <1>5, <1>6

\* A reader goes on who has read everything.
LEMMA FollowingAll ==
  ASSUME NEW r, NEW x, x.at \in {9, 10}, Fields(x.read), NEW d, NEW an, NEW bn, NEW m,
         Following(r, x, d, an), bn = an \/ x.files # FilesOf(bn),
         r \in Verifiers /\ Last(bn) # {} => m \in Last(bn)
  PROVE  /\ Following(r, Onward(x, m), d, bn)
         /\ Sound(x.read) /\ Contained(x.read, Snapshot(d))
<1> DEFINE y == Onward(x, m)
<1>1. /\ y.at \in {9, 10, 11} /\ y.at # 0 /\ y.read = x.read /\ y.files = x.files /\ y.found = m
      /\ x.at # 0
  BY DEF Onward
<1> HIDE DEF y
<1>2. View(y.at, y.read, d) = x.read /\ View(x.at, x.read, d) = x.read
  BY <1>1, AllRead
<1>3. Sound(x.read) /\ Contained(x.read, Snapshot(d))
  BY <1>1, <1>2 DEF Following
<1>4. Following(r, y, d, bn)
  BY <1>1, <1>2, <1>3 DEF Following
<1> QED
  BY <1>3, <1>4 DEF y

LEMMA UntouchedFind ==
  ASSUME Core, Untouched, NEW r \in Readers, FindLatestAnchor(r)
  PROVE  Untouched'
<1> DEFINE x == reader[r]
<1>1. x.at = 9 /\ r \in Verifiers /\ UNCHANGED <<db, minted, damage, anchors>>
  BY FindGoes
<1>2. PICK m : /\ (m = 0 /\ Last(anchors) = {}) \/ m \in Last(anchors)
               /\ reader' = [reader EXCEPT ![r] = Onward(x, m)]
  BY FindGoes
<1>3. Fields(x.read) /\ (damage = <<>> => Following(r, x, db, anchors))
  BY DEF Core, GoodReader, Untouched
<1> HIDE DEF x
<1>4. damage = <<>> => Following(r, Onward(x, m), db, anchors)
  BY <1>1, <1>2, <1>3, FollowingAll
<1> QED
  BY <1>1, <1>2, <1>4, UntouchedOfReader

LEMMA UntouchedCheck ==
  ASSUME Core, Untouched, NEW r \in Readers, CheckLatestAnchor(r)
  PROVE  Untouched'
<1> DEFINE x == reader[r]
           s == Outcome(x)
<1>1. /\ GoodReader(r, x, db, minted, Len(damage), anchors)
      /\ IsTable(anchors) /\ \A i \in DOMAIN anchors : AnchorTrue(anchors[i], minted)
  BY DEF Core, Ground
<1>2. /\ x.at = 10 /\ r \in Verifiers /\ reader' = [reader EXCEPT ![r] = Ended(x, s)]
      /\ UNCHANGED <<db, minted, damage, anchors>>
      /\ View(x.at, x.read, db) = x.read
  BY CheckEnds
<1>3. damage = <<>> => /\ Following(r, x, db, anchors)
                       /\ \A i \in Done(anchors) : Signed(anchors[i], db)
  BY DEF Untouched
<1> HIDE DEF x
<1>4. ASSUME damage = <<>>, x.files = FilesOf(anchors), NEW i \in Last(anchors), anchors[i].complete
      PROVE  s \in Fine
  <2> DEFINE a == anchors[x.found]
  <2>1. x.found \in Last(anchors) /\ x.found \in DOMAIN anchors /\ a.there
    BY <1>2, <1>3, <1>4 DEF Following, Last
  <2>2. x.found = i /\ x.found # 0
    <3>1. DOMAIN anchors = 1 .. Len(anchors) /\ Len(anchors) \in Nat
      BY <1>1, TableLength
    <3>2. i <= x.found /\ x.found <= i /\ i \in DOMAIN anchors
      BY <2>1 DEF Last
    <3> QED
      BY <2>1, <3>1, <3>2
  <2>3. x.found \in Done(anchors) /\ a.complete
    BY <1>4, <2>1, <2>2 DEF Done
  <2>4. a.checkpoint = Checkpoint(a.signed) /\ IsRead(a.signed, minted)
    BY <1>1, <2>1, <2>3 DEF AnchorTrue
  <2>5. Sound(a.signed) /\ Contained(a.signed, x.read)
    <3>1. Sound(a.signed)
      BY <1>3, <1>4, <2>3 DEF Signed
    <3>2. Contained(a.signed, x.read)
      BY <1>2, <1>3, <1>4, <2>3 DEF Following
    <3> QED
      BY <3>1, <3>2
  <2> HIDE DEF a
  <2>6. Sound(x.read) /\ IsRead(x.read, minted)
    BY <1>1, <1>2, <1>3, <1>4 DEF Following, GoodReader
  <2>7. Complete(x.read) /\ VerifiesInternally(x.read)
    BY <2>6, SoundIsComplete DEF Sound
  <2>8. CompareWith(Checkpoint(x.read), a.checkpoint) \in Fine
    BY <2>4, <2>5, <2>6, NothingContradicted
  <2>9. AnchorStatus(x.found, x.read) = CompareWith(Checkpoint(x.read), a.checkpoint)
    <3>1. AnchorStatus(x.found, x.read) = IF x.found = 0 THEN "missing"
                                          ELSE IF ~a.there \/ ~a.complete THEN "invalid"
                                          ELSE IF ~Complete(x.read) THEN "error"
                                          ELSE CompareWith(Checkpoint(x.read), a.checkpoint)
      BY DEF AnchorStatus, a
    <3> QED
      BY <2>1, <2>2, <2>3, <2>7, <3>1 DEF a
  <2> QED
    BY <2>7, <2>8, <2>9 DEF Outcome
<1>5. damage = <<>> => Following(r, Ended(x, s), db, anchors)
  BY <1>4, FollowingAtTheEnd
<1> HIDE DEF s
<1> QED
  BY <1>2, <1>5, UntouchedOfReader

LEMMA UntouchedOpen ==
  ASSUME Core, Untouched, NEW r \in Readers, OpenAnchor(r)
  PROVE  Untouched'
<1> DEFINE x == reader[r]
<1>1. /\ GoodReader(r, x, db, minted, Len(damage), anchors)
      /\ reader = [q \in Readers |-> reader[q]] /\ IsTable(anchors)
  BY DEF Core, Ground
<1>2. /\ IsReader(x) /\ Fields(x.read) /\ Knew(x, anchors) /\ x.at = 9 /\ r \notin Verifiers
      /\ UNCHANGED <<db, minted, damage>>
  BY <1>1, TablesAre, IntegrityAssumption DEF GoodReader, OpenAnchor, HasRead
<1>3. CASE Finish(r, "refused") /\ UNCHANGED anchors
  <2>1. Following(r, Ended(x, "refused"), db, anchors)
    BY FollowingAtTheEnd
  <2>2. reader' = [reader EXCEPT ![r] = Ended(x, "refused")]
    BY <1>1, <1>2, <1>3, FinishEnds
  <2> HIDE DEF x
  <2> QED
    BY <1>2, <1>3, <2>1, <2>2, UntouchedOfReader
<1>4. ASSUME reader' = [reader EXCEPT ![r].at = @ + 1],
             anchors' = Append(anchors, [complete |-> FALSE, there |-> TRUE, by |-> r])
      PROVE  Untouched'
  <2> DEFINE y == Onward(x, x.found)
             a == [complete |-> FALSE, there |-> TRUE, by |-> r]
             bn == Append(anchors, a)
  <2>1. reader' = [reader EXCEPT ![r] = y]
    BY <1>1, <1>2, <1>4, GoesOnward
  <2>3. AnchorsMove(anchors, bn, r)
    BY <1>1, OpeningMoves
  <2>4. /\ DOMAIN bn = 1 .. Len(anchors) + 1 /\ bn[Len(anchors) + 1] = a
        /\ \A i \in 1 .. Len(anchors) : bn[i] = anchors[i]
    BY <1>1, TableGrows
  <2>5. Len(anchors) \in Nat /\ DOMAIN anchors = 1 .. Len(anchors)
    BY <1>1, TableLength
  <2>6. ~a.complete /\ anchors' = bn
    BY <1>4
  <2>7. damage = <<>> => Following(r, x, db, anchors) /\ \A i \in Done(anchors) : Signed(anchors[i], db)
    BY DEF Untouched
  <2> HIDE DEF x, y, a, bn
  <2>9. ASSUME damage = <<>>, NEW i \in Done(bn) PROVE Signed(bn[i], db)
    <3>1. i \in 1 .. Len(anchors) + 1 /\ bn[i].complete
      BY <2>4, <2>9 DEF Done
    <3>2. i # Len(anchors) + 1
      BY <2>4, <2>6, <3>1
    <3>3. i \in 1 .. Len(anchors)
      BY <2>5, <3>1, <3>2
    <3>4. i \in Done(anchors) /\ bn[i] = anchors[i]
      BY <2>4, <2>5, <3>1, <3>3 DEF Done
    <3> QED
      BY <2>7, <2>9, <3>4
  <2>10. damage = <<>> => Following(r, y, db, bn)
    <3>1. x.files # FilesOf(bn)
      BY <1>2, <2>3, FilesBehind
    <3> QED
      BY <1>2, <2>7, <3>1, FollowingAll DEF y
  <2> QED
    BY <1>2, <2>1, <2>3, <2>6, <2>9, <2>10, UntouchedOfReader
<1> QED
  BY <1>3, <1>4 DEF OpenAnchor

LEMMA UntouchedWrite ==
  ASSUME Core, Untouched, NEW r \in Readers, WriteAnchor(r)
  PROVE  Untouched'
<1> DEFINE x == reader[r]
           a == AnchorOf(x.read, r)
<1>1. /\ x.at = 10 /\ r \notin Verifiers /\ reader' = [reader EXCEPT ![r] = Onward(x, x.found)]
      /\ anchors' = [i \in DOMAIN anchors |-> IF anchors[i].by = r THEN a ELSE anchors[i]]
      /\ AnchorsMove(anchors, anchors', r)
      /\ UNCHANGED <<db, minted, damage>>
  BY WriteGoes
<1>2. damage = <<>> => Following(r, x, db, anchors) /\ \A i \in Done(anchors) : Signed(anchors[i], db)
  BY DEF Untouched
<1>3. a.signed = x.read
  BY DEF AnchorOf
<1>4. Fields(x.read) /\ Knew(x, anchors)
  BY DEF Core, GoodReader
<1> HIDE DEF x, a
<1>5. x.files # FilesOf(anchors')
  BY <1>1, <1>4, FilesBehind
<1>6. damage = <<>> => /\ Following(r, Onward(x, x.found), db, anchors')
                       /\ Sound(x.read) /\ Contained(x.read, Snapshot(db))
  BY <1>1, <1>2, <1>4, <1>5, FollowingAll
<1>7. ASSUME damage = <<>>, NEW i \in Done(anchors') PROVE Signed(anchors'[i], db)
  <2>1. Signed(a, db)
    BY <1>3, <1>6, <1>7 DEF Signed
  <2>2. i \in DOMAIN anchors /\ anchors'[i].complete
        /\ anchors'[i] = IF anchors[i].by = r THEN a ELSE anchors[i]
    BY <1>1, <1>7 DEF Done
  <2>3. CASE anchors[i].by = r
    BY <2>1, <2>2, <2>3
  <2>4. CASE anchors[i].by # r
    BY <1>2, <1>7, <2>2, <2>4 DEF Done
  <2> QED
    BY <2>3, <2>4
<1> QED
  BY <1>1, <1>6, <1>7, UntouchedOfReader

LEMMA UntouchedJobEnds ==
  ASSUME Core, Untouched, NEW r \in Readers, SyncAnchor(r) \/ FailAnchor(r) \/ StopJob(r)
  PROVE  Untouched'
<1> DEFINE x == reader[r]
<1>1. /\ r \notin Verifiers /\ UNCHANGED <<db, minted, damage>>
      /\ \/ UNCHANGED anchors
         \/ AnchorsMove(anchors, anchors', r) /\ \A i \in Done(anchors') : i \in Done(anchors)
  BY JobEnds
<1>2. PICK status \in {"signed", "failed", "stopped"} :
        reader' = [reader EXCEPT ![r] = Ended(x, status)]
  BY JobEnds
<1>3. Following(r, Ended(x, status), db, anchors')
  BY <1>1, FollowingAtTheEnd
<1>4. ASSUME damage = <<>>, AnchorsMove(anchors, anchors', r), NEW i \in Done(anchors'),
             i \in Done(anchors)
      PROVE  Signed(anchors'[i], db)
  <2>1. Signed(anchors[i], db) /\ anchors'[i].signed = anchors[i].signed
    BY <1>4 DEF Untouched, AnchorsMove
  <2> QED
    BY <2>1 DEF Signed
<1> HIDE DEF x
<1> QED
  BY <1>1, <1>2, <1>3, <1>4, UntouchedOfReader

\* Every step keeps what holds of a history nobody has touched.
LEMMA UntouchedStep ==
  ASSUME Core, Untouched, [Next]_vars
  PROVE  Untouched'
<1>1. CASE Operate
  BY <1>1, UntouchedOperate
<1>2. CASE Alter \/ Lose \/ Rewrite \/ Restore
  BY <1>2, UntouchedDamage
<1>3. ASSUME NEW r \in Readers, Step(r) PROVE Untouched'
  BY <1>3, UntouchedReadTable, UntouchedFind, UntouchedCheck, UntouchedOpen, UntouchedWrite,
     UntouchedJobEnds
  DEF Step
<1>4. CASE UNCHANGED vars
  BY <1>4 DEF vars, Untouched
<1> QED
  BY <1>1, <1>2, <1>3, <1>4 DEF Next

LEMMA InitUntouched ==
  ASSUME Init
  PROVE  Untouched
<1>1. /\ \A i \in DOMAIN anchors : anchors[i] = AnchorOf(ReadOf(db), "earlier_job")
  BY FirstAnchor
<1>2. InOrder(db, minted) /\ reader = [r \in Readers |-> Idle]
  BY OpeningAssumption DEF Init
<1>3. ReadOf(db) = Snapshot(db) /\ Sound(Snapshot(db)) /\ Contained(Snapshot(db), Snapshot(db))
  <2>1. IsRead(Snapshot(db), minted)
    BY <1>2, SnapshotIsRead DEF InOrder
  <2> QED
    BY <1>2, <2>1, ReadAtRest, OrderIsSound, ReadIsTabled, ContainedInItself
<1>4. \A i \in DOMAIN anchors : anchors[i].signed = Snapshot(db)
  BY <1>1, <1>3 DEF AnchorOf
<1>5. \A i \in Done(anchors) : Signed(anchors[i], db)
  BY <1>3, <1>4 DEF Signed, Done
<1>6. Idle.at = 1 /\ View(1, Idle.read, db) = Snapshot(db)
  <2>1. View(1, Idle.read, db) = Snapshot(db)
    BY ViewAtTheEnds
  <2> QED
    BY <2>1 DEF Idle
<1>7. ASSUME NEW r \in Readers PROVE Following(r, reader[r], db, anchors)
  <2>1. reader[r] = Idle
    BY <1>2
  <2>2. Following(r, Idle, db, anchors)
    <3> DEFINE x == Idle
    <3> HIDE DEF x
    <3>1. x.at = 1 /\ View(x.at, x.read, db) = Snapshot(db)
      BY <1>6 DEF x
    <3>2. Following(r, x, db, anchors)
      BY <1>3, <1>5, <3>1 DEF Following, Signed
    <3> QED
      BY <3>2 DEF x
  <2> QED
    BY <2>1, <2>2
<1> QED
  BY <1>2, <1>5, <1>7 DEF Untouched

-----------------------------------------------------------------------------
(***************************************************************************)
(* What holds of every behaviour.                                          *)
(***************************************************************************)

LEMMA Inductive ==
  Spec => []IInv
<1>1. Init => IInv
  BY InitCore, InitUntouched, InitAltered DEF IInv
<1>2. IInv /\ [Next]_vars => IInv'
  BY CoreStep, UntouchedStep, AlteredStep DEF IInv
<1> QED
  BY <1>1, <1>2, PTL DEF Spec

\* A history nobody has touched is found to verify, with as many members in every chain
\* as rows were counted, whatever operations committed between one table and the next
\* (compute_case_integrity).
THEOREM UntouchedVerifies ==
  Spec => []UntouchedHistoriesVerify
<1>1. ASSUME IInv PROVE UntouchedHistoriesVerify
  <2> SUFFICES ASSUME NEW r \in Readers, HasRead(r), damage = <<>>
               PROVE  VerifiesInternally(reader[r].read) /\ Complete(reader[r].read)
    BY DEF UntouchedHistoriesVerify
  <2> DEFINE x == reader[r]
  <2>1. /\ GoodReader(r, x, db, minted, Len(damage), anchors)
        /\ Following(r, x, db, anchors)
    BY <1>1 DEF IInv, Core, Untouched
  <2>2. x.at = 9
    BY TablesAre DEF HasRead
  <2> HIDE DEF x
  <2>3. View(9, x.read, db) = x.read
    <3>1. Fields(x.read) /\ 9 \in Int /\ 9 > 8
      BY <2>1 DEF GoodReader
    <3> QED
      BY <3>1, ViewAtTheEnds
  <2>4. Sound(x.read) /\ IsRead(x.read, minted)
    BY <2>1, <2>2, <2>3 DEF GoodReader, Following
  <2>5. VerifiesInternally(x.read) /\ Complete(x.read)
    BY <2>4, SoundIsComplete DEF Sound
  <2> QED
    BY <2>5 DEF x
<1> QED
  BY <1>1, Inductive, PTL

\* A verification of a history nobody has touched does not report it: it answers ok, or
\* that there are too many rows, unless the job has opened, written or removed a
\* checkpoint file since it began or the latest was left incomplete
\* (verify_latest_anchor).
THEOREM RaisesNoFalseAlarm ==
  Spec => []NoFalseAlarm
<1>1. ASSUME IInv PROVE NoFalseAlarm
  <2> SUFFICES ASSUME NEW r \in Verifiers, reader[r].at = 0, damage = <<>>,
                      reader[r].files = Files, \E i \in LatestAnchor : anchors[i].complete
               PROVE  reader[r].status \in Fine \cup {"refused"}
    BY DEF NoFalseAlarm
  <2>1. Following(r, reader[r], db, anchors)
    BY <1>1 DEF IInv, Untouched, Readers
  <2>2. Files = FilesOf(anchors) /\ LatestAnchor = Last(anchors)
    BY DEF Files, FilesOf, LatestAnchor, Last
  <2> QED
    BY <2>1, <2>2 DEF Following
<1> QED
  BY <1>1, Inductive, PTL

\* A verification that answers ok has read, unchanged to the letter, everything that a
\* checkpoint signed which is no older than any that was complete when the verification
\* began and has not been removed, whatever was altered, rewritten or restored
\* (verify_latest_anchor).
THEOREM RetainsWhatWasSigned ==
  Spec => []SignedHistoryIsRetained
<1>1. ASSUME IInv PROVE SignedHistoryIsRetained
  <2> SUFFICES ASSUME NEW r \in Verifiers, Ok(r)
               PROVE  \E i \in DOMAIN anchors :
                        /\ anchors[i].complete
                        /\ \A j \in SignedBefore(r) : j <= i
                        /\ Within(anchors[i].signed, reader[r].read)
    BY DEF SignedHistoryIsRetained
  <2>1. GoodReader(r, reader[r], db, minted, Len(damage), anchors)
    BY <1>1 DEF IInv, Core, Readers
  <2>2. SignedBefore(r) = Before(reader[r], anchors)
    BY DEF SignedBefore, Before
  <2> QED
    BY <2>1, <2>2 DEF GoodReader, Retained, NoneAfter, Ok
<1> QED
  BY <1>1, Inductive, PTL

\* As long as rows are altered and files lost but no hash is made anew and nothing is
\* restored, a verification that begins after an alteration does not answer ok, and a
\* job that begins after it signs nothing (compute_case_integrity, create_anchors).
THEOREM FindsAlterations ==
  Spec => []AlterationsAreFound
<1>1. ASSUME IInv PROVE AlterationsAreFound
  <2> SUFFICES ASSUME NEW r \in Readers,
                      \E i \in 1 .. reader[r].damage : damage[i] \in {"alter", "lose"},
                      \A i \in DOMAIN damage : damage[i] \in {"alter", "lose"}
               PROVE  ~Ok(r) /\ ~Opened(r) /\ ~Written(r) /\ reader[r].status # "signed"
    BY DEF AlterationsAreFound
  <2> DEFINE x == reader[r]
  <2>1. GoodReader(r, x, db, minted, Len(damage), anchors) /\ Found(x, db)
    BY <1>1 DEF IInv, Core, Altered
  <2>2. x.damage > 0
    <3>1. damage \in Seq({"alter", "lose", "rewrite", "restore"})
      BY <1>1 DEF IInv, Core, Ground
    <3>2. x.damage \in Nat
      BY <2>1, <3>1 DEF GoodReader
    <3>3. \E i \in 1 .. x.damage : TRUE
      OBVIOUS
    <3> HIDE DEF x
    <3> QED
      BY <3>2, <3>3
  <2>3. x.status \notin Fine \cup {"signed"}
    BY <2>1, <2>2 DEF Found
  <2>4. ASSUME Opened(r) \/ Written(r) PROVE FALSE
    <3>1. x.at \in {10, 11} /\ r \in Jobs
      BY <2>4, TablesAre DEF Opened, Written
    <3> QED
      BY <1>1, <2>2, <3>1, JobFindsNothing DEF IInv
  <2> QED
    BY <2>3, <2>4 DEF Ok
<1> QED
  BY <1>1, Inductive, PTL
=============================================================================
