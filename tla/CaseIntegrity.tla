--------------------------- MODULE CaseIntegrity ---------------------------
(***************************************************************************)
(* The integrity of a matter's history: what operations append to it, how  *)
(* a verification reads it back and checks it, and the checkpoints that a  *)
(* job signs and keeps outside the database.                               *)
(*                                                                         *)
(* A verification reads one table after another (READ COMMITTED), while    *)
(* operations go on appending and the job goes on writing checkpoints; the *)
(* database may be altered behind the application's back, or restored to   *)
(* what it was.                                                            *)
(*                                                                         *)
(* A hash is what was hashed: canonical_sha256 is taken to be injective.   *)
(***************************************************************************)
EXTENDS Integers, Sequences, FiniteSets

CONSTANTS
  Verifiers,     \* verifications that reviewers ask for, one each
  Jobs,          \* runs of the checkpoint job
  Sections,      \* sections of the report
  Opening,       \* the history to begin with, of which there is a checkpoint
  Operations,    \* the number of the operations that made it
  HistoryLimit,  \* the rows of a table a reviewer's verification will read
  MaxAppends,    \* operations (a bound of the model)
  MaxDamage      \* alterations and restorations (a bound of the model)

VARIABLES
  db,       \* the history: its rows, table by table
  minted,   \* the number of operations so far; ids are made of it
  damage,   \* what was done to the history other than append to it
  anchors,  \* the checkpoint files, in the order of their names, with those removed
  reader    \* what each verification and job is doing

vars == <<db, minted, damage, anchors, reader>>

Readers == Verifiers \cup Jobs

ASSUME IntegrityAssumption ==
  /\ Verifiers \cap Jobs = {} /\ "earlier_job" \notin Jobs
  /\ {Operations, HistoryLimit, MaxAppends, MaxDamage} \subseteq Nat

-----------------------------------------------------------------------------
(***************************************************************************)
(* Rows.  `text' stands for what a row says, and is "written" or, once     *)
(* somebody has altered it, "altered".  Ordered tables are sequences, the  *)
(* others are sets.                                                        *)
(***************************************************************************)

NoHash == <<>>    \* the previous hash of a first row

\* chain_sha256
ChainHash(previous, content) == <<previous, content>>

EventContent(row)    == <<row.id, row.text>>
PacketContent(row)   == <<row.id, row.document, row.recorded, row.pdfHash>>
RevisionContent(row) == <<row.id, row.section, row.parent, row.text, row.textHash>>

\* extraction_manifest_sha256
Manifest(fileHash, run, pages) ==
  <<fileHash, run.id, run.source, run.text, {<<page.id, page.hash>> : page \in pages}>>

Latest(chain) == IF chain = <<>> THEN NoHash ELSE chain[Len(chain)].hash

\* A row of an ordered chain as it is appended: an audit event, a decision.
Event(chain, id) ==
  [id |-> id, text |-> "written", prev |-> Latest(chain),
   hash |-> ChainHash(Latest(chain), <<id, "written">>)]

WithEvent(d, id) == [d EXCEPT !.audit = Append(@, Event(@, id))]

WithDecision(d, id) == [WithEvent(d, id) EXCEPT !.decisions = Append(@, Event(@, id))]

WithPacket(d, id) ==
  [WithEvent(d, id) EXCEPT !.packets = Append(@,
     [id |-> id, document |-> "written", recorded |-> "written",
      pdf |-> "written", pdfHash |-> "written", prev |-> Latest(@),
      hash |-> ChainHash(Latest(@), <<id, "written", "written", "written">>)])]

RevisionOf(d, s) == {row \in d.revisions : row.id = d.active[s]}

\* A revision follows the active one of its section.
WithRevision(d, s, id) ==
  LET previous == IF RevisionOf(d, s) = {} THEN NoHash
                  ELSE (CHOOSE row \in RevisionOf(d, s) : TRUE).hash
      content  == <<id, s, d.active[s], "written", "written">>
  IN  [WithEvent(d, id) EXCEPT
         !.active[s] = id,
         !.revisions = @ \cup {[id |-> id, section |-> s, parent |-> d.active[s],
                                text |-> "written", textHash |-> "written",
                                prev |-> previous, hash |-> ChainHash(previous, content)]}]

\* MUTANT: the manifest is made before the pages are there.
ManifestBeforePages(d, id) ==
  LET page == [id |-> id, run |-> id, text |-> "written", hash |-> "written"]
      run  == [id |-> id, source |-> id, text |-> "written"]
  IN  [WithEvent(d, id) EXCEPT
         !.files = @ \cup {[source |-> id, content |-> "written", hash |-> "written"]},
         !.pages = @ \cup {page},
         !.runs  = @ \cup {[id |-> id, source |-> id, text |-> "written",
                            manifest |-> Manifest("written", run, {})]}]

\* A document, its extraction run and a page of it are stored together.
WithDocument(d, id) ==
  LET page == [id |-> id, run |-> id, text |-> "written", hash |-> "written"]
      run  == [id |-> id, source |-> id, text |-> "written"]
  IN  [WithEvent(d, id) EXCEPT
         !.files = @ \cup {[source |-> id, content |-> "written", hash |-> "written"]},
         !.pages = @ \cup {page},
         !.runs  = @ \cup {[id |-> id, source |-> id, text |-> "written",
                            manifest |-> Manifest("written", run, {page})]}]

NoHistory ==
  [audit |-> <<>>, packets |-> <<>>, decisions |-> <<>>, revisions |-> {},
   active |-> [s \in Sections |-> 0], runs |-> {}, pages |-> {}, files |-> {}]

-----------------------------------------------------------------------------
(***************************************************************************)
(* Verification of what was read.                                          *)
(***************************************************************************)

PreviousHash(chain, i) == IF i = 1 THEN NoHash ELSE chain[i - 1].hash

\* _verify_chain
VerifyChain(chain) ==
  \A i \in DOMAIN chain :
    /\ chain[i].prev = PreviousHash(chain, i)
    /\ chain[i].hash = ChainHash(PreviousHash(chain, i), EventContent(chain[i]))

\* _verify_packet_artifact_chain, with the documents and the PDFs
VerifyPackets(chain) ==
  \A i \in DOMAIN chain :
    /\ chain[i].prev = PreviousHash(chain, i)
    /\ chain[i].hash = ChainHash(PreviousHash(chain, i), PacketContent(chain[i]))
    /\ chain[i].recorded = chain[i].document
    /\ chain[i].pdf = chain[i].pdfHash

OfSection(rows, s) == {row \in rows : row.section = s}

\* _verify_section_revision_chain: one lineage for each section, from one root,
\* without forks, each row hashed after its parent.
VerifyLineage(rows) ==
  /\ \E row \in rows : row.parent = 0
  /\ \A a, b \in rows : a.parent = b.parent => a = b
  /\ \A row \in rows :
       /\ row.textHash = row.text
       /\ row.parent # 0 => \E up \in rows : up.id = row.parent
       /\ LET parents  == {up \in rows : up.id = row.parent}
              previous == IF parents = {} THEN NoHash ELSE (CHOOSE up \in parents : TRUE).hash
          IN  /\ row.prev = previous
              /\ row.hash = ChainHash(previous, RevisionContent(row))

VerifyRevisions(rows) ==
  \A s \in {row.section : row \in rows} : VerifyLineage(OfSection(rows, s))

SourcesOf(runs) == {run.source : run \in runs}
PagesOf(pages, run) == {page \in pages : page.run = run.id}
FileHash(hashes, source) ==
  IF \E h \in hashes : h[1] = source THEN (CHOOSE h \in hashes : h[1] = source)[2] ELSE ""

\* MUTANT: the text of a page is not hashed again.
TrustPages(read) ==
  \A run \in read.runs :
    /\ \E file \in read.files : file.source = run.source /\ file.content = file.hash
    /\ run.manifest = Manifest(FileHash(read.hashes, run.source), run, PagesOf(read.pages, run))

\* _verify_extraction_integrity: the stored bytes, the text of each page, and the
\* manifest that binds them to the run.
VerifyExtractions(read) ==
  \A run \in read.runs :
    /\ \E file \in read.files : file.source = run.source /\ file.content = file.hash
    /\ \A page \in PagesOf(read.pages, run) : page.text = page.hash
    /\ run.manifest = Manifest(FileHash(read.hashes, run.source), run, PagesOf(read.pages, run))

VerifiesInternally(read) ==
  /\ VerifyChain(read.audit)
  /\ VerifyPackets(read.packets)
  /\ VerifyRevisions(read.revisions)
  /\ VerifyChain(read.decisions)
  /\ VerifyExtractions(read)

-----------------------------------------------------------------------------
(***************************************************************************)
(* Checkpoints (checkpoint_from_verification, verify_latest_anchor).       *)
(***************************************************************************)

Ordered == {"audit", "packets", "decisions"}
Chains == Ordered \cup {"revisions", "extractions"}

\* An ordered chain is a sequence of members, the others are sets of them.
OrderedMembers(chain) == [i \in DOMAIN chain |-> <<chain[i].id, chain[i].hash>>]

RevisionMembers(rows) ==
  {<<row.id, row.section, row.parent, row.textHash, row.hash>> : row \in rows}

ExtractionMembers(read) ==
  {<<"document", h[1], h[2]>> : h \in read.hashes}
    \cup {<<"run", run.id, run.manifest>> : run \in read.runs}
    \cup {<<"page", page.id, page.hash>> : page \in read.pages}

Members(read, name) ==
  CASE name \in Ordered      -> OrderedMembers(read[name])
    [] name = "revisions"    -> RevisionMembers(read.revisions)
    [] name = "extractions"  -> ExtractionMembers(read)

\* The tips of the lineages.
Tips(rows) ==
  {<<row.section, row.id, row.hash>> : row \in {r \in rows : \A s \in rows : s.parent # r.id}}

Root(read, name) ==
  CASE name \in Ordered      -> Latest(read[name])
    [] name = "revisions"    -> Tips(read.revisions)
    [] name = "extractions"  -> ExtractionMembers(read)

\* Documents are counted as the runs name them, and are members as they are stored.
Count(read, name) ==
  CASE name \in Ordered      -> Len(read[name])
    [] name = "revisions"    -> Cardinality(read.revisions)
    [] name = "extractions"  ->
         Cardinality(read.runs) + Cardinality(read.pages) + Cardinality(SourcesOf(read.runs))

Checkpoint(read) ==
  [name \in Chains |->
     [count |-> Count(read, name), root |-> Root(read, name), members |-> Members(read, name)]]

\* Every row counted has its member; RuntimeError otherwise.
HasMembers(chain, name) ==
  chain.count = IF name \in Ordered THEN Len(chain.members) ELSE Cardinality(chain.members)

Complete(read) == \A name \in Chains : HasMembers(Checkpoint(read)[name], name)

\* MUTANT: a chain that has grown is taken to retain what was signed.
HasGrown(current, anchored, name) ==
  current.count > anchored.count \/ current.members = anchored.members

\* MUTANT: revisions and extractions are compared as a whole.
RetainsWhole(current, anchored, name) ==
  IF name \in Ordered
  THEN SubSeq(current.members, 1, anchored.count) = anchored.members
  ELSE anchored.members = current.members

\* What was signed is still there: in its place, in an ordered chain.
Retains(current, anchored, name) ==
  IF name \in Ordered
  THEN SubSeq(current.members, 1, anchored.count) = anchored.members
  ELSE anchored.members \subseteq current.members

CompareWith(current, anchored) ==
  LET rollback   == {name \in Chains : current[name].count < anchored[name].count}
      mismatched == {name \in Chains \ rollback :
                       \/ ~Retains(current[name], anchored[name], name)
                       \/ /\ current[name].count = anchored[name].count
                          /\ current[name].root # anchored[name].root}
      advanced   == {name \in Chains : current[name].count > anchored[name].count}
  IN  IF rollback # {}        THEN "rollback_detected"
      ELSE IF mismatched # {} THEN "checkpoint_mismatch"
      ELSE IF advanced # {}   THEN "advanced"
      ELSE "matched"

\* Of the files that are there, the one whose name is last, if there is one.
LatestAnchor ==
  {i \in DOMAIN anchors :
     anchors[i].there /\ \A j \in DOMAIN anchors : anchors[j].there => j <= i}

\* The file found may have been removed before it is read.
AnchorStatus(found, read) ==
  IF found = 0 THEN "missing"
  ELSE IF ~anchors[found].there \/ ~anchors[found].complete THEN "invalid"
  ELSE IF ~Complete(read) THEN "error"
  ELSE CompareWith(Checkpoint(read), anchors[found].checkpoint)

-----------------------------------------------------------------------------
(***************************************************************************)
(* Operations append, each in one transaction: EvidenceTransactions shows  *)
(* that those of a matter do so one at a time.                             *)
(***************************************************************************)

Appending(id) ==
  {WithEvent(db, id), WithDecision(db, id), WithPacket(db, id), WithDocument(db, id)}
    \cup {WithRevision(db, s, id) : s \in Sections}

Operate ==
  /\ minted < Operations + MaxAppends
  /\ db' \in Appending(minted + 1)
  /\ minted' = minted + 1
  /\ UNCHANGED <<damage, anchors, reader>>

-----------------------------------------------------------------------------
(***************************************************************************)
(* What may happen to the database behind the application's back.          *)
(***************************************************************************)

Damage(kind, changed) ==
  /\ Len(damage) < MaxDamage
  /\ changed # db
  /\ db' = changed
  /\ damage' = Append(damage, kind)
  /\ UNCHANGED <<minted, anchors, reader>>

AlterRow(rows, row, field) == (rows \ {row}) \cup {[row EXCEPT ![field] = "altered"]}

\* A row is altered, and not the hashes.
Alter ==
  \/ \E name \in {"audit", "decisions"} : \E i \in DOMAIN db[name] :
       Damage("alter", [db EXCEPT ![name][i].text = "altered"])
  \/ \E i \in DOMAIN db.packets, field \in {"document", "pdf"} :
       Damage("alter", [db EXCEPT !.packets[i][field] = "altered"])
  \/ \E name \in {"revisions", "runs", "pages"} : \E row \in db[name] :
       Damage("alter", [db EXCEPT ![name] = AlterRow(@, row, "text")])
  \/ \E row \in db.files :
       Damage("alter", [db EXCEPT !.files = AlterRow(@, row, "content")])

\* The bytes of a document are lost.
Lose == \E row \in db.files : Damage("lose", [db EXCEPT !.files = @ \ {row}])

\* The last event is altered and hashed anew: the chain is valid.
Rewrite ==
  LET n    == Len(db.audit)
      last == [db.audit[n] EXCEPT !.text = "altered"]
  IN  /\ n > 0
      /\ Damage("rewrite",
           [db EXCEPT !.audit[n] = [last EXCEPT !.hash = ChainHash(last.prev, EventContent(last))]])

\* What a chain began with: its ids ascend.
Earlier(chain, n) == SubSeq(chain, 1, Cardinality({i \in DOMAIN chain : chain[i].id <= n}))

\* The database is restored to what it was after its first n operations.
Until(d, n) ==
  LET Kept(row) == row.id <= n
      rows      == {row \in d.revisions : Kept(row)}
      In(s)     == {0} \cup {row.id : row \in OfSection(rows, s)}
  IN  [audit     |-> Earlier(d.audit, n),
       packets   |-> Earlier(d.packets, n),
       decisions |-> Earlier(d.decisions, n),
       revisions |-> rows,
       active    |-> [s \in Sections |-> CHOOSE id \in In(s) : \A other \in In(s) : other <= id],
       runs      |-> {row \in d.runs : Kept(row)},
       pages     |-> {row \in d.pages : Kept(row)},
       files     |-> {file \in d.files : file.source <= n}]

Restore == \E n \in 0 .. minted : Damage("restore", Until(db, n))

-----------------------------------------------------------------------------
(***************************************************************************)
(* A verification and the job read the tables one after another            *)
(* (compute_case_integrity), then a verification looks for the latest      *)
(* checkpoint and reads it, and the job writes one (create_anchors).       *)
(***************************************************************************)

Tables == <<"audit", "packets", "revisions", "decisions", "runs", "pages", "hashes", "files">>

NothingRead ==
  [audit |-> <<>>, packets |-> <<>>, revisions |-> {}, decisions |-> <<>>,
   runs |-> {}, pages |-> {}, hashes |-> {}, files |-> {}]

\* How far every checkpoint file has come.
Files == [i \in DOMAIN anchors |-> [complete |-> anchors[i].complete, there |-> anchors[i].there]]

\* `damage' and `files' are what there was when a reader began, `found' is the
\* checkpoint file a verification has found.
Idle ==
  [at |-> 1, read |-> NothingRead, damage |-> 0, files |-> <<>>, found |-> 0, status |-> "none"]

\* What a statement reads, the runs having been read before it.
Select(name, read) ==
  CASE name = "pages"  -> {page \in db.pages : \E run \in read.runs : page.run = run.id}
    [] name = "hashes" -> {<<f.source, f.hash>> : f \in {f \in db.files : f.source \in SourcesOf(read.runs)}}
    [] name = "files"  -> {file \in db.files : file.source \in SourcesOf(read.runs)}
    [] OTHER           -> db[name]

Size(rows, name) ==
  IF name \in Ordered THEN Len(rows) ELSE Cardinality(rows)

\* _bounded_history_rows: what a reviewer asks for is read up to a limit, the
\* job reads everything.  The files read are those of the runs.
WithinLimit(r, rows, name) ==
  r \in Jobs \/ name \in {"hashes", "files"} \/ Size(rows, name) <= HistoryLimit

Reading(r) == reader[r].at \in DOMAIN Tables
HasRead(r) == reader[r].at = Len(Tables) + 1

Fine == {"matched", "advanced"}

\* What was read is kept as long as a property looks at it.
Finish(r, status) ==
  reader' = [reader EXCEPT
    ![r].at     = 0,
    ![r].status = status,
    ![r].read   = IF status \in Fine THEN @ ELSE NothingRead]

ReadTable(r) ==
  /\ Reading(r)
  /\ LET name == Tables[reader[r].at]
         rows == Select(name, reader[r].read)
     IN  IF WithinLimit(r, rows, name)
         THEN reader' = [reader EXCEPT
                ![r].at        = @ + 1,
                ![r].read      = [@ EXCEPT ![name] = rows],
                ![r].damage    = IF name = Tables[1] THEN Len(damage) ELSE @,
                ![r].files     = IF name = Tables[1] THEN Files ELSE @]
         ELSE Finish(r, "refused")
  /\ UNCHANGED <<db, minted, damage, anchors>>

\* The directory is listed,
FindLatestAnchor(r) ==
  /\ r \in Verifiers /\ HasRead(r)
  /\ \E i \in IF LatestAnchor = {} THEN {0} ELSE LatestAnchor :
       reader' = [reader EXCEPT ![r].at = @ + 1, ![r].found = i]
  /\ UNCHANGED <<db, minted, damage, anchors>>

HasFound(r) == r \in Verifiers /\ reader[r].at = Len(Tables) + 2

\* and then the last file is read.  The answer is ok when the history verifies and
\* retains what the checkpoint signed.
CheckLatestAnchor(r) ==
  LET status == AnchorStatus(reader[r].found, reader[r].read)
  IN  /\ HasFound(r)
      /\ Finish(r, IF status \in Fine /\ ~VerifiesInternally(reader[r].read)
                   THEN "internal" ELSE status)
      /\ UNCHANGED <<db, minted, damage, anchors>>

\* The job refuses a history that does not verify; the file it opens for its
\* checkpoint is there, and empty, before it is written.
OpenAnchor(r) ==
  /\ r \in Jobs /\ HasRead(r)
  /\ IF ~VerifiesInternally(reader[r].read) \/ ~Complete(reader[r].read)
     THEN Finish(r, "refused") /\ UNCHANGED anchors
     ELSE /\ anchors' = Append(anchors, [complete |-> FALSE, there |-> TRUE, by |-> r])
          /\ reader' = [reader EXCEPT ![r].at = @ + 1]
  /\ UNCHANGED <<db, minted, damage>>

\* What is read of a history at rest.
ReadOf(d) ==
  [audit |-> d.audit, packets |-> d.packets, revisions |-> d.revisions,
   decisions |-> d.decisions, runs |-> d.runs, pages |-> d.pages,
   hashes |-> {<<f.source, f.hash>> : f \in d.files}, files |-> d.files]

Opened(r)  == r \in Jobs /\ reader[r].at = Len(Tables) + 2
Written(r) == r \in Jobs /\ reader[r].at = Len(Tables) + 3

AnchorOf(read, by) ==
  [complete |-> TRUE, there |-> TRUE, by |-> by, checkpoint |-> Checkpoint(read), signed |-> read]

\* The file is written and flushed: others read all of it,
WriteAnchor(r) ==
  /\ Opened(r)
  /\ anchors' = [i \in DOMAIN anchors |->
       IF anchors[i].by = r THEN AnchorOf(reader[r].read, r) ELSE anchors[i]]
  /\ reader' = [reader EXCEPT ![r].at = @ + 1]
  /\ UNCHANGED <<db, minted, damage>>

\* before it is on the disk.
SyncAnchor(r) ==
  /\ Written(r)
  /\ Finish(r, "signed")
  /\ UNCHANGED <<db, minted, damage, anchors>>

\* The file cannot be written, or not be brought to the disk: it is removed.
FailAnchor(r) ==
  /\ Opened(r) \/ Written(r)
  /\ anchors' = [i \in DOMAIN anchors |->
       IF anchors[i].by = r THEN [anchors[i] EXCEPT !.there = FALSE] ELSE anchors[i]]
  /\ Finish(r, "failed")
  /\ UNCHANGED <<db, minted, damage>>

\* The job is killed, or cannot bring the directory to the disk; the file it has
\* opened stays as it is.
StopJob(r) ==
  /\ Opened(r) \/ Written(r)
  /\ Finish(r, "stopped")
  /\ UNCHANGED <<db, minted, damage, anchors>>

-----------------------------------------------------------------------------
(***************************************************************************)
(* The history to begin with.                                              *)
(***************************************************************************)

IsTable(chain) == chain \in Seq({chain[i] : i \in DOMAIN chain})

EventTable(chain) ==
  /\ IsTable(chain)
  /\ \A i \in DOMAIN chain :
       LET row == chain[i]
       IN  row = [id |-> row.id, text |-> row.text, prev |-> row.prev, hash |-> row.hash]

PacketTable(chain) ==
  /\ IsTable(chain)
  /\ \A i \in DOMAIN chain :
       LET row == chain[i]
       IN  row = [id |-> row.id, document |-> row.document, recorded |-> "written",
                  pdf |-> row.pdf, pdfHash |-> "written", prev |-> row.prev, hash |-> row.hash]

RevisionTable(rows) ==
  \A row \in rows :
    row = [id |-> row.id, section |-> row.section, parent |-> row.parent, text |-> row.text,
           textHash |-> "written", prev |-> row.prev, hash |-> row.hash]

\* Operations are numbered to n.
RunTable(runs, n) ==
  \A run \in runs :
    /\ run = [id |-> run.id, source |-> run.source, text |-> run.text, manifest |-> run.manifest]
    /\ run.id \in 1 .. n /\ run.source \in 1 .. n

PageTable(pages) ==
  \A page \in pages :
    page = [id |-> page.id, run |-> page.run, text |-> page.text, hash |-> "written"]

\* A document has one file.
FileTable(files, n) ==
  /\ \A file \in files :
       /\ file = [source |-> file.source, content |-> file.content, hash |-> "written"]
       /\ file.source \in 1 .. n
  /\ \A a, b \in files : a.source = b.source => a = b

IsHistory(d, n) ==
  /\ d = [audit |-> d.audit, packets |-> d.packets, decisions |-> d.decisions,
          revisions |-> d.revisions, active |-> d.active, runs |-> d.runs,
          pages |-> d.pages, files |-> d.files]
  /\ d.active = [s \in Sections |-> d.active[s]]
  /\ EventTable(d.audit) /\ PacketTable(d.packets) /\ EventTable(d.decisions)
  /\ RevisionTable(d.revisions)
  /\ RunTable(d.runs, n) /\ PageTable(d.pages) /\ FileTable(d.files, n)

\* No row says anything other than what was written.
AsWritten(d) ==
  /\ \A name \in {"audit", "decisions"} : \A i \in DOMAIN d[name] : d[name][i].text = "written"
  /\ \A i \in DOMAIN d.packets : d.packets[i].document = "written" /\ d.packets[i].pdf = "written"
  /\ \A name \in {"revisions", "runs", "pages"} : \A row \in d[name] : row.text = "written"
  /\ \A file \in d.files : file.content = "written"

\* The active revision is the tip of its section.
HasTip(d, s) ==
  \/ d.active[s] = 0 /\ OfSection(d.revisions, s) = {}
  \/ \E tip \in OfSection(d.revisions, s) :
       tip.id = d.active[s] /\ \A row \in d.revisions : row.parent # tip.id

\* What operations have made of the tables, n of them: it verifies.
InOrder(d, n) ==
  /\ IsHistory(d, n) /\ AsWritten(d)
  /\ VerifiesInternally(ReadOf(d))
  /\ \A name \in {"revisions", "runs", "pages"} :
       /\ IsFiniteSet(d[name])
       /\ \A a, b \in d[name] : a.id = b.id => a = b
       /\ \A row \in d[name] : row.id \in 1 .. n
  /\ IsFiniteSet(d.files)
  /\ \A row \in d.revisions : row.section \in Sections
  /\ \A s \in Sections : HasTip(d, s)
  /\ \A page \in d.pages : \E run \in d.runs : run.id = page.run
  /\ \A file \in d.files : \E run \in d.runs : run.source = file.source

ASSUME OpeningAssumption == InOrder(Opening, Operations)

-----------------------------------------------------------------------------
Init ==
  /\ db = Opening
  /\ minted = Operations
  /\ damage = <<>>
  /\ anchors = <<AnchorOf(ReadOf(Opening), "earlier_job")>>
  /\ reader = [r \in Readers |-> Idle]

Step(r) ==
  \/ ReadTable(r)
  \/ FindLatestAnchor(r)
  \/ CheckLatestAnchor(r)
  \/ OpenAnchor(r)
  \/ WriteAnchor(r)
  \/ SyncAnchor(r)
  \/ FailAnchor(r)
  \/ StopJob(r)

Next == Operate \/ Alter \/ Lose \/ Rewrite \/ Restore \/ \E r \in Readers : Step(r)

Spec == Init /\ [][Next]_vars

-----------------------------------------------------------------------------
(***************************************************************************)
(* Properties.                                                             *)
(***************************************************************************)

\* Ids are never used twice, the active revision is the tip of its section, readers
\* are in one of their steps, and a checkpoint signs as many members as it counts.
TypeOK ==
  /\ \A name \in Ordered : \A i, j \in DOMAIN db[name] :
       db[name][i].id = db[name][j].id => i = j
  /\ \A s \in Sections : HasTip(db, s)
  /\ \A r \in Readers : reader[r].at \in 0 .. Len(Tables) + 3
  /\ \A i \in DOMAIN anchors : anchors[i].complete =>
       \A name \in Chains : HasMembers(anchors[i].checkpoint[name], name)

Ok(r) == reader[r].status \in Fine

\* A history nobody has touched verifies, whatever was appended to it while its
\* tables were read (compute_case_integrity).
UntouchedHistoriesVerify ==
  \A r \in Readers :
    HasRead(r) /\ damage = <<>> => VerifiesInternally(reader[r].read) /\ Complete(reader[r].read)

\* An alteration in place of what is hashed is found by every verification that begins after it, and
\* the job signs no checkpoint of it, whichever row it is and whatever is altered or
\* appended after it, unless hashes are made anew.
AlterationsAreFound ==
  \A r \in Readers :
    (\E i \in 1 .. reader[r].damage : damage[i] \in {"alter", "lose"})
      /\ (\A i \in DOMAIN damage : damage[i] \in {"alter", "lose"})
      => ~Ok(r) /\ ~Opened(r) /\ ~Written(r) /\ reader[r].status # "signed"

Within(earlier, later) ==
  /\ \A name \in Ordered :
       /\ Len(earlier[name]) <= Len(later[name])
       /\ \A i \in DOMAIN earlier[name] : earlier[name][i] = later[name][i]
  /\ \A name \in {"revisions", "runs", "pages", "files"} : earlier[name] \subseteq later[name]

\* Checkpoint files that were complete when r began, and have not been removed.
SignedBefore(r) ==
  {i \in DOMAIN reader[r].files :
     reader[r].files[i] = [complete |-> TRUE, there |-> TRUE] /\ anchors[i].there}

\* A verification that answers ok has read, unchanged to the letter, everything
\* that the latest checkpoint signed: nothing was rewritten, restored away or
\* replaced, even if the chains are valid again (verify_latest_anchor).  The
\* checkpoint is none before those that were complete when the verification began,
\* unless writing them has failed after all and they were removed.
SignedHistoryIsRetained ==
  \A r \in Verifiers :
    Ok(r) => \E i \in DOMAIN anchors :
      /\ anchors[i].complete
      /\ \A j \in SignedBefore(r) : j <= i
      /\ Within(anchors[i].signed, reader[r].read)

\* A history nobody has touched is never reported, unless the job has opened,
\* written or removed a checkpoint file since the verification began, the latest
\* is not complete, there is none, or the history is too long to read.
NoFalseAlarm ==
  \A r \in Verifiers :
    (/\ reader[r].at = 0 /\ damage = <<>> /\ reader[r].files = Files
     /\ \E i \in LatestAnchor : anchors[i].complete)
      => reader[r].status \in Fine \cup {"refused"}
=============================================================================
