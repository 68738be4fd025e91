------------------------ MODULE EvidenceTransactions ------------------------
(***************************************************************************)
(* The evidence services as the code runs them: each request is one        *)
(* PostgreSQL transaction (READ COMMITTED) that takes row locks and        *)
(* advisory locks one after the other, reads rows between the locks, keeps *)
(* its own changes to itself and publishes them when it commits.           *)
(*                                                                         *)
(* The locks, in the order each operation takes them:                      *)
(*   create, upload           audit, every section row                     *)
(*   flag, verify             claim rows, audit, every section row         *)
(*   decide                   conflict row, claim rows, audit, every       *)
(*                            section row                                  *)
(*   draft                    catalog, audit                               *)
(*   revise                   its section row, catalog, audit              *)
(*   approve                  its section row, audit                       *)
(*   packet                   audit shared (released after the snapshot),  *)
(*                            audit                                        *)
(* "audit" is the advisory lock of the matter's audit chain.  The section  *)
(* rows are locked by the UPDATE that withdraws approvals.                 *)
(***************************************************************************)
EXTENDS MatterEvidence

CONSTANTS
  Reviewers, Role, Claims, Conflicts, Sections, ParagraphRefs, Sources,
  Privilege, PacketKeys, NoKey, Opening, SeverityChoices, QuoteChoices,
  MaxPackets, MaxEvents,   \* as in EvidenceCase
  Requests,                \* the requests in flight, one transaction each
  Calls,                   \* what they may ask for
  Faults                   \* whether a statement of a packet snapshot may fail

VARIABLES
  sources, claim, conflict, section, packets,   \* the committed rows
  log,       \* the committed audit chain: each event and its predecessor
  decisions, \* the committed decision chain
  revisions, \* the committed section revisions, each with its parent
  req,       \* what each request is doing
  held,      \* the locks each request holds until its transaction ends
  reading    \* the requests whose session holds the shared audit lock

matter == <<sources, claim, conflict, section, packets>>
chains == <<log, decisions, revisions>>
locks  == <<held, reading>>
vars   == <<matter, chains, req, locks>>

\* The specification the transactions implement.
Case == INSTANCE EvidenceCase WITH events <- Len(log)

\* What a reviewer may ask for.
CallRecords ==
  [op : {"create"}, by : Reviewers, source : Sources, quote : QuoteChoices] \cup
  [op : {"upload"}, by : Reviewers, source : Sources] \cup
  [op : {"flag"}, by : Reviewers, a : Claims, b : Claims, severity : SeverityChoices] \cup
  [op : {"decide"}, by : Reviewers, conflict : Conflicts, decision : DecisionTypes,
   selected : {"a", "b"}] \cup
  [op : {"verify"}, by : Reviewers, claim : Claims] \cup
  [op : {"draft"}, by : Reviewers, ref : ParagraphRefs, cited : (SUBSET Claims) \ {{}}] \cup
  [op : {"revise"}, by : Reviewers, section : Sections, ref : ParagraphRefs,
   cited : (SUBSET Claims) \ {{}}] \cup
  [op : {"approve"}, by : Reviewers, section : Sections] \cup
  [op : {"packet"}, by : Reviewers, type : Case!PacketTypes, key : PacketKeys \cup {NoKey}]

\* The bounds of EvidenceCase leave room for every request: none appends more than
\* three audit events or one packet.
ASSUME RequestsAssumption ==
  /\ Calls \subseteq CallRecords
  /\ IsFiniteSet(Requests)
  /\ Cardinality(Requests) <= MaxPackets
  /\ 3 * Cardinality(Requests) <= MaxEvents
  /\ Faults \in BOOLEAN

\* Earlier work left tables of rows, in order.
ASSUME CaseAssumption ==
  /\ Case!ConstantsAssumption
  /\ Case!OpeningAssumption
  /\ Opening.claim    = [c \in DOMAIN Opening.claim |-> Opening.claim[c]]
  /\ Opening.conflict = [k \in DOMAIN Opening.conflict |-> Opening.conflict[k]]
  /\ Opening.section  = [s \in DOMAIN Opening.section |-> Opening.section[s]]

\* Numbers stand for the identifiers of claims, in whose order the rows are locked.
ASSUME ClaimsAssumption == Claims \subseteq Nat

-----------------------------------------------------------------------------
(***************************************************************************)
(* Transactions.                                                           *)
(***************************************************************************)

NoRows == [x \in {} |-> x]

\* One row of a table: v under the identifier k.
Only(k, v) == [x \in {k} |-> v]

\* What a transaction changed and nobody else sees yet, and what it read and
\* will rely on: `root' is the audit head a packet was built at.
NoChanges ==
  [sources |-> {}, claim |-> NoRows, conflict |-> NoRows, section |-> NoRows,
   packet |-> <<>>, log |-> <<>>, decision |-> <<>>, revision |-> {}, root |-> 0]

\* `expected' is the version of the row the reviewer had on the screen.
Idle == [at |-> "idle", call |-> [op |-> "none"], expected |-> 0, tx |-> NoChanges,
         reply |-> "none"]

At(r, label) == req[r].at = label
Call(r) == req[r].call
Tx(r) == req[r].tx

\* The rows as request r sees them.
ClaimView(r)    == Overlay(claim, Tx(r).claim)
ConflictView(r) == Overlay(conflict, Tx(r).conflict)
SectionView(r)  == Overlay(section, Tx(r).section)

Goto(r, label) == req' = [req EXCEPT ![r].at = label]
Change(r, tx, label) == req' = [req EXCEPT ![r].at = label, ![r].tx = tx]

\* The transaction ends without a trace: rolled back, every lock it holds until
\* its end released, and the client told why.
Abort(r, reply) ==
  /\ req' = [req EXCEPT ![r] = [Idle EXCEPT !.at = "done", !.call = Call(r), !.reply = reply]]
  /\ held' = [held EXCEPT ![r] = {}]
  /\ UNCHANGED <<matter, chains, reading>>

\* An identifier from a sequence: one no committed or pending row has.
Fresh(Ids, Taken(_)) == Ids \ UNION {Taken(q) : q \in Requests}
FreshClaims    == Fresh(Claims \ DOMAIN claim, LAMBDA q : DOMAIN Tx(q).claim)
FreshConflicts == Fresh(Conflicts \ DOMAIN conflict, LAMBDA q : DOMAIN Tx(q).conflict)
FreshSections  == Fresh(Sections \ DOMAIN section, LAMBDA q : DOMAIN Tx(q).section)

NewId(Ids) == CHOOSE id \in Ids : TRUE

-----------------------------------------------------------------------------
(***************************************************************************)
(* Locks.                                                                  *)
(***************************************************************************)

ClaimLock(c)    == <<"claim", c>>
ConflictLock(k) == <<"conflict", k>>
SectionLock(s)  == <<"section", s>>
CatalogLock     == <<"catalog", 0>>
AuditLock       == <<"audit", 0>>

Holders(lock, r) == {q \in Requests \ {r} : lock \in held[q]}

\* The requests that keep r from the exclusive form of a lock.  The advisory
\* audit lock also has a shared form.
Blockers(lock, r) ==
  Holders(lock, r) \cup (IF lock = AuditLock THEN reading \ {r} ELSE {})

Take(r, lock) ==
  /\ Blockers(lock, r) = {}
  /\ held' = [held EXCEPT ![r] = @ \cup {lock}]

\* The claims an operation locks.
ClaimsToLock(r) ==
  CASE Call(r).op = "flag"   -> {Call(r).a, Call(r).b}
    [] Call(r).op = "decide" -> ClaimsOf(conflict[Call(r).conflict])
    [] Call(r).op = "verify" -> {Call(r).claim}
    [] OTHER                 -> {}

UnlockedClaims(r) == {c \in ClaimsToLock(r) : ClaimLock(c) \notin held[r]}
UnlockedSections(r) == {s \in DOMAIN section : SectionLock(s) \notin held[r]}

\* The locks request r waits for where it stands.
Wants(r) ==
  CASE At(r, "conflict") -> {ConflictLock(Call(r).conflict)}
    [] At(r, "claims")   -> {ClaimLock(Min(UnlockedClaims(r)))}
    [] At(r, "section")  -> {SectionLock(Call(r).section)}
    [] At(r, "catalog")  -> {CatalogLock}
    [] At(r, "audit")    -> {AuditLock}
    [] At(r, "reset")    -> {SectionLock(s) : s \in UnlockedSections(r)}
    [] OTHER             -> {}

WaitsFor(r) ==
  IF At(r, "share") THEN Holders(AuditLock, r)
                    ELSE UNION {Blockers(lock, r) : lock \in Wants(r)}

\* r is one of a set of requests that all wait for one another.
Deadlocked(r) ==
  \E D \in SUBSET Requests : r \in D /\ \A q \in D : WaitsFor(q) \cap D # {}

-----------------------------------------------------------------------------
(***************************************************************************)
(* A request arrives.  The reviewer acts on the rows committed now, and    *)
(* what the operation checks before it takes a lock is checked now.        *)
(***************************************************************************)

RoleOf(call) == Role[call.by]

Visible(call, S) ==
  S \subseteq DOMAIN claim /\ \A c \in S : VisibleTo(RoleOf(call), claim[c].privilege)

\* The call is well formed and passes the checks made before any lock.  A call
\* refused here would change nothing.
Submittable(call) ==
  CASE call.op = "create"  -> call.source \in sources /\ VisibleTo(RoleOf(call), Privilege[call.source])
    [] call.op = "upload"  -> /\ call.source \notin sources
                              /\ VisibleTo(RoleOf(call), Privilege[call.source])
                              /\ \A q \in Requests : Call(q).op = "upload" =>
                                                      Call(q).source # call.source
    [] call.op = "flag"    -> call.a # call.b /\ Visible(call, {call.a, call.b})
    [] call.op = "decide"  -> call.conflict \in DOMAIN conflict
    [] call.op = "verify"  -> HasPrivilegeClearance(RoleOf(call)) /\ call.claim \in DOMAIN claim
    [] call.op = "draft"   -> TRUE
    [] call.op = "revise"  -> call.section \in DOMAIN section
    [] call.op = "approve" -> call.section \in DOMAIN section
    [] call.op = "packet"  -> PacketPermitted(RoleOf(call))

FirstStep(op) ==
  CASE op \in {"create", "upload"}  -> "write"
    [] op \in {"flag", "verify"}    -> "claims"
    [] op = "decide"                -> "conflict"
    [] op = "draft"                 -> "catalog"
    [] op \in {"revise", "approve"} -> "section"
    [] op = "packet"                -> "replay"

\* The version of the row the reviewer has on the screen.
VersionSeen(call) ==
  CASE call.op = "decide"               -> conflict[call.conflict].version
    [] call.op \in {"revise", "approve"} -> section[call.section].version
    [] OTHER                             -> 0

Arrive(r, call) ==
  /\ At(r, "idle")
  /\ Submittable(call)
  /\ req' = [req EXCEPT ![r].at       = FirstStep(call.op),
                        ![r].call     = call,
                        ![r].expected = VersionSeen(call)]
  /\ UNCHANGED <<matter, chains, locks>>

-----------------------------------------------------------------------------
(***************************************************************************)
(* Row locks.                                                              *)
(***************************************************************************)

\* MUTANT: the version is checked on the row as it was before the lock, so never.
DecideWhateverTheVersion(r) ==
  LET call == Call(r)
      row  == conflict[call.conflict]
  IN  /\ At(r, "conflict")
      /\ Take(r, ConflictLock(call.conflict))
      /\ DecisionPermitted(call.decision, RoleOf(call), row.severity)
      /\ Visible(call, ClaimsOf(row))
      /\ Goto(r, "claims")
      /\ UNCHANGED <<matter, chains, reading>>

\* SELECT ... FOR UPDATE of the conflict, then the version check on the row as
\* it is once the lock is granted, and the checks on the decision.
LockConflict(r) ==
  LET call == Call(r)
      row  == conflict[call.conflict]
  IN  /\ At(r, "conflict")
      /\ Blockers(ConflictLock(call.conflict), r) = {}
      /\ IF row.version # req[r].expected THEN Abort(r, "stale")
         ELSE IF ~(/\ DecisionPermitted(call.decision, RoleOf(call), row.severity)
                   /\ Visible(call, ClaimsOf(row))) THEN Abort(r, "refused")
         ELSE /\ Take(r, ConflictLock(call.conflict))
              /\ Goto(r, "claims")
              /\ UNCHANGED <<matter, chains, reading>>

\* MUTANT: the rows are locked in the order the query happens to find them.
LockAnyClaim(r) ==
  /\ At(r, "claims")
  /\ \E c \in UnlockedClaims(r) :
       /\ Take(r, ClaimLock(c))
       /\ Goto(r, IF UnlockedClaims(r) # {c} THEN "claims"
                  ELSE IF Call(r).op = "decide" THEN "audit" ELSE "write")
  /\ UNCHANGED <<matter, chains, reading>>

\* Claim rows are locked one after the other in the order of their identifiers.
LockNextClaim(r) ==
  /\ At(r, "claims")
  /\ LET c == Min(UnlockedClaims(r))
     IN  /\ Take(r, ClaimLock(c))
         /\ Goto(r, IF UnlockedClaims(r) # {c} THEN "claims"
                    ELSE IF Call(r).op = "decide" THEN "audit" ELSE "write")
  /\ UNCHANGED <<matter, chains, reading>>

LockSection(r) ==
  LET call == Call(r)
      row  == section[call.section]
  IN  /\ At(r, "section")
      /\ Blockers(SectionLock(call.section), r) = {}
      /\ IF call.op = "approve" /\ ~PacketPermitted(RoleOf(call)) THEN Abort(r, "refused")
         ELSE IF row.version # req[r].expected THEN Abort(r, "stale")
         ELSE /\ Take(r, SectionLock(call.section))
              /\ Goto(r, IF call.op = "approve" THEN "audit" ELSE "catalog")
              /\ UNCHANGED <<matter, chains, reading>>

\* MUTANT: drafts are not serialized.
SkipCatalog(r) ==
  /\ At(r, "catalog")
  /\ Goto(r, "write")
  /\ UNCHANGED <<matter, chains, locks>>

LockCatalog(r) ==
  /\ At(r, "catalog")
  /\ Take(r, CatalogLock)
  /\ Goto(r, "write")
  /\ UNCHANGED <<matter, chains, reading>>

-----------------------------------------------------------------------------
(***************************************************************************)
(* What an operation writes before it is audited.                          *)
(***************************************************************************)

WriteSource(r) ==
  /\ At(r, "write") /\ Call(r).op = "upload"
  /\ Change(r, [Tx(r) EXCEPT !.sources = {Call(r).source}], "audit")
  /\ UNCHANGED <<matter, chains, locks>>

WriteClaim(r) ==
  LET call == Call(r)
  IN  /\ At(r, "write") /\ call.op = "create"
      /\ FreshClaims # {}
      /\ Change(r, [Tx(r) EXCEPT !.claim =
                      Only(NewId(FreshClaims),
                           ExtractedClaim(call.by, Privilege[call.source], call.quote))], "audit")
      /\ UNCHANGED <<matter, chains, locks>>

\* The pair is checked for an open conflict under the claim locks, the conflict
\* is inserted, and claim A is derived anew.
WriteConflict(r) ==
  LET call == Call(r)
      k    == NewId(FreshConflicts)
      new  == Only(k, FlaggedConflict(call.a, call.b, call.severity))
  IN  /\ At(r, "write") /\ call.op = "flag"
      /\ FreshConflicts # {}
      /\ IF OtherOpenConflict(conflict, call.a, call.b, k) THEN Abort(r, "duplicate")
         ELSE /\ Change(r, [Tx(r) EXCEPT
                   !.conflict = new,
                   !.claim    = Only(call.a,
                                   Recompute(claim[call.a], Overlay(conflict, new), call.a))],
                   "audit")
              /\ UNCHANGED <<matter, chains, locks>>

WriteAttestation(r) ==
  LET call == Call(r)
      row  == claim[call.claim]
  IN  /\ At(r, "write") /\ call.op = "verify"
      /\ IF \/ row.quoteVerification # "manual_verification_required"
            \/ row.author = call.by
         THEN Abort(r, "refused")
         ELSE /\ Change(r, [Tx(r) EXCEPT
                   !.claim = Only(call.claim, Attested(row, call.by, conflict, call.claim))], "audit")
              /\ UNCHANGED <<matter, chains, locks>>

\* Under the catalog lock: the reference is checked, the position allocated,
\* and the section inserted with its first revision.
WriteDraft(r) ==
  LET call == Call(r)
      s    == NewId(FreshSections)
  IN  /\ At(r, "write") /\ call.op = "draft"
      /\ FreshSections # {}
      /\ IF ~(ParagraphRefFree(section, call.ref, s) /\ Visible(call, call.cited))
         THEN Abort(r, "refused")
         ELSE /\ Change(r, [Tx(r) EXCEPT
                   !.section  = Only(s, DraftedSection(call.ref, NextPosition(section), call.cited)),
                   !.revision = {[section |-> s, number |-> 1, parent |-> 0, saw |-> 0]}], "audit")
              /\ UNCHANGED <<matter, chains, locks>>

\* A new revision of section s, as the child of the row's active revision, by a
\* reviewer who saw revision `saw'.
NextRevision(s, saw) ==
  [section |-> s, number |-> section[s].version + 1, parent |-> section[s].version, saw |-> saw]

WriteRevision(r) ==
  LET call == Call(r)
      s    == call.section
  IN  /\ At(r, "write") /\ call.op = "revise"
      /\ IF ~(ParagraphRefFree(section, call.ref, s) /\ Visible(call, call.cited))
         THEN Abort(r, "refused")
         ELSE /\ Change(r, [Tx(r) EXCEPT
                   !.section  = Only(s, Revised(section[s], call.ref, call.cited)),
                   !.revision = {NextRevision(s, req[r].expected)}], "audit")
              /\ UNCHANGED <<matter, chains, locks>>

-----------------------------------------------------------------------------
(***************************************************************************)
(* Auditing.                                                               *)
(***************************************************************************)

\* The operations whose audit events are about a claim, a conflict or a source.
EvidenceOps == {"create", "upload", "flag", "decide", "verify"}

\* MUTANT: an event is appended without the lock of the chain.
AppendUnlocked(r) ==
  /\ At(r, "audit")
  /\ Goto(r, IF Call(r).op \in EvidenceOps THEN "reset" ELSE "append")
  /\ UNCHANGED <<matter, chains, locks>>

LockAudit(r) ==
  /\ At(r, "audit")
  /\ Take(r, AuditLock)
  /\ Goto(r, IF Call(r).op \in EvidenceOps THEN "reset" ELSE "append")
  /\ UNCHANGED <<matter, chains, reading>>

\* The UPDATE that withdraws the approvals reaches one more section row.
LockSectionForReset(r) ==
  /\ At(r, "reset")
  /\ \E s \in UnlockedSections(r) : Take(r, SectionLock(s))
  /\ UNCHANGED <<matter, chains, req, reading>>

ResetSections(r) ==
  /\ At(r, "reset")
  /\ UnlockedSections(r) = {}
  /\ Change(r, [Tx(r) EXCEPT !.section = ResetApprovals(section, DOMAIN section)], "append")
  /\ UNCHANGED <<matter, chains, locks>>

\* n audit events, chained to the last committed one.
NewEvents(n) == [i \in 1 .. n |-> [prev |-> Len(log) + i - 1]]

\* Operations whose rows were written before: one event, or for a flag the
\* second claim and three events.
AppendEvent(r) ==
  /\ At(r, "append") /\ Call(r).op \in {"create", "upload", "verify", "draft", "revise"}
  /\ Change(r, [Tx(r) EXCEPT !.log = NewEvents(1)], "commit")
  /\ UNCHANGED <<matter, chains, locks>>

AppendFlag(r) ==
  LET b == Call(r).b
  IN  /\ At(r, "append") /\ Call(r).op = "flag"
      /\ Change(r, [Tx(r) EXCEPT
            !.claim = Put(Tx(r).claim, b, Recompute(ClaimView(r)[b], ConflictView(r), b)),
            !.log   = NewEvents(3)], "commit")
      /\ UNCHANGED <<matter, chains, locks>>

\* The decision proper: the conflict, both claims, the decision record and the
\* events, all under the audit lock.
AppendDecision(r) ==
  LET call      == Call(r)
      k         == call.conflict
      row       == Decided(conflict[k], call.decision, call.selected)
      conflicts == Put(conflict, k, row)
      claims    == DecidedClaims(claim, conflicts, k)
      changed   == {c \in ClaimsOf(row) : StandingChanged(claim[c], claims[c])}
  IN  /\ At(r, "append") /\ call.op = "decide"
      /\ Change(r, [Tx(r) EXCEPT
            !.conflict = Only(k, row),
            !.claim    = [c \in ClaimsOf(row) |-> claims[c]],
            !.decision = <<[conflict |-> k, saw |-> req[r].expected, prev |-> Len(decisions)]>>,
            !.log      = NewEvents(1 + Cardinality(changed))], "commit")
      /\ UNCHANGED <<matter, chains, locks>>

\* The impact and the digest are computed under the audit lock.
AppendApproval(r) ==
  LET call == Call(r)
      s    == call.section
  IN  /\ At(r, "append") /\ call.op = "approve"
      /\ IF ImpactOf(claim, conflict, section[s].claimIds) \notin UsableSectionStatuses
         THEN Abort(r, "refused")
         ELSE /\ Change(r, [Tx(r) EXCEPT
                   !.section  = Only(s, ApprovedSection(claim, conflict, section[s])),
                   !.revision = {NextRevision(s, req[r].expected)},
                   !.log      = NewEvents(1)], "commit")
              /\ UNCHANGED <<matter, chains, locks>>

-----------------------------------------------------------------------------
(***************************************************************************)
(* Packets: a snapshot under the shared lock, rendering without a lock,    *)
(* and a second look under the exclusive lock.                             *)
(***************************************************************************)

KeyUsed(r) == Call(r).key \in UsedKeys(packets, NoKey)

\* The stored artifact answers a repeated request of the same type.
Replay(r) ==
  LET same == \E i \in DOMAIN packets : /\ packets[i].key = Call(r).key
                                        /\ packets[i].type = Call(r).type
  IN  Abort(r, IF same THEN "replayed" ELSE "key conflict")

LookForReplay(r) ==
  /\ At(r, "replay")
  /\ IF KeyUsed(r) THEN Replay(r)
     ELSE Goto(r, "share") /\ UNCHANGED <<matter, chains, locks>>

ShareAuditLock(r) ==
  /\ At(r, "share")
  /\ Holders(AuditLock, r) = {}
  /\ reading' = reading \cup {r}
  /\ Goto(r, "root")
  /\ UNCHANGED <<matter, chains, held>>

ReadRoot(r) ==
  /\ At(r, "root")
  /\ Change(r, [Tx(r) EXCEPT !.root = Len(log)], "build")
  /\ UNCHANGED <<matter, chains, locks>>

BuildSnapshot(r) ==
  LET call == Call(r)
  IN  /\ At(r, "build")
      /\ Change(r, [Tx(r) EXCEPT !.packet =
            <<[type |-> call.type, key |-> call.key, root |-> Tx(r).root,
               entries |-> BuildPacket(claim, conflict, section, call.type)]>>], "release")
      /\ UNCHANGED <<matter, chains, locks>>

\* MUTANT: the snapshot lock is not given back.
KeepShared(r) ==
  /\ At(r, "release")
  /\ Goto(r, "audit")
  /\ UNCHANGED <<matter, chains, locks>>

ReleaseShared(r) ==
  /\ At(r, "release")
  /\ reading' = reading \ {r}
  /\ Goto(r, "audit")
  /\ UNCHANGED <<matter, chains, held>>

\* A statement of the snapshot fails.  The release that follows runs in the
\* aborted transaction and fails too; the lock belongs to the session, which
\* goes back to the pool still holding it.
SnapshotFails(r) ==
  /\ Faults
  /\ req[r].at \in {"root", "build"}
  /\ Abort(r, "failed")

\* MUTANT: the rendered packet is recorded whatever happened since the snapshot.
RecordUnchecked(r) ==
  /\ At(r, "append") /\ Call(r).op = "packet"
  /\ IF KeyUsed(r) THEN Replay(r)
     ELSE /\ Change(r, [Tx(r) EXCEPT !.log = NewEvents(1)], "commit")
          /\ UNCHANGED <<matter, chains, locks>>

RecordPacket(r) ==
  /\ At(r, "append") /\ Call(r).op = "packet"
  /\ IF KeyUsed(r) THEN Replay(r)
     ELSE IF Len(log) # Tx(r).root THEN Abort(r, "changed while rendering")
     ELSE /\ Change(r, [Tx(r) EXCEPT !.log = NewEvents(1)], "commit")
          /\ UNCHANGED <<matter, chains, locks>>

-----------------------------------------------------------------------------
(***************************************************************************)
(* The end of a transaction.                                               *)
(***************************************************************************)

\* The unique indexes, which the code means never to run into: one open conflict
\* per pair, one section per paragraph reference, one packet per key.
IndexesHold(conflicts, sections, artifacts) ==
  /\ \A j, k \in DOMAIN conflicts :
       /\ {conflicts[j].status, conflicts[k].status} \subseteq OpenConflictStatuses
       /\ SamePair(conflicts[j], conflicts[k])
       => j = k
  /\ \A s, t \in DOMAIN sections : sections[s].paragraphRef = sections[t].paragraphRef => s = t
  /\ \A i, j \in DOMAIN artifacts :
       artifacts[i].key = artifacts[j].key /\ artifacts[i].key # NoKey => i = j

Publish(r) ==
  /\ sources'   = sources \cup Tx(r).sources
  /\ claim'     = ClaimView(r)
  /\ conflict'  = ConflictView(r)
  /\ section'   = SectionView(r)
  /\ packets'   = packets \o Tx(r).packet
  /\ log'       = log \o Tx(r).log
  /\ decisions' = decisions \o Tx(r).decision
  /\ revisions' = revisions \cup Tx(r).revision
  /\ req'       = [req EXCEPT ![r] = [Idle EXCEPT !.at = "done", !.call = Call(r), !.reply = "ok"]]
  /\ held'      = [held EXCEPT ![r] = {}]
  /\ UNCHANGED reading

Commit(r) ==
  /\ At(r, "commit")
  /\ IF IndexesHold(ConflictView(r), SectionView(r), packets \o Tx(r).packet)
     THEN Publish(r)
     ELSE Abort(r, "index violated")

\* PostgreSQL finds a deadlock and cancels one of the transactions in it.
CancelDeadlocked(r) ==
  /\ Deadlocked(r)
  /\ Abort(r, "deadlock")

-----------------------------------------------------------------------------
Init ==
  /\ sources   = Opening.sources
  /\ claim     = Opening.claim
  /\ conflict  = Opening.conflict
  /\ section   = Opening.section
  /\ packets   = <<>>
  /\ log       = <<>>
  /\ decisions = <<>>
  /\ revisions = UNION {{[section |-> s, number |-> n, parent |-> n - 1, saw |-> n - 1] :
                           n \in 1 .. section[s].version} : s \in DOMAIN section}
  /\ req       = [r \in Requests |-> Idle]
  /\ held      = [r \in Requests |-> {}]
  /\ reading   = {}

Step(r) ==
  \/ LockConflict(r)
  \/ LockNextClaim(r)
  \/ LockSection(r)
  \/ LockCatalog(r)
  \/ WriteSource(r)
  \/ WriteClaim(r)
  \/ WriteConflict(r)
  \/ WriteAttestation(r)
  \/ WriteDraft(r)
  \/ WriteRevision(r)
  \/ LockAudit(r)
  \/ LockSectionForReset(r)
  \/ ResetSections(r)
  \/ AppendEvent(r)
  \/ AppendFlag(r)
  \/ AppendDecision(r)
  \/ AppendApproval(r)
  \/ LookForReplay(r)
  \/ ShareAuditLock(r)
  \/ ReadRoot(r)
  \/ BuildSnapshot(r)
  \/ ReleaseShared(r)
  \/ RecordPacket(r)
  \/ Commit(r)
  \/ CancelDeadlocked(r)

Next ==
  \E r \in Requests :
    \/ \E call \in Calls : Arrive(r, call)
    \/ Step(r)
    \/ SnapshotFails(r)

Spec == Init /\ [][Next]_vars

\* A request that arrived is executed: the server runs every transaction, and
\* PostgreSQL grants a lock that is free and resolves deadlocks.
FairSpec == Spec /\ \A r \in Requests : WF_vars(Step(r))

-----------------------------------------------------------------------------
(***************************************************************************)
(* Properties.                                                             *)
(***************************************************************************)

\* Whatever the transactions read and lock in whatever order, what becomes
\* visible is a sequence of the atomic operations of EvidenceCase: nothing is
\* committed on rows that changed after they were read.
ImplementsEvidenceCase == Case!Spec

\* The three hash chains never fork: every audit event, decision and section
\* revision extends the very last one committed before it (_append_audit,
\* apply_decision_op, _append_section_revision).
ChainsNeverFork ==
  /\ \A i \in DOMAIN log : log[i].prev = i - 1
  /\ \A i \in DOMAIN decisions : decisions[i].prev = i - 1
  /\ \A x, y \in revisions : x.section = y.section /\ x.parent = y.parent => x = y

\* No decision and no revision replaces one its author never saw: two reviewers
\* who act on the same version do not both succeed (_check_expected_version).
NothingOverwrittenUnseen ==
  /\ \A i, j \in DOMAIN decisions :
       /\ decisions[i].conflict = decisions[j].conflict
       /\ decisions[i].saw = decisions[j].saw
       => i = j
  /\ \A x \in revisions : x.saw = x.parent

\* No draft, revision, flag or packet runs into a unique index, which the server
\* would answer with an internal error: their own checks, under their locks,
\* come first (_lock_report_section_catalog, flag_conflict_op).
ChecksComeBeforeIndexes ==
  \A r \in Requests : req[r].reply = "index violated" => Call(r).op = "decide"

\* The claim locks, taken in one order, never close a cycle of waiting requests,
\* nor do the conflict, catalog and audit locks: in every deadlock a request that
\* withdraws approvals waits for a section row whose holder revises or approves
\* it (_lock_claim_rows).
CyclesNeedASection ==
  \A D \in SUBSET Requests :
    D # {} /\ (\A q \in D : WaitsFor(q) \cap D # {}) =>
      \E q, h \in D :
        /\ At(q, "reset") /\ h \in WaitsFor(q)
        /\ Call(h).op \in {"revise", "approve"}

\* Every request is answered: none waits for ever for a lock, and a deadlock is
\* resolved (release of the render snapshot lock in generate_packet_op).
EveryRequestEnds == \A r \in Requests : ~At(r, "idle") ~> At(r, "done")

\* The session-level shared lock is held only while the packet state is read
\* (_acquire_render_snapshot_lock).
SharedOnlyWhileReading ==
  \A r \in reading : req[r].at \in {"root", "build", "release"}
=============================================================================
